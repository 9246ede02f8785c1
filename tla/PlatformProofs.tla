--------------------------- MODULE PlatformProofs ---------------------------
(***************************************************************************)
(* Proofs about the parts around the job engine, each for every value of   *)
(* its constants.                                                          *)
(***************************************************************************)
EXTENDS Platform, ToolProofs, PackagesProofs, DeliveriesProofs

-----------------------------------------------------------------------------
(* WorkerService: one process, its slots and its registry row.             *)

SlotState == {"absent", "cancelled", "abandoned"} \union AliveSlot \union EndedSlot
QuietSlot == EndedSlot \union {"abandoned", "absent"}

\* What a slot has begun, late Jobs told apart: only one whose claim was asked
\* for before the stop can be late, and after it the slot asks no more.
SlotFits(row, stop) ==
  /\ row \in [state : SlotState, begun : 0..MaxBegun, late : {0, 1}]
  /\ row.late <= row.begun
  /\ row.state = "claiming" => row.late = 0 /\ row.begun < MaxBegun
  /\ ~stop => row.late = 0

AllQuiet == \A s \in Slots : slot[s].state \in QuietSlot

WorkerInv ==
  /\ process \in {"starting", "confirming", "running", "draining", "cancelling", "closing", "recording", "exited", "crashed"}
  /\ beating \in {"off", "waiting", "writing", "orphaned"} /\ stopSet \in BOOLEAN /\ wall \in ClockValues
  /\ workerRow \in [state : {"absent", "live", "stopped"}, beat : Nat, stopped : Nat]
  /\ slot \in [Slots -> [state : SlotState, begun : 0..MaxBegun, late : {0, 1}]]
  /\ \A s \in Slots : SlotFits(slot[s], stopSet)
  /\ process = "starting" => workerRow.state = "absent"
  /\ process \in {"closing", "recording"} => AllQuiet
  /\ workerRow.state = "stopped" => process = "exited" /\ AllQuiet /\ workerRow.stopped = workerRow.beat

\* What BeatMonotone says of one step.
BeatKept ==
  /\ workerRow.state = "live" /\ workerRow'.state # "absent" => workerRow'.beat >= workerRow.beat
  /\ workerRow.state = "stopped" => workerRow' = workerRow

LEMMA WorkerInitial == WorkerInit => WorkerInv
<1> SUFFICES ASSUME WorkerInit PROVE WorkerInv
  OBVIOUS
<1>1. /\ slot \in [Slots -> [state : SlotState, begun : 0..MaxBegun, late : {0, 1}]]
      /\ \A s \in Slots : SlotFits(slot[s], stopSet)
  BY WorkerAssumption DEF WorkerInit, NoSlot, SlotFits, SlotState
<1> QED
  BY <1>1 DEF WorkerInit, WorkerInv

\* A slot that was not quiet moves on; nothing else changes.
LEMMA SlotMoves ==
  ASSUME WorkerInv, NEW s \in Slots, slot[s].state \notin QuietSlot, NEW row,
         SlotFits(row, stopSet), slot' = [slot EXCEPT ![s] = row],
         UNCHANGED <<process, stopSet, workerRow, beating, wall>>
  PROVE  WorkerInv' /\ BeatKept
<1>1. process \notin {"closing", "recording"} /\ workerRow.state # "stopped"
  BY DEF WorkerInv, AllQuiet
<1>2. slot' \in [Slots -> [state : SlotState, begun : 0..MaxBegun, late : {0, 1}]] /\ \A r \in Slots : SlotFits(slot'[r], stopSet)
  BY DEF WorkerInv, SlotFits
<1> QED
  BY <1>1, <1>2 DEF WorkerInv, BeatKept

LEMMA SlotStepKeeps ==
  ASSUME WorkerInv, NEW s \in Slots, SlotStep(s)
  PROVE  WorkerInv' /\ BeatKept
<1>1. SlotFits(slot[s], stopSet) /\ slot[s] \in [state : SlotState, begun : 0..MaxBegun, late : {0, 1}]
  BY DEF WorkerInv
<1>2. UNCHANGED <<process, stopSet, workerRow, beating, wall>>
  BY DEF SlotStep, BeginClaim, Claimed, NothingToClaim, Executed, SlotStops, SlotDies, SlotUnwinds, SlotSurvives
<1>3. CASE BeginClaim(s)
  <2> DEFINE row == [slot[s] EXCEPT !.state = "claiming"]
  <2>1. slot' = [slot EXCEPT ![s] = row] /\ slot[s].state = "idle" /\ ~stopSet /\ slot[s].begun < MaxBegun
    BY <1>3 DEF BeginClaim, SetSlot, MayClaim
  <2>2. SlotFits(row, stopSet)
    BY <1>1, <2>1 DEF SlotFits, SlotState, AliveSlot
  <2>3. slot[s].state \notin QuietSlot
    BY <2>1 DEF QuietSlot, EndedSlot
  <2> QED
    BY <1>2, <2>1, <2>2, <2>3, SlotMoves
<1>4. CASE Claimed(s)
  <2> DEFINE row == [state |-> "executing", begun |-> slot[s].begun + 1, late |-> slot[s].late + IF stopSet THEN 1 ELSE 0]
  <2>1. slot' = [slot EXCEPT ![s] = row] /\ slot[s].state = "claiming"
    BY <1>4 DEF Claimed
  <2>2. SlotFits(row, stopSet)
    BY <1>1, <2>1, WorkerAssumption DEF SlotFits, SlotState, AliveSlot
  <2>3. slot[s].state \notin QuietSlot
    BY <2>1 DEF QuietSlot, EndedSlot
  <2> QED
    BY <1>2, <2>1, <2>2, <2>3, SlotMoves
<1>5. ASSUME NEW state \in {"idle", "ended"}, SetSlot(s, state),
             slot[s].state \in {"claiming", "executing", "idle", "cancelled"}
      PROVE  WorkerInv' /\ BeatKept
  <2> DEFINE row == [slot[s] EXCEPT !.state = state]
  <2>1. slot' = [slot EXCEPT ![s] = row]
    BY <1>5 DEF SetSlot
  <2>2. SlotFits(row, stopSet)
    BY <1>1, <1>5 DEF SlotFits, SlotState, AliveSlot, EndedSlot
  <2>3. slot[s].state \notin QuietSlot
    BY <1>5 DEF QuietSlot, EndedSlot
  <2> QED
    BY <1>2, <2>1, <2>2, <2>3, SlotMoves
<1> QED
  BY <1>3, <1>4, <1>5 DEF SlotStep, NothingToClaim, Executed, SlotStops, SlotDies, SlotUnwinds, SlotSurvives

\* All slots are given a new state at once; counts stay.
LEMMA SlotsRestated ==
  ASSUME WorkerInv, slot' \in [Slots -> [state : SlotState, begun : 0..MaxBegun, late : {0, 1}]], stopSet' = stopSet,
         \A s \in Slots : /\ slot'[s].begun = slot[s].begun /\ slot'[s].late = slot[s].late
                          /\ slot'[s].state = "claiming" => slot[s].state = "claiming"
  PROVE  \A s \in Slots : SlotFits(slot'[s], stopSet')
BY DEF WorkerInv, SlotFits

LEMMA StoppingKeeps ==
  ASSUME WorkerInv, Stopping
  PROVE  WorkerInv' /\ BeatKept
<1>1. CASE FirstCompleted
  BY <1>1 DEF FirstCompleted, WorkerInv, BeatKept, AllQuiet
<1>2. CASE GraceEnds
  <2>1. /\ slot' \in [Slots -> [state : SlotState, begun : 0..MaxBegun, late : {0, 1}]]
        /\ \A s \in Slots : /\ slot'[s].begun = slot[s].begun /\ slot'[s].late = slot[s].late
                            /\ slot'[s].state # "claiming"
    BY <1>2 DEF GraceEnds, WorkerInv, SlotState, AliveSlot, EndedSlot
  <2>2. \A s \in Slots : SlotFits(slot'[s], stopSet')
    BY <1>2, <2>1, SlotsRestated DEF GraceEnds
  <2> QED
    BY <1>2, <2>1, <2>2 DEF GraceEnds, WorkerInv, BeatKept
<1>3. CASE DrainEnds
  <2>1. /\ slot' \in [Slots -> [state : SlotState, begun : 0..MaxBegun, late : {0, 1}]]
        /\ \A s \in Slots : /\ slot'[s].begun = slot[s].begun /\ slot'[s].late = slot[s].late
                            /\ slot'[s].state \in EndedSlot \union {"abandoned"}
    BY <1>3 DEF DrainEnds, WorkerInv, SlotState, AliveSlot, EndedSlot
  <2>2. \A s \in Slots : SlotFits(slot'[s], stopSet')
    BY <1>3, <2>1, SlotsRestated DEF DrainEnds, EndedSlot
  <2> QED
    BY <1>3, <2>1, <2>2 DEF DrainEnds, WorkerInv, BeatKept, AllQuiet, QuietSlot
<1>4. CASE CancelAuxiliary
  BY <1>4 DEF CancelAuxiliary, WorkerInv, BeatKept, AllQuiet
<1>5. CASE RecordStop
  <2>1. wall \in Nat
    BY WorkerAssumption DEF WorkerInv
  <2> QED
    BY <1>5, <2>1 DEF RecordStop, WorkerInv, BeatKept, AllQuiet, Lost, LastBeat
<1> QED
  BY <1>1, <1>2, <1>3, <1>4, <1>5 DEF Stopping

LEMMA ProcessKeeps ==
  ASSUME WorkerInv, Register \/ Confirm \/ BeginBeat \/ EndBeat \/ BeatFails \/ Signal \/ CrashWorkerProcess \/ LoseRow \/ SetClock
  PROVE  WorkerInv' /\ BeatKept
<1>1. wall \in Nat
  BY WorkerAssumption DEF WorkerInv
\* A beat never moves the row back, and touches only a live one.
<1>2. ASSUME Beat
      PROVE  /\ workerRow' \in [state : {"absent", "live", "stopped"}, beat : Nat, stopped : Nat]
             /\ workerRow'.state = workerRow.state /\ (workerRow.state # "live" => workerRow' = workerRow)
             /\ BeatKept
  BY <1>1, <1>2 DEF Beat, LaterBeat, Lost, WorkerInv, BeatKept
<1>3. CASE Register
  BY <1>1, <1>3 DEF Register, WorkerInv, BeatKept
<1>4. CASE Confirm
  <2>1. CASE Lost
    <3>1. process' = "exited" /\ stopSet' = TRUE /\ UNCHANGED <<slot, beating, wall>> /\ process = "confirming" /\ Beat
      BY <1>4, <2>1 DEF Confirm
    <3>2. \A s \in Slots : SlotFits(slot'[s], stopSet')
      BY <3>1 DEF WorkerInv, SlotFits
    <3> QED
      BY <1>2, <3>1, <3>2 DEF WorkerInv, AllQuiet
  <2>2. CASE ~Lost
    <3>1. process' = "running" /\ beating' = "waiting" /\ UNCHANGED <<stopSet, wall>> /\ process = "confirming" /\ Beat
          /\ slot' = [s \in Slots |-> [NoSlot EXCEPT !.state = "idle"]]
      BY <1>4, <2>2 DEF Confirm
    <3>2. /\ slot' \in [Slots -> [state : SlotState, begun : 0..MaxBegun, late : {0, 1}]]
          /\ \A s \in Slots : SlotFits(slot'[s], stopSet')
      BY <3>1, WorkerAssumption DEF SlotFits, NoSlot, SlotState, AliveSlot
    <3> QED
      BY <1>2, <3>1, <3>2 DEF WorkerInv
  <2> QED
    BY <2>1, <2>2
<1>5. CASE EndBeat
  <2>1. Beat /\ UNCHANGED <<process, slot, wall>> /\ stopSet' \in BOOLEAN /\ (stopSet => stopSet')
        /\ beating' \in {"off", "waiting"}
    BY <1>5 DEF EndBeat, WorkerInv
  <2>2. \A s \in Slots : SlotFits(slot'[s], stopSet')
    BY <2>1 DEF WorkerInv, SlotFits
  <2> QED
    BY <1>2, <2>1, <2>2 DEF WorkerInv, AllQuiet
<1>6. CASE Signal
  <2>1. \A s \in Slots : SlotFits(slot'[s], stopSet')
    BY <1>6 DEF Signal, WorkerInv, SlotFits
  <2>2. stopSet' = TRUE /\ UNCHANGED <<process, slot, workerRow, beating, wall>>
    BY <1>6 DEF Signal
  <2>3. workerRow'.beat >= workerRow.beat
    BY <2>2 DEF WorkerInv
  <2> QED
    BY <2>1, <2>2, <2>3 DEF WorkerInv, BeatKept, AllQuiet
<1>7. CASE BeginBeat \/ BeatFails \/ SetClock
  BY <1>7 DEF BeginBeat, BeatFails, SetClock, WorkerInv, BeatKept, AllQuiet
<1>8. CASE LoseRow
  BY <1>8 DEF LoseRow, WorkerInv, BeatKept, AllQuiet
<1>9. CASE CrashWorkerProcess
  <2>1. /\ slot' \in [Slots -> [state : SlotState, begun : 0..MaxBegun, late : {0, 1}]]
        /\ \A s \in Slots : slot'[s].begun = slot[s].begun /\ slot'[s].late = slot[s].late /\ slot'[s].state = "absent"
    BY <1>9 DEF CrashWorkerProcess, WorkerInv, SlotState
  <2>2. \A s \in Slots : SlotFits(slot'[s], stopSet')
    BY <1>9, <2>1, SlotsRestated DEF CrashWorkerProcess
  <2> QED
    BY <1>9, <2>1, <2>2 DEF CrashWorkerProcess, WorkerInv, BeatKept
<1> QED
  BY <1>3, <1>4, <1>5, <1>6, <1>7, <1>8, <1>9

LEMMA WorkerKeeps ==
  ASSUME WorkerInv, [WorkerNext]_workerVars
  PROVE  WorkerInv' /\ BeatKept
<1>1. CASE UNCHANGED workerVars
  BY <1>1 DEF workerVars, WorkerInv, AllQuiet, BeatKept
<1> QED
  BY <1>1, SlotStepKeeps, StoppingKeeps, ProcessKeeps DEF WorkerNext

\* The inductive invariant of a Worker process.
THEOREM WorkerInvariant == WorkerSpec => []WorkerInv
<1>1. WorkerInv /\ [WorkerNext]_workerVars => WorkerInv'
  BY WorkerKeeps
<1> QED
  BY WorkerInitial, <1>1, PTL DEF WorkerSpec

(* Whatever fails while a Worker stops: a slot begins at most the one Job  *)
(* it had asked for before the stop, and a row that says stopped is true   *)
(* (run_worker, Worker.run, stop_worker).                                  *)
THEOREM WorkerSoundHolds == WorkerSpec => []WorkerSound
<1>1. WorkerInv => WorkerSound
  <2> SUFFICES ASSUME WorkerInv PROVE WorkerSound
    OBVIOUS
  <2>1. LateWorkBounded
    <3>1. ASSUME NEW s \in Slots PROVE slot[s].late = 0 \/ slot[s].late = 1
      BY DEF WorkerInv
    <3>2. ASSUME NEW n, n = 0 \/ n = 1 PROVE n <= 1
      BY <3>2
    <3>3. ASSUME NEW s \in Slots PROVE slot[s].late <= 1
      BY <3>1, <3>2
    <3> QED
      BY <3>3 DEF LateWorkBounded
  <2>2. StoppedIsTrue
    BY DEF StoppedIsTrue, WorkerInv, AllQuiet, QuietSlot
  <2>3. ASSUME NEW s \in Slots PROVE slot[s].late \in 0..MaxBegun
    <3>1. slot[s].late \in {0, 1} /\ slot[s].begun \in 0..MaxBegun /\ slot[s].late <= slot[s].begun
      BY DEF WorkerInv, SlotFits
    <3> QED
      BY <3>1, WorkerAssumption
  <2>4. slot \in [Slots -> [state : SlotState, begun : 0..MaxBegun, late : 0..MaxBegun]]
    BY <2>3 DEF WorkerInv
  <2>5. WorkerTypeOK
    BY <2>4 DEF WorkerTypeOK, WorkerInv, SlotState
  <2> QED
    BY <2>1, <2>2, <2>5 DEF WorkerSound
<1> QED
  BY WorkerInvariant, <1>1, PTL

(* last_heartbeat_at never moves back, whatever the wall clock does, and a *)
(* stopped row is not written again (heartbeat_worker, stop_worker).       *)
THEOREM BeatMonotoneHolds == WorkerSpec => BeatMonotone
<1>1. WorkerInv /\ [WorkerNext]_workerVars
       => [/\ workerRow.state = "live" /\ workerRow'.state # "absent" => workerRow'.beat >= workerRow.beat
           /\ workerRow.state = "stopped" => workerRow' = workerRow]_workerVars
  BY WorkerKeeps DEF BeatKept
<1> QED
  BY WorkerInvariant, <1>1, PTL DEF WorkerSpec, BeatMonotone

-----------------------------------------------------------------------------
(* Accounts: secrets, the connections they back, the brokers that refresh  *)
(* them and the consents that open them.                                   *)

Gone == {"revoked", "deleted"}
SecretRow == [status : {"absent", "active", "disabled"} \union Gone, version : {0, ApiKey, WorkerKey}, rotation : Nat, connected : BOOLEAN]
LinkRow == [state : Usable \union {"absent", "disconnected"}, secret : SecretIds \union {0}, expired : BOOLEAN,
            refresh : {"none", "recent", "stale"}, revision : 0..MaxLeases, outcome : {"none", "pending", "not_supported", "succeeded", "failed"}]
\* A broker has created nothing before it has exchanged, and owns nothing after it has finished.
CleanPhase == {"idle", "waiting", "claiming", "leased", "exchanging", "finished", "ready", "resolving", "dispatched"}
Holding == {"leased", "exchanging", "created"}
BrokerRow == [phase : CleanPhase \union Holding \union {"unwinding", "releasing", "refused"}, link : Links \union {0}, revision : Nat,
              old : SecretIds \union {0}, rotation : Nat, created : SecretIds \union {0}]
ConsentRow == [state : {"absent", "pending", "expired", "used"}, verifier : SecretIds \union {0}]
CallbackRow == [phase : {"idle", "exchanging", "stored", "closing", "over", "crashed"}, consent : Consents \union {0}, credential : SecretIds \union {0}]

LinkFits(row, sec) ==
  /\ row.state \in Usable => row.secret \in SecretIds /\ sec[row.secret].status = "active"
  /\ row.refresh # "none" => row.state = "needs_refresh"
  /\ row.secret # 0 => sec[row.secret].status # "absent"
BrokerFits(row, sec, links) ==
  /\ row.phase # "idle" => row.link \in Links
  /\ row.phase \in Holding => \/ links[row.link].state = "disconnected"
                              \/ links[row.link].state = "needs_refresh" /\ links[row.link].revision = row.revision
                                 /\ links[row.link].secret = row.old
  /\ row.phase \in CleanPhase => row.created = 0
  /\ row.created # 0 => sec[row.created].status # "absent"
  /\ row.phase \in {"releasing", "refused"} /\ row.created # 0 => sec[row.created].status \in Gone \/ sec[row.created].connected
ConsentFits(row, sec) ==
  /\ row.state # "absent" => row.verifier \in SecretIds
  /\ row.verifier # 0 => sec[row.verifier].status # "absent"
CallbackFits(row, consents, sec) ==
  /\ row.phase # "idle" => row.consent \in Consents /\ consents[row.consent].state = "used"
  /\ row.phase = "idle" => row.consent = 0
  /\ row.phase = "over" => LET v == consents[row.consent].verifier IN sec[v].status \in Gone \/ sec[v].connected

OneHolds(brokers, links) ==
  \A a, b \in Brokers : brokers[a].phase \in Holding /\ brokers[b].phase \in Holding /\ brokers[a].link = brokers[b].link
                        /\ links[brokers[a].link].state # "disconnected" => a = b
\* What a broker created and a verifier belong to nobody else until they are connected.
CreatedApart(brokers, consents, links, sec) ==
  \A b \in Brokers : brokers[b].created # 0 =>
     /\ \A a \in Brokers : a # b => brokers[a].created # brokers[b].created
     /\ \A o \in Consents : consents[o].verifier # brokers[b].created
     /\ \A l \in Links : links[l].secret = brokers[b].created => sec[brokers[b].created].connected
VerifiersApart(consents, links, sec) ==
  \A o \in Consents, l \in Links : consents[o].verifier # 0 /\ links[l].secret = consents[o].verifier => sec[consents[o].verifier].connected

KeysInv == keys \in [rows : SUBSET {ApiKey, WorkerKey}, active : {ApiKey, WorkerKey}] /\ keys.active \in keys.rows
LinksInv == link \in [Links -> LinkRow] /\ \A l \in Links : LinkFits(link[l], secret)
BrokersInv == broker \in [Brokers -> BrokerRow] /\ (\A b \in Brokers : BrokerFits(broker[b], secret, link)) /\ OneHolds(broker, link)
ConsentsInv ==
  /\ consent \in [Consents -> ConsentRow] /\ \A o \in Consents : ConsentFits(consent[o], secret)
  /\ callback \in [Callbacks -> CallbackRow] /\ \A c \in Callbacks : CallbackFits(callback[c], consent, secret)
  /\ \A c, d \in Callbacks : callback[c].phase # "idle" /\ callback[c].consent = callback[d].consent => c = d
AccountInv ==
  /\ secret \in [SecretIds -> SecretRow] /\ KeysInv /\ LinksInv /\ BrokersInv /\ ConsentsInv
  /\ \A s \in SecretIds : secret[s].connected => secret[s].status # "absent"
  /\ CreatedApart(broker, consent, link, secret) /\ VerifiersApart(consent, link, secret)

\* What DisconnectFinal says of one step.
Disconnection ==
  /\ \A l \in Links : link[l].state = "disconnected" => link'[l].state = "disconnected" /\ link'[l].secret = link[l].secret
  /\ \A b \in Brokers : At(b, "created") /\ broker'[b].phase = "finished" =>
        secret[broker[b].old].rotation = broker[b].rotation /\ Row(b).secret = broker[b].old

LEMMA AccountInitial == AccountInit => AccountInv
<1> SUFFICES ASSUME AccountInit PROVE AccountInv
  OBVIOUS
<1>1. NoSecret \in SecretRow /\ NoLink \in LinkRow /\ IdleBroker \in BrokerRow /\ NoConsent \in ConsentRow /\ IdleCallback \in CallbackRow
  BY AccountAssumption DEF NoSecret, SecretRow, NoLink, LinkRow, IdleBroker, BrokerRow, CleanPhase, NoConsent, ConsentRow, IdleCallback, CallbackRow
<1>2. secret \in [SecretIds -> SecretRow] /\ KeysInv /\ \A s \in SecretIds : secret[s].connected => secret[s].status # "absent"
  BY <1>1 DEF AccountInit, KeysInv, NoSecret
<1>3. LinksInv
  BY <1>1 DEF AccountInit, LinksInv, LinkFits, NoLink, Usable
<1>4. BrokersInv
  BY <1>1 DEF AccountInit, BrokersInv, BrokerFits, OneHolds, IdleBroker, Holding
<1>5. ConsentsInv
  BY <1>1 DEF AccountInit, ConsentsInv, ConsentFits, CallbackFits, NoConsent, IdleCallback
<1>6. CreatedApart(broker, consent, link, secret) /\ VerifiersApart(consent, link, secret)
  BY DEF AccountInit, CreatedApart, VerifiersApart, IdleBroker, NoConsent
<1> QED
  BY <1>2, <1>3, <1>4, <1>5, <1>6 DEF AccountInv

\* Secrets only move on: a row stays, a revocation stays, and what a connection uses stays active.
SecretStep(old, new, links) ==
  /\ new \in [SecretIds -> SecretRow]
  /\ \A s \in SecretIds :
        /\ old[s].status # "absent" => new[s].status # "absent"
        /\ old[s].status \in Gone => new[s].status \in Gone
        /\ old[s].connected => new[s].connected
        /\ new[s].connected => new[s].status # "absent"
        /\ old[s].status = "active" /\ new[s].status # "active" => \A l \in Links : links[l].secret # s

LEMMA SecretKeeps ==
  ASSUME AccountInv, SecretStep(secret, secret', link)
  PROVE  /\ secret' \in [SecretIds -> SecretRow] /\ \A s \in SecretIds : secret'[s].connected => secret'[s].status # "absent"
         /\ \A l \in Links : LinkFits(link[l], secret')
         /\ \A b \in Brokers : BrokerFits(broker[b], secret', link)
         /\ \A o \in Consents : ConsentFits(consent[o], secret')
         /\ \A c \in Callbacks : CallbackFits(callback[c], consent, secret')
         /\ CreatedApart(broker, consent, link, secret') /\ VerifiersApart(consent, link, secret')
<1> DEFINE new == secret'
<1>0. SecretStep(secret, new, link)
  OBVIOUS
<1> HIDE DEF new
<1>1. new \in [SecretIds -> SecretRow] /\ \A s \in SecretIds : new[s].connected => new[s].status # "absent"
  BY <1>0 DEF SecretStep
<1>2. ASSUME NEW l \in Links PROVE LinkFits(link[l], new)
  <2>1. link[l] \in LinkRow /\ LinkFits(link[l], secret)
    BY DEF AccountInv, LinksInv
  <2>2. link[l].secret \in SecretIds \union {0}
    BY <2>1 DEF LinkRow
  <2> QED
    BY <1>0, <2>1, <2>2 DEF LinkFits, SecretStep
<1>3. ASSUME NEW b \in Brokers PROVE BrokerFits(broker[b], new, link)
  <2>1. broker[b] \in BrokerRow /\ BrokerFits(broker[b], secret, link)
    BY DEF AccountInv, BrokersInv
  <2>2. broker[b].created \in SecretIds \union {0}
    BY <2>1 DEF BrokerRow
  <2> QED
    BY <1>0, <2>1, <2>2 DEF BrokerFits, SecretStep
<1>4. ASSUME NEW o \in Consents PROVE ConsentFits(consent[o], new) /\ consent[o].verifier \in SecretIds \union {0}
  <2>1. consent[o] \in ConsentRow /\ ConsentFits(consent[o], secret)
    BY DEF AccountInv, ConsentsInv
  <2>2. consent[o].verifier \in SecretIds \union {0}
    BY <2>1 DEF ConsentRow
  <2> QED
    BY <1>0, <2>1, <2>2 DEF ConsentFits, SecretStep
<1>5. ASSUME NEW c \in Callbacks PROVE CallbackFits(callback[c], consent, new)
  <2>1. CallbackFits(callback[c], consent, secret)
    BY DEF AccountInv, ConsentsInv
  <2>2. callback[c].phase = "over" => consent[callback[c].consent].verifier \in SecretIds
    <3>1. ASSUME callback[c].phase = "over" PROVE consent[callback[c].consent].verifier \in SecretIds
      <4>1. callback[c].consent \in Consents /\ consent[callback[c].consent].state = "used"
        BY <2>1, <3>1 DEF CallbackFits
      <4> QED
        BY <1>4, <4>1 DEF ConsentFits
    <3> QED
      BY <3>1
  <2> QED
    BY <1>0, <2>1, <2>2 DEF CallbackFits, SecretStep
<1>6. \A b \in Brokers : broker[b].created \in SecretIds \union {0}
  <2>1. \A b \in Brokers : broker[b] \in BrokerRow
    BY DEF AccountInv, BrokersInv
  <2> QED
    BY <2>1 DEF BrokerRow
<1>7. CreatedApart(broker, consent, link, new)
  <2>1. CreatedApart(broker, consent, link, secret)
    BY DEF AccountInv
  <2> QED
    BY <1>0, <1>6, <2>1 DEF CreatedApart, SecretStep
<1>8. VerifiersApart(consent, link, new)
  <2>1. VerifiersApart(consent, link, secret)
    BY DEF AccountInv
  <2> QED
    BY <1>0, <1>4, <2>1 DEF VerifiersApart, SecretStep
<1> QED
  BY <1>1, <1>2, <1>3, <1>4, <1>5, <1>7, <1>8 DEF new

\* A step of one broker, or of the store, that leaves the connections alone.
LEMMA BrokerStep ==
  ASSUME AccountInv, SecretStep(secret, secret', link), UNCHANGED <<keys, link, consent, callback>>,
         NEW b \in Brokers, NEW row \in BrokerRow, broker' = [broker EXCEPT ![b] = row], BrokerFits(row, secret', link),
         row.phase \in Holding => broker[b].phase \in Holding /\ row.link = broker[b].link,
         row.created \in {0, broker[b].created}
         \/ (row.created \in SecretIds /\ secret[row.created].status = "absent"),
         ~(broker[b].phase = "created" /\ row.phase = "finished")
  PROVE  AccountInv' /\ Disconnection
<1>1. /\ secret' \in [SecretIds -> SecretRow] /\ \A s \in SecretIds : secret'[s].connected => secret'[s].status # "absent"
      /\ \A l \in Links : LinkFits(link[l], secret')
      /\ \A a \in Brokers : BrokerFits(broker[a], secret', link)
      /\ \A o \in Consents : ConsentFits(consent[o], secret')
      /\ \A c \in Callbacks : CallbackFits(callback[c], consent, secret')
      /\ CreatedApart(broker, consent, link, secret') /\ VerifiersApart(consent, link, secret')
  BY SecretKeeps
<1>2. broker \in [Brokers -> BrokerRow] /\ OneHolds(broker, link)
  BY DEF AccountInv, BrokersInv
<1>3. row.created \in {0, broker[b].created}
      \/ /\ \A a \in Brokers : broker[a].created # row.created
         /\ \A o \in Consents : consent[o].verifier # row.created
         /\ \A l \in Links : link[l].secret # row.created
  <2>1. SUFFICES ASSUME row.created \in SecretIds, secret[row.created].status = "absent", row.created # 0
                 PROVE  /\ \A a \in Brokers : broker[a].created # row.created
                        /\ \A o \in Consents : consent[o].verifier # row.created
                        /\ \A l \in Links : link[l].secret # row.created
    OBVIOUS
  <2>2. (\A a \in Brokers : BrokerFits(broker[a], secret, link)) /\ (\A o \in Consents : ConsentFits(consent[o], secret))
        /\ (\A l \in Links : LinkFits(link[l], secret))
    BY DEF AccountInv, BrokersInv, ConsentsInv, LinksInv
  <2> QED
    BY <2>1, <2>2 DEF BrokerFits, ConsentFits, LinkFits
<1> DEFINE next == broker'
           sec == secret'
<1>4. next = [broker EXCEPT ![b] = row] /\ BrokerFits(row, sec, link) /\ CreatedApart(broker, consent, link, sec)
      /\ \A a \in Brokers : BrokerFits(broker[a], sec, link)
  BY <1>1
<1> HIDE DEF next, sec
<1>5. /\ next \in [Brokers -> BrokerRow] /\ \A a \in Brokers : BrokerFits(next[a], sec, link)
      /\ OneHolds(next, link) /\ CreatedApart(next, consent, link, sec)
  <2>1. next \in [Brokers -> BrokerRow] /\ next[b] = row /\ \A a \in Brokers : a # b => next[a] = broker[a]
    BY <1>2, <1>4
  <2>2. \A a \in Brokers : BrokerFits(next[a], sec, link)
    BY <1>4, <2>1
  <2>3. OneHolds(next, link)
    BY <1>2, <2>1 DEF OneHolds
  <2>4. CreatedApart(next, consent, link, sec)
    BY <1>3, <1>4, <2>1 DEF CreatedApart
  <2> QED
    BY <2>1, <2>2, <2>3, <2>4
<1> USE DEF next, sec
<1>6. AccountInv'
  BY <1>1, <1>5 DEF AccountInv, KeysInv, LinksInv, BrokersInv, ConsentsInv
<1>7. Disconnection
  BY <1>2 DEF Disconnection, At
<1> QED
  BY <1>6, <1>7

LEMMA StoreStep ==
  ASSUME AccountInv, SecretStep(secret, secret', link), KeysInv', UNCHANGED <<link, broker, consent, callback>>
  PROVE  AccountInv' /\ Disconnection
<1>1. /\ secret' \in [SecretIds -> SecretRow] /\ \A s \in SecretIds : secret'[s].connected => secret'[s].status # "absent"
      /\ \A l \in Links : LinkFits(link[l], secret')
      /\ \A a \in Brokers : BrokerFits(broker[a], secret', link)
      /\ \A o \in Consents : ConsentFits(consent[o], secret')
      /\ \A c \in Callbacks : CallbackFits(callback[c], consent, secret')
      /\ CreatedApart(broker, consent, link, secret') /\ VerifiersApart(consent, link, secret')
  BY SecretKeeps
<1>2. AccountInv'
  BY <1>1 DEF AccountInv, LinksInv, BrokersInv, ConsentsInv
<1> QED
  BY <1>2 DEF Disconnection, At

\* Who may set which status.
LEMMA StatusMoves ==
  ASSUME AccountInv, NEW s \in SecretIds, NEW status \in {"active", "disabled", "revoked"}, MaySetStatus(s, status)
  PROVE  SecretStep(secret, WithStatus(s, status), link) /\ WithStatus(s, status)[s].status = status
<1> DEFINE row == [secret[s] EXCEPT !.status = status]
           next == WithStatus(s, status)
<1>1. secret \in [SecretIds -> SecretRow] /\ secret[s] \in SecretRow
  BY DEF AccountInv
<1>2. row \in SecretRow /\ row.status = status /\ row.connected = secret[s].connected
  BY <1>1 DEF SecretRow, Gone
<1>3. next = [secret EXCEPT ![s] = row]
  BY DEF WithStatus
<1> HIDE DEF row, next
<1>4. next \in [SecretIds -> SecretRow] /\ next[s] = row /\ \A r \in SecretIds : r # s => next[r] = secret[r]
  BY <1>1, <1>2, <1>3
<1>5. SecretStep(secret, next, link)
  BY <1>2, <1>4 DEF SecretStep, MaySetStatus, SecretReferenced, Gone, AccountInv
<1> QED
  BY <1>2, <1>4, <1>5 DEF next

LEMMA SecretCreated ==
  ASSUME AccountInv, NEW version \in {ApiKey, WorkerKey}, CreateSecret(version)
  PROVE  /\ SecretStep(secret, secret', link) /\ NextSecret \in SecretIds /\ NextSecret # 0
         /\ secret[NextSecret].status = "absent" /\ secret'[NextSecret].status = "active"
<1>1. Unstored \subseteq Nat /\ Unstored # {}
  BY AccountAssumption DEF Unstored, CreateSecret
<1>2. NextSecret \in Unstored
  BY <1>1, LeastExists DEF NextSecret, Min
<1> DEFINE s == NextSecret
<1>3. s \in SecretIds /\ s # 0 /\ secret[s].status = "absent"
  BY <1>2, AccountAssumption DEF Unstored
<1>4. secret' = [secret EXCEPT ![s] = Stored(version)]
  BY DEF CreateSecret
<1>5. Stored(version) \in SecretRow /\ Stored(version).status = "active" /\ secret \in [SecretIds -> SecretRow]
  BY DEF Stored, SecretRow, AccountInv
<1>6. ~secret[s].connected
  BY <1>3 DEF AccountInv
<1> HIDE DEF s
<1>7. secret' \in [SecretIds -> SecretRow] /\ secret'[s] = Stored(version) /\ \A r \in SecretIds : r # s => secret'[r] = secret[r]
  BY <1>3, <1>4, <1>5
<1>8. SecretStep(secret, secret', link)
  BY <1>3, <1>5, <1>6, <1>7 DEF SecretStep, Gone, AccountInv
<1> QED
  BY <1>3, <1>5, <1>7, <1>8 DEF s

\* What no secret yet has is nobody's.
LEMMA NewIsNobodys ==
  ASSUME AccountInv, NEW s \in SecretIds, secret[s].status = "absent"
  PROVE  /\ \A b \in Brokers : broker[b].created # s
         /\ \A o \in Consents : consent[o].verifier # s
         /\ \A l \in Links : link[l].secret # s
<1>1. s # 0
  BY AccountAssumption
<1>2. (\A a \in Brokers : BrokerFits(broker[a], secret, link)) /\ (\A o \in Consents : ConsentFits(consent[o], secret))
      /\ (\A l \in Links : LinkFits(link[l], secret))
  BY DEF AccountInv, BrokersInv, ConsentsInv, LinksInv
<1> QED
  BY <1>1, <1>2 DEF BrokerFits, ConsentFits, LinkFits

\* One connection changes and keeps its secret; who holds its refresh notices nothing but a disconnection.
LEMMA LinkStep ==
  ASSUME AccountInv, UNCHANGED <<secret, keys, consent, callback>>, broker' \in [Brokers -> BrokerRow],
         NEW l \in Links, NEW row \in LinkRow, link' = [link EXCEPT ![l] = row], LinkFits(row, secret), row.secret = link[l].secret,
         \/ row.state = "disconnected"
         \/ row.state = link[l].state /\ row.revision = link[l].revision,
         link[l].state = "disconnected" => row.state = "disconnected",
         \A a \in Brokers : \/ broker'[a] = broker[a]
                            \/ broker'[a].phase = "refused" /\ broker[a].phase = "releasing" /\ broker'[a].link = broker[a].link
                               /\ broker'[a].created = broker[a].created
  PROVE  AccountInv' /\ Disconnection
<1>1. /\ link \in [Links -> LinkRow] /\ broker \in [Brokers -> BrokerRow] /\ OneHolds(broker, link)
      /\ (\A m \in Links : LinkFits(link[m], secret)) /\ (\A b \in Brokers : BrokerFits(broker[b], secret, link))
      /\ CreatedApart(broker, consent, link, secret) /\ VerifiersApart(consent, link, secret)
  BY DEF AccountInv, LinksInv, BrokersInv
<1>2. link' \in [Links -> LinkRow] /\ link'[l] = row /\ \A m \in Links : m # l => link'[m] = link[m]
  BY <1>1
<1>3. \A m \in Links : link'[m].secret = link[m].secret
                       /\ (link'[m].state = "disconnected" \/ (link'[m].state = link[m].state /\ link'[m].revision = link[m].revision))
  BY <1>2
<1>4. \A m \in Links : LinkFits(link'[m], secret)
  BY <1>1, <1>2
<1> DEFINE next == link'
           brokers == broker'
<1>5. /\ \A m \in Links : next[m].secret = link[m].secret
                          /\ (next[m].state = "disconnected" \/ (next[m].state = link[m].state /\ next[m].revision = link[m].revision))
      /\ \A a \in Brokers : \/ brokers[a] = broker[a]
                            \/ brokers[a].phase = "refused" /\ broker[a].phase = "releasing" /\ brokers[a].link = broker[a].link
                                /\ brokers[a].created = broker[a].created
  <2>1. \A m \in Links : next[m].secret = link[m].secret
                          /\ (next[m].state = "disconnected" \/ (next[m].state = link[m].state /\ next[m].revision = link[m].revision))
    BY <1>3
  <2>2. \A a \in Brokers : \/ brokers[a] = broker[a]
                           \/ brokers[a].phase = "refused" /\ broker[a].phase = "releasing" /\ brokers[a].link = broker[a].link
                                /\ brokers[a].created = broker[a].created
    OBVIOUS
  <2> QED
    BY <2>1, <2>2
<1> HIDE DEF next, brokers
<1>6. ASSUME NEW a \in Brokers PROVE BrokerFits(brokers[a], secret, next)
  <2>1. broker[a] \in BrokerRow /\ BrokerFits(broker[a], secret, link)
    BY <1>1
  <2> QED
    BY <2>1, <1>5 DEF BrokerFits, Holding, CleanPhase
<1>7. OneHolds(brokers, next)
  <2>1. SUFFICES ASSUME NEW a \in Brokers, NEW b \in Brokers, brokers[a].phase \in Holding, brokers[b].phase \in Holding,
                        brokers[a].link = brokers[b].link, next[brokers[a].link].state # "disconnected"
                 PROVE  a = b
    BY DEF OneHolds
  <2>2. brokers[a] = broker[a] /\ brokers[b] = broker[b]
    BY <1>5, <2>1 DEF Holding
  <2>3. broker[a].link \in Links
    <3>1. BrokerFits(broker[a], secret, link) /\ broker[a].phase \in Holding
      BY <1>1, <2>1, <2>2
    <3> QED
      BY <3>1 DEF BrokerFits, Holding
  <2>4. link[broker[a].link].state # "disconnected"
    <3>1. next[broker[a].link].state = link[broker[a].link].state
      BY <1>5, <2>1, <2>2, <2>3
    <3> QED
      BY <3>1, <2>1, <2>2
  <2> QED
    BY <1>1, <2>1, <2>2, <2>4 DEF OneHolds
<1>8. CreatedApart(brokers, consent, next, secret) /\ VerifiersApart(consent, next, secret)
  <2>1. \A a \in Brokers : brokers[a].created = broker[a].created
    BY <1>5
  <2> QED
    BY <1>1, <1>5, <2>1 DEF CreatedApart, VerifiersApart
<1> USE DEF next, brokers
<1>9. AccountInv'
  BY <1>2, <1>4, <1>6, <1>7, <1>8, ZenonT(30) DEF AccountInv, KeysInv, LinksInv, BrokersInv, ConsentsInv
<1>10. Disconnection
  <2>1. \A m \in Links : link[m].state = "disconnected" => link'[m].state = "disconnected" /\ link'[m].secret = link[m].secret
    BY <1>2, <1>3
  <2> QED
    BY <2>1 DEF Disconnection, At
<1> QED
  BY <1>9, <1>10

\* The owner and the clock change a connection.
LEMMA OwnerKeeps ==
  ASSUME AccountInv, NEW l \in Links,
         \/ Disconnect(l) \/ Expire(l) \/ AgeRefresh(l)
         \/ \E outcome \in {"pending", "not_supported", "succeeded", "failed"} : RecordRevocation(l, outcome)
  PROVE  AccountInv' /\ Disconnection
<1>1. link \in [Links -> LinkRow] /\ link[l] \in LinkRow /\ LinkFits(link[l], secret) /\ broker \in [Brokers -> BrokerRow]
  BY DEF AccountInv, LinksInv, BrokersInv
<1>2. ASSUME NEW row \in LinkRow, link' = [link EXCEPT ![l] = row], LinkFits(row, secret), row.secret = link[l].secret,
             row.state = "disconnected" \/ (row.state = link[l].state /\ row.revision = link[l].revision),
             link[l].state = "disconnected" => row.state = "disconnected", UNCHANGED <<secret, keys, broker, consent, callback>>
      PROVE  AccountInv' /\ Disconnection
  BY <1>1, <1>2, LinkStep
<1>3. CASE Disconnect(l)
  <2> DEFINE row == [link[l] EXCEPT !.state = "disconnected", !.revision = link[l].revision + 1, !.refresh = "none"]
  <2>1. link[l].revision + 1 \in 0..MaxLeases /\ link[l].state # "absent"
    BY <1>1, <1>3, AccountAssumption DEF Disconnect, LinkRow
  <2>2. row \in LinkRow
    BY <1>1, <2>1 DEF LinkRow
  <2>3. row.state = "disconnected" /\ row.refresh = "none" /\ row.secret = link[l].secret
    BY <1>1 DEF LinkRow
  <2>4. link' = [link EXCEPT ![l] = row] /\ UNCHANGED <<secret, keys, broker, consent, callback>>
    BY <1>3 DEF Disconnect
  <2> HIDE DEF row
  <2>5. LinkFits(row, secret)
    BY <1>1, <2>3 DEF LinkFits, Usable
  <2> QED
    BY <1>2, <2>2, <2>3, <2>4, <2>5
<1>4. CASE Expire(l)
  <2> DEFINE row == [link[l] EXCEPT !.expired = TRUE]
  <2>1. row \in LinkRow /\ row.state = link[l].state /\ row.refresh = link[l].refresh /\ row.secret = link[l].secret /\ row.revision = link[l].revision
    BY <1>1 DEF LinkRow
  <2>2. link' = [link EXCEPT ![l] = row] /\ UNCHANGED <<secret, keys, broker, consent, callback>>
    BY <1>4 DEF Expire
  <2> HIDE DEF row
  <2>3. LinkFits(row, secret)
    BY <1>1, <2>1 DEF LinkFits
  <2> QED
    BY <1>2, <2>1, <2>2, <2>3
<1>5. CASE AgeRefresh(l)
  <2> DEFINE row == [link[l] EXCEPT !.refresh = "stale"]
  <2>1. row \in LinkRow /\ row.state = link[l].state /\ row.secret = link[l].secret /\ row.revision = link[l].revision
    BY <1>1 DEF LinkRow
  <2>2. link' = [link EXCEPT ![l] = row] /\ link[l].refresh = "recent" /\ UNCHANGED <<secret, keys, broker, consent, callback>>
    BY <1>5 DEF AgeRefresh
  <2> HIDE DEF row
  <2>3. LinkFits(row, secret)
    BY <1>1, <2>1, <2>2 DEF LinkFits
  <2> QED
    BY <1>2, <2>1, <2>2, <2>3
<1>6. ASSUME NEW outcome \in {"pending", "not_supported", "succeeded", "failed"}, RecordRevocation(l, outcome) PROVE AccountInv' /\ Disconnection
  <2> DEFINE row == [link[l] EXCEPT !.outcome = outcome]
  <2>1. row \in LinkRow /\ row.state = link[l].state /\ row.refresh = link[l].refresh /\ row.secret = link[l].secret /\ row.revision = link[l].revision
    BY <1>1 DEF LinkRow
  <2>2. link' = [link EXCEPT ![l] = row] /\ UNCHANGED <<secret, keys, broker, consent, callback>>
    BY <1>6 DEF RecordRevocation
  <2> HIDE DEF row
  <2>3. LinkFits(row, secret)
    BY <1>1, <2>1 DEF LinkFits
  <2> QED
    BY <1>2, <2>1, <2>2, <2>3
<1> QED
  BY <1>3, <1>4, <1>5, <1>6

LEMMA FailRefreshKeeps == ASSUME AccountInv, NEW b \in Brokers, FailRefresh(b) PROVE AccountInv' /\ Disconnection
<1> DEFINE l == broker[b].link
           row == IF link[l].state = "needs_refresh" /\ link[l].revision = broker[b].revision THEN [link[l] EXCEPT !.refresh = "none"] ELSE link[l]
           moved == [broker[b] EXCEPT !.phase = "refused"]
<1>1. link \in [Links -> LinkRow] /\ broker \in [Brokers -> BrokerRow] /\ broker[b] \in BrokerRow /\ broker[b].phase = "releasing"
      /\ BrokerFits(broker[b], secret, link)
  BY DEF AccountInv, LinksInv, BrokersInv, FailRefresh, At
<1>2. l \in Links
  BY <1>1 DEF BrokerFits
<1>3. link[l] \in LinkRow /\ LinkFits(link[l], secret)
  BY <1>1, <1>2 DEF AccountInv, LinksInv
<1>4. row \in LinkRow /\ row.state = link[l].state /\ row.secret = link[l].secret /\ row.revision = link[l].revision
      /\ row.refresh \in {"none", link[l].refresh}
  BY <1>3 DEF LinkRow
<1>5. moved \in BrokerRow /\ moved.phase = "refused" /\ moved.link = broker[b].link /\ moved.created = broker[b].created
  BY <1>1 DEF BrokerRow
<1>6. link' = [link EXCEPT ![l] = row] /\ UNCHANGED <<secret, keys, consent, callback>>
  BY <1>1, <1>2, <1>3 DEF FailRefresh, Row, KeepStore, LinkRow
<1>7. broker' = [broker EXCEPT ![b] = moved]
  BY DEF FailRefresh, To
<1> HIDE DEF l, row, moved
<1>8. LinkFits(row, secret)
  BY <1>3, <1>4 DEF LinkFits
<1>9. broker' \in [Brokers -> BrokerRow] /\ broker'[b] = moved /\ \A a \in Brokers : a # b => broker'[a] = broker[a]
  BY <1>1, <1>5, <1>7
<1>10. \A a \in Brokers : \/ broker'[a] = broker[a]
                          \/ broker'[a].phase = "refused" /\ broker[a].phase = "releasing" /\ broker'[a].link = broker[a].link
                            /\ broker'[a].created = broker[a].created
  BY <1>1, <1>5, <1>9
<1> QED
  BY <1>2, <1>4, <1>6, <1>8, <1>9, <1>10, LinkStep

\* A broker changes its phase and nothing else.
LEMMA PhaseStep ==
  ASSUME AccountInv, NEW b \in Brokers, NEW phase, phase \in CleanPhase \union {"unwinding", "releasing", "refused"}, phase # "idle",
         broker[b].phase # "idle", phase \in Holding => broker[b].phase \in Holding,
         broker[b].phase \in CleanPhase \/ broker[b].created = 0 \/ phase = "unwinding", broker[b].phase # "created" \/ phase # "finished",
         To(b, phase), UNCHANGED <<secret, keys, link, consent, callback>>
  PROVE  AccountInv' /\ Disconnection
<1> DEFINE row == [broker[b] EXCEPT !.phase = phase]
<1>1. broker \in [Brokers -> BrokerRow] /\ broker[b] \in BrokerRow /\ BrokerFits(broker[b], secret, link) /\ secret \in [SecretIds -> SecretRow]
      /\ \A s \in SecretIds : secret[s].connected => secret[s].status # "absent"
  BY DEF AccountInv, BrokersInv
<1>2. row \in BrokerRow /\ row.phase = phase /\ row.link = broker[b].link /\ row.created = broker[b].created /\ row.revision = broker[b].revision
      /\ row.old = broker[b].old
  BY <1>1 DEF BrokerRow
<1>3. broker' = [broker EXCEPT ![b] = row]
  BY DEF To
<1> HIDE DEF row
<1>4. BrokerFits(row, secret, link)
  BY <1>1, <1>2 DEF BrokerFits, CleanPhase, Holding
<1>5. SecretStep(secret, secret', link) /\ BrokerFits(row, secret', link)
  BY <1>1, <1>4 DEF SecretStep
<1>6. row.phase \in Holding => broker[b].phase \in Holding /\ row.link = broker[b].link
  BY <1>2
<1>7. row.created \in {0, broker[b].created} \/ (row.created \in SecretIds /\ secret[row.created].status = "absent")
  BY <1>2
<1>8. ~(broker[b].phase = "created" /\ row.phase = "finished")
  BY <1>2
<1> QED
  BY <1>2, <1>3, <1>5, <1>6, <1>7, <1>8, BrokerStep

\* A broker's memory is filled or emptied.
LEMMA MemoryStep ==
  ASSUME AccountInv, NEW b \in Brokers, NEW row \in BrokerRow, broker' = [broker EXCEPT ![b] = row], BrokerFits(row, secret, link),
         row.created \in {0, broker[b].created}, row.phase \in Holding => broker[b].phase \in Holding /\ row.link = broker[b].link,
         row.phase # "finished", UNCHANGED <<secret, keys, link, consent, callback>>
  PROVE  AccountInv' /\ Disconnection
<1>1. SecretStep(secret, secret', link) /\ BrokerFits(row, secret', link)
  BY DEF SecretStep, AccountInv
<1>2. row.created \in {0, broker[b].created} \/ (row.created \in SecretIds /\ secret[row.created].status = "absent")
  OBVIOUS
<1> QED
  BY <1>1, <1>2, BrokerStep

LEMMA LookingKeeps ==
  ASSUME AccountInv, NEW b \in Brokers,
         \/ \E l \in Links : BeginDispatch(b, l)
         \/ Look(b) \/ ExchangeFails(b) \/ ResolveAndExecute(b) \/ WaitTimesOut(b) \/ EndDispatch(b) \/ CrashWorker(b) \/ Recheck(b) \/ BeginExchange(b)
  PROVE  AccountInv' /\ Disconnection
<1>1. broker[b] \in BrokerRow /\ BrokerFits(broker[b], secret, link) /\ broker \in [Brokers -> BrokerRow] /\ link \in [Links -> LinkRow]
      /\ secret \in [SecretIds -> SecretRow]
  BY DEF AccountInv, BrokersInv, LinksInv
<1>2. ASSUME NEW phase, phase \in {"refused", "claiming", "ready", "dispatched", "unwinding"}, To(b, phase), UNCHANGED link, KeepStore,
             broker[b].phase \in CleanPhase \ {"idle"} \/ (phase = "unwinding" /\ broker[b].phase # "idle")
      PROVE  AccountInv' /\ Disconnection
  <2>1. phase \in CleanPhase \union {"unwinding", "releasing", "refused"} /\ phase # "idle" /\ phase # "finished" /\ phase \notin Holding
    BY <1>2 DEF CleanPhase, Holding
  <2> QED
    BY <1>2, <2>1, PhaseStep DEF KeepStore
<1>3. ASSUME Idle(b), UNCHANGED link, KeepStore PROVE AccountInv' /\ Disconnection
  <2>1. IdleBroker \in BrokerRow /\ BrokerFits(IdleBroker, secret, link) /\ IdleBroker.created = 0 /\ IdleBroker.phase \notin Holding
        /\ IdleBroker.phase # "finished"
    BY DEF IdleBroker, BrokerRow, BrokerFits, CleanPhase, Holding
  <2>2. broker' = [broker EXCEPT ![b] = IdleBroker] /\ UNCHANGED <<secret, keys, link, consent, callback>>
    BY <1>3 DEF Idle, KeepStore
  <2> QED
    BY <2>1, <2>2, MemoryStep
<1>4. ASSUME NEW l \in Links, BeginDispatch(b, l) PROVE AccountInv' /\ Disconnection
  <2> DEFINE row == [IdleBroker EXCEPT !.phase = "waiting", !.link = l]
  <2>1. row \in BrokerRow /\ BrokerFits(row, secret, link) /\ row.created = 0 /\ row.phase \notin Holding /\ row.phase # "finished"
    BY DEF IdleBroker, BrokerRow, BrokerFits, CleanPhase, Holding
  <2>2. broker' = [broker EXCEPT ![b] = row] /\ UNCHANGED <<secret, keys, link, consent, callback>>
    BY <1>4 DEF BeginDispatch, KeepStore
  <2> HIDE DEF row
  <2> QED
    BY <2>1, <2>2, MemoryStep
<1>5. CASE Look(b)
  <2>1. UNCHANGED link /\ KeepStore /\ broker[b].phase \in CleanPhase \ {"idle"}
    BY <1>5 DEF Look, At, CleanPhase
  <2>2. CASE UNCHANGED broker
    <3>1. [broker EXCEPT ![b] = broker[b]] = broker /\ broker[b].phase = "waiting"
      BY <1>1, <1>5 DEF Look, At
    <3>2. broker' = [broker EXCEPT ![b] = broker[b]] /\ UNCHANGED <<secret, keys, link, consent, callback>>
      BY <2>1, <2>2, <3>1 DEF KeepStore
    <3> QED
      BY <1>1, <3>1, <3>2, MemoryStep
  <2>3. CASE \E phase \in {"refused", "claiming", "ready"} : To(b, phase)
    BY <1>2, <2>1, <2>3
  <2> QED
    BY <1>5, <2>2, <2>3 DEF Look
<1>6. CASE ExchangeFails(b)
  <2>1. broker[b].phase # "idle" /\ To(b, "unwinding") /\ UNCHANGED link /\ KeepStore
    BY <1>6 DEF ExchangeFails, At
  <2> QED
    BY <1>2, <2>1
<1>7. CASE ResolveAndExecute(b)
  <2>1. broker[b].phase \in CleanPhase \ {"idle"} /\ (\E phase \in {"refused", "dispatched"} : To(b, phase)) /\ UNCHANGED link /\ KeepStore
    BY <1>7 DEF ResolveAndExecute, At, CleanPhase
  <2> QED
    BY <1>2, <2>1
<1>8. CASE WaitTimesOut(b)
  <2>1. broker[b].phase \in CleanPhase \ {"idle"} /\ To(b, "refused") /\ UNCHANGED link /\ KeepStore
    BY <1>8 DEF WaitTimesOut, At, CleanPhase
  <2> QED
    BY <1>2, <2>1
<1>9. CASE EndDispatch(b) \/ CrashWorker(b)
  BY <1>3, <1>9 DEF EndDispatch, CrashWorker
<1>10. CASE Recheck(b)
  <2>1. UNCHANGED link /\ KeepStore /\ broker[b].phase \in CleanPhase \ {"idle"}
    BY <1>10 DEF Recheck, At, CleanPhase
  <2>2. CASE To(b, "refused")
    BY <1>2, <2>1, <2>2
  <2>3. CASE broker' = [broker EXCEPT ![b] = [broker[b] EXCEPT !.phase = "resolving", !.old = link[broker[b].link].secret]]
    <3> DEFINE row == [broker[b] EXCEPT !.phase = "resolving", !.old = link[broker[b].link].secret]
    <3>1. broker[b].link \in Links /\ broker[b].created = 0
      BY <1>1, <2>1 DEF BrokerFits
    <3>2. link[broker[b].link].secret \in SecretIds \union {0}
      BY <1>1, <3>1 DEF LinkRow
    <3>3. row \in BrokerRow /\ row.phase = "resolving" /\ row.link = broker[b].link /\ row.created = 0
      BY <1>1, <3>1, <3>2 DEF BrokerRow, CleanPhase
    <3>4. broker' = [broker EXCEPT ![b] = row] /\ UNCHANGED <<secret, keys, link, consent, callback>>
      BY <2>1, <2>3 DEF KeepStore
    <3> HIDE DEF row
    <3>5. BrokerFits(row, secret, link) /\ row.phase \notin Holding /\ row.phase # "finished"
      BY <3>1, <3>3 DEF BrokerFits, Holding
    <3> QED
      BY <3>3, <3>4, <3>5, MemoryStep
  <2> QED
    BY <1>1, <1>10, <2>2, <2>3 DEF Recheck, Row
<1>11. CASE BeginExchange(b)
  <2>1. UNCHANGED link /\ KeepStore /\ broker[b].phase = "leased"
    BY <1>11 DEF BeginExchange, At
  <2>2. CASE To(b, "unwinding")
    BY <1>2, <2>1, <2>2
  <2>3. CASE IsActive(broker[b].old) /\ broker' = [broker EXCEPT ![b].phase = "exchanging", ![b].rotation = secret[broker[b].old].rotation]
    <3> DEFINE row == [broker[b] EXCEPT !.phase = "exchanging", !.rotation = secret[broker[b].old].rotation]
    <3>1. broker[b].old \in SecretIds
      BY <2>3 DEF IsActive
    <3>2. secret[broker[b].old].rotation \in Nat
      BY <1>1, <3>1 DEF SecretRow
    <3>3. row \in BrokerRow /\ row.phase = "exchanging" /\ row.link = broker[b].link /\ row.created = broker[b].created
          /\ row.revision = broker[b].revision /\ row.old = broker[b].old
      BY <1>1, <3>2 DEF BrokerRow, CleanPhase
    <3>4. broker' = [broker EXCEPT ![b] = row] /\ UNCHANGED <<secret, keys, link, consent, callback>>
      BY <2>1, <2>3 DEF KeepStore
    <3> HIDE DEF row
    <3>5. BrokerFits(row, secret, link) /\ broker[b].phase \in Holding /\ row.phase # "finished"
      BY <1>1, <2>1, <3>3 DEF BrokerFits, Holding, CleanPhase
    <3> QED
      BY <3>3, <3>4, <3>5, MemoryStep
  <2> QED
    BY <1>11, <2>2, <2>3 DEF BeginExchange
<1> QED
  BY <1>4, <1>5, <1>6, <1>7, <1>8, <1>9, <1>10, <1>11

LEMMA CreateRefreshedKeeps == ASSUME AccountInv, NEW b \in Brokers, CreateRefreshed(b) PROVE AccountInv' /\ Disconnection
<1> DEFINE row == [broker[b] EXCEPT !.phase = "created", !.created = NextSecret]
<1>1. broker[b] \in BrokerRow /\ BrokerFits(broker[b], secret, link) /\ broker[b].phase = "exchanging"
  BY DEF AccountInv, BrokersInv, CreateRefreshed, At
<1>2. /\ SecretStep(secret, secret', link) /\ NextSecret \in SecretIds /\ NextSecret # 0
      /\ secret[NextSecret].status = "absent" /\ secret'[NextSecret].status = "active"
  BY SecretCreated DEF CreateRefreshed
<1>3. row \in BrokerRow /\ row.phase = "created" /\ row.link = broker[b].link /\ row.created = NextSecret
      /\ row.revision = broker[b].revision /\ row.old = broker[b].old
  BY <1>1, <1>2 DEF BrokerRow, Holding
<1>4. broker' = [broker EXCEPT ![b] = row] /\ UNCHANGED <<keys, link, consent, callback>>
  BY DEF CreateRefreshed
<1> HIDE DEF row
<1>5. BrokerFits(row, secret', link) /\ row.phase # "finished" /\ broker[b].phase \in Holding
  BY <1>1, <1>2, <1>3 DEF BrokerFits, Holding, CleanPhase
<1> QED
  BY <1>2, <1>3, <1>4, <1>5, BrokerStep

LEMMA RevokeOldKeeps == ASSUME AccountInv, NEW b \in Brokers, RevokeOld(b) PROVE AccountInv' /\ Disconnection
<1> DEFINE old == broker[b].old
<1>1. broker[b] \in BrokerRow /\ BrokerFits(broker[b], secret, link) /\ broker[b].phase = "finished"
  BY DEF AccountInv, BrokersInv, RevokeOld, At
<1>2. SecretStep(secret, secret', link)
  <2>1. CASE MaySetStatus(old, "revoked") /\ old \in SecretIds
    BY <2>1, StatusMoves DEF RevokeOld
  <2>2. CASE old \notin SecretIds
    <3>1. WithStatus(old, "revoked") = secret
      BY <2>2 DEF WithStatus, AccountInv
    <3> QED
      BY <3>1 DEF RevokeOld, SecretStep, AccountInv
  <2>3. CASE ~MaySetStatus(old, "revoked")
    BY <2>3 DEF RevokeOld, SecretStep, AccountInv
  <2> QED
    BY <2>1, <2>2, <2>3
<1>3. ASSUME NEW phase \in {"ready", "refused"}, To(b, phase) PROVE AccountInv' /\ Disconnection
  <2> DEFINE row == [broker[b] EXCEPT !.phase = phase]
  <2>1. row \in BrokerRow /\ row.phase = phase /\ row.link = broker[b].link /\ row.created = broker[b].created
    BY <1>1 DEF BrokerRow, CleanPhase
  <2>2. broker' = [broker EXCEPT ![b] = row] /\ UNCHANGED <<keys, link, consent, callback>>
    BY <1>3 DEF RevokeOld, To
  <2> HIDE DEF row
  <2>3. BrokerFits(row, secret', link) /\ row.phase # "finished" /\ row.phase \notin Holding
    BY <1>1, <2>1 DEF BrokerFits, Holding, CleanPhase
  <2> QED
    BY <1>2, <2>1, <2>2, <2>3, BrokerStep
<1>4. \E phase \in {"ready", "refused"} : To(b, phase)
  BY DEF RevokeOld
<1> QED
  BY <1>3, <1>4

LEMMA UnwindKeeps == ASSUME AccountInv, NEW b \in Brokers, Unwind(b) PROVE AccountInv' /\ Disconnection
<1> DEFINE new == broker[b].created
<1>1. broker[b] \in BrokerRow /\ BrokerFits(broker[b], secret, link) /\ broker[b].phase = "unwinding" /\ CreatedApart(broker, consent, link, secret)
  BY DEF AccountInv, BrokersInv, Unwind, At
<1>2. new \in SecretIds \union {0} /\ secret \in [SecretIds -> SecretRow]
  BY <1>1 DEF BrokerRow, AccountInv
<1>3. SecretStep(secret, secret, link)
  BY DEF SecretStep, AccountInv
<1>4. ASSUME NEW phase \in {"releasing", "refused"}, To(b, phase), SecretStep(secret, secret', link),
             new # 0 => secret'[new].status \in Gone \/ secret'[new].connected, UNCHANGED <<keys, link, consent, callback>>
      PROVE  AccountInv' /\ Disconnection
  <2> DEFINE row == [broker[b] EXCEPT !.phase = phase]
  <2>1. row \in BrokerRow /\ row.phase = phase /\ row.link = broker[b].link /\ row.created = broker[b].created
    BY <1>1 DEF BrokerRow
  <2>2. broker' = [broker EXCEPT ![b] = row]
    BY <1>4 DEF To
  <2> HIDE DEF row
  <2>3. new # 0 => secret'[new].status # "absent"
    BY <1>1, <1>2, <1>4 DEF BrokerFits, SecretStep
  <2>4. BrokerFits(row, secret', link) /\ row.phase # "finished" /\ row.phase \notin Holding
    BY <1>1, <1>4, <2>1, <2>3 DEF BrokerFits, Holding, CleanPhase
  <2> QED
    BY <1>4, <2>1, <2>2, <2>4, BrokerStep
<1>5. CASE NothingCreated(b) /\ To(b, "releasing") /\ UNCHANGED secret
  BY <1>3, <1>4, <1>5 DEF NothingCreated, Unwind
<1>6. CASE ~NothingCreated(b) /\ MaySetStatus(new, "revoked") /\ secret' = WithStatus(new, "revoked") /\ To(b, "releasing")
  <2>1. new \in SecretIds
    BY <1>2, <1>6 DEF NothingCreated
  <2>2. SecretStep(secret, secret', link) /\ secret'[new].status = "revoked"
    BY <1>6, <2>1, StatusMoves
  <2> QED
    BY <1>4, <1>6, <2>2 DEF Unwind, Gone
<1>7. CASE ~NothingCreated(b) /\ ~MaySetStatus(new, "revoked") /\ To(b, "refused") /\ UNCHANGED secret
  <2>1. new \in SecretIds /\ new # 0
    BY <1>2, <1>7 DEF NothingCreated
  <2>2. secret[new].status # "absent"
    BY <1>1, <2>1 DEF BrokerFits
  <2>3. secret[new].status = "deleted" \/ SecretReferenced(new)
    BY <1>7, <2>2 DEF MaySetStatus
  <2>4. SecretReferenced(new) => secret[new].connected
    BY <1>1, <2>1 DEF SecretReferenced, CreatedApart
  <2>5. secret'[new].status \in Gone \/ secret'[new].connected
    BY <1>7, <2>3, <2>4 DEF Gone
  <2> QED
    BY <1>3, <1>4, <1>7, <2>5 DEF Unwind
<1> QED
  BY <1>5, <1>6, <1>7 DEF Unwind

LEMMA ClaimRefreshKeeps == ASSUME AccountInv, NEW b \in Brokers, ClaimRefresh(b) PROVE AccountInv' /\ Disconnection
<1> DEFINE l == broker[b].link
           row == [link[l] EXCEPT !.state = "needs_refresh", !.refresh = "recent", !.revision = link[l].revision + 1]
           mine == [broker[b] EXCEPT !.phase = "leased", !.revision = link[l].revision + 1, !.old = link[l].secret]
<1>1. /\ link \in [Links -> LinkRow] /\ broker \in [Brokers -> BrokerRow] /\ OneHolds(broker, link)
      /\ (\A m \in Links : LinkFits(link[m], secret)) /\ (\A a \in Brokers : BrokerFits(broker[a], secret, link))
      /\ CreatedApart(broker, consent, link, secret) /\ VerifiersApart(consent, link, secret)
  BY DEF AccountInv, LinksInv, BrokersInv
<1>2. broker[b] \in BrokerRow /\ broker[b].phase = "claiming" /\ l \in Links /\ broker[b].created = 0
  BY <1>1 DEF ClaimRefresh, At, BrokerFits, CleanPhase
<1>3. link[l] \in LinkRow /\ LinkFits(link[l], secret)
  BY <1>1, <1>2
<1>4. CASE To(b, "waiting") /\ UNCHANGED link
  <2>1. "waiting" \in CleanPhase \union {"unwinding", "releasing", "refused"} /\ "waiting" \notin Holding
    BY DEF CleanPhase, Holding
  <2> QED
    BY <1>2, <1>4, <2>1, PhaseStep DEF ClaimRefresh, KeepStore
<1>5. CASE Claimable(l) /\ link' = [link EXCEPT ![l] = row] /\ broker' = [broker EXCEPT ![b] = mine]
  <2>1. UNCHANGED <<secret, keys, consent, callback>> /\ link[l].state = "connected" /\ link[l].revision < MaxLeases
    BY <1>5 DEF ClaimRefresh, KeepStore, Claimable
  <2>2. link[l].revision + 1 \in 0..MaxLeases /\ link[l].revision + 1 \in Nat
    BY <1>3, <2>1, AccountAssumption DEF LinkRow
  <2>3. row \in LinkRow /\ row.state = "needs_refresh" /\ row.secret = link[l].secret /\ row.revision = link[l].revision + 1
    BY <1>3, <2>2 DEF LinkRow, Usable
  <2>4. mine \in BrokerRow /\ mine.phase = "leased" /\ mine.link = l /\ mine.created = 0 /\ mine.revision = link[l].revision + 1 /\ mine.old = link[l].secret
    BY <1>2, <1>3, <2>2 DEF BrokerRow, LinkRow, CleanPhase
  <2>5. ASSUME NEW a \in Brokers, broker[a].phase \in Holding PROVE broker[a].link # l
    BY <1>1, <2>1, <2>5 DEF BrokerFits
  <2> DEFINE next == link'
             brokers == broker'
  <2>6. /\ next \in [Links -> LinkRow] /\ next[l] = row /\ \A m \in Links : m # l => next[m] = link[m]
        /\ brokers \in [Brokers -> BrokerRow] /\ brokers[b] = mine /\ \A a \in Brokers : a # b => brokers[a] = broker[a]
    BY <1>1, <1>2, <1>5, <2>3, <2>4
  <2> HIDE DEF row, mine, next, brokers, l
  <2>7. LinkFits(row, secret) /\ \A m \in Links : LinkFits(next[m], secret)
    <3>1. LinkFits(row, secret)
      BY <1>3, <2>1, <2>3 DEF LinkFits, Usable
    <3> QED
      BY <1>1, <2>6, <3>1
  <2>8. ASSUME NEW a \in Brokers PROVE BrokerFits(brokers[a], secret, next)
    <3>1. CASE a = b
      BY <1>2, <2>3, <2>4, <2>6, <3>1 DEF BrokerFits, Holding, CleanPhase
    <3>2. CASE a # b
      <4>1. brokers[a] = broker[a] /\ BrokerFits(broker[a], secret, link)
        BY <1>1, <2>6, <3>2
      <4>2. broker[a].phase \in Holding => broker[a].link \in Links /\ broker[a].link # l
        BY <4>1, <2>5 DEF BrokerFits, Holding
      <4> QED
        BY <4>1, <4>2, <2>6 DEF BrokerFits
    <3> QED
      BY <3>1, <3>2
  <2>9. OneHolds(brokers, next)
    <3>1. \A a \in Brokers : a # b /\ brokers[a].phase \in Holding => brokers[a].link # l /\ brokers[a].link \in Links /\ brokers[a] = broker[a]
      BY <1>1, <2>5, <2>6 DEF BrokerFits, Holding
    <3>2. SUFFICES ASSUME NEW a \in Brokers, NEW c \in Brokers, brokers[a].phase \in Holding, brokers[c].phase \in Holding,
                          brokers[a].link = brokers[c].link, next[brokers[a].link].state # "disconnected", a # c
                   PROVE  FALSE
      BY DEF OneHolds
    <3>3. brokers[b].link = l
      BY <2>4, <2>6
    <3>4. a # b /\ c # b
      BY <3>1, <3>2, <3>3
    <3>5. next[brokers[a].link] = link[broker[a].link]
      BY <3>1, <3>2, <3>4, <2>6
    <3> QED
      BY <1>1, <3>1, <3>2, <3>4, <3>5 DEF OneHolds
  <2>10. CreatedApart(brokers, consent, next, secret) /\ VerifiersApart(consent, next, secret)
    <3>1. \A m \in Links : next[m].secret = link[m].secret
      BY <2>3, <2>6
    <3>2. \A a \in Brokers : brokers[a].created = broker[a].created
      BY <1>2, <2>4, <2>6
    <3> QED
      BY <1>1, <3>1, <3>2 DEF CreatedApart, VerifiersApart
  <2> USE DEF next, brokers
  <2>11. AccountInv'
    BY <2>1, <2>6, <2>7, <2>8, <2>9, <2>10 DEF AccountInv, KeysInv, LinksInv, BrokersInv, ConsentsInv
  <2>12. Disconnection
    <3>1. \A m \in Links : link[m].state = "disconnected" => link'[m].state = "disconnected" /\ link'[m].secret = link[m].secret
      BY <2>1, <2>6 DEF l
    <3>2. \A a \in Brokers : At(a, "created") => broker'[a].phase # "finished"
      BY <2>4, <2>6 DEF At
    <3> QED
      BY <3>1, <3>2 DEF Disconnection
  <2> QED
    BY <2>11, <2>12
<1> QED
  BY <1>4, <1>5 DEF ClaimRefresh

LEMMA FinishRefreshKeeps == ASSUME AccountInv, NEW b \in Brokers, FinishRefresh(b) PROVE AccountInv' /\ Disconnection
<1> DEFINE l == broker[b].link
           s == broker[b].created
           ok == LeaseHolds(b) /\ Unrotated(b) /\ IsActive(s)
           row == [link[l] EXCEPT !.secret = s, !.state = "connected", !.expired = FALSE, !.refresh = "none"]
           mine == [broker[b] EXCEPT !.phase = "finished", !.created = 0]
<1>1. /\ link \in [Links -> LinkRow] /\ broker \in [Brokers -> BrokerRow] /\ OneHolds(broker, link)
      /\ (\A m \in Links : LinkFits(link[m], secret)) /\ (\A a \in Brokers : BrokerFits(broker[a], secret, link))
      /\ CreatedApart(broker, consent, link, secret) /\ VerifiersApart(consent, link, secret)
  BY DEF AccountInv, LinksInv, BrokersInv
<1>2. broker[b] \in BrokerRow /\ broker[b].phase = "created" /\ "created" \in Holding /\ l \in Links
  <2>1. broker[b] \in BrokerRow /\ broker[b].phase = "created" /\ BrokerFits(broker[b], secret, link)
    BY <1>1 DEF FinishRefresh, At
  <2> QED
    BY <2>1 DEF BrokerFits, Holding
<1>3. link[l] \in LinkRow /\ UNCHANGED <<secret, keys, consent, callback>>
  BY <1>1, <1>2 DEF FinishRefresh, KeepStore
<1>4. CASE ~ok
  <2>1. broker' = [broker EXCEPT ![b].phase = "unwinding", ![b].created = broker[b].created] /\ UNCHANGED link
    BY <1>4 DEF FinishRefresh
  <2>2. [broker EXCEPT ![b].phase = "unwinding", ![b].created = broker[b].created] = [broker EXCEPT ![b].phase = "unwinding"]
    BY <1>1, <1>2 DEF BrokerRow
  <2>3. To(b, "unwinding")
    BY <2>1, <2>2 DEF To
  <2>4. "unwinding" \in CleanPhase \union {"unwinding", "releasing", "refused"} /\ "unwinding" \notin Holding
    BY DEF Holding
  <2> QED
    BY <1>2, <1>3, <2>1, <2>3, <2>4, PhaseStep
<1>5. CASE ok
  <2>1. link[l].state = "needs_refresh" /\ link[l].revision = broker[b].revision /\ IsActive(s) /\ s \in SecretIds /\ s # 0
    BY <1>5, AccountAssumption DEF LeaseHolds, Row, IsActive
  <2>2. link[l].secret = broker[b].old /\ secret[broker[b].old].rotation = broker[b].rotation
    <3>1. link[l].secret = broker[b].old
      BY <1>1, <1>2, <2>1 DEF BrokerFits
    <3> QED
      BY <1>5, <3>1 DEF Unrotated, Row
  <2>3. row \in LinkRow /\ row.state = "connected" /\ row.secret = s /\ row.refresh = "none"
    BY <1>3, <2>1 DEF LinkRow, Usable
  <2>4. mine \in BrokerRow /\ mine.phase = "finished" /\ mine.link = l /\ mine.created = 0
    BY <1>2 DEF BrokerRow, CleanPhase
  <2>5. link' = [link EXCEPT ![l] = row] /\ broker' = [broker EXCEPT ![b] = mine]
    <3>1. broker' = [broker EXCEPT ![b].phase = "finished", ![b].created = 0]
      BY <1>5 DEF FinishRefresh
    <3>2. link' = [link EXCEPT ![l] = row]
      BY <1>5 DEF FinishRefresh
    <3> QED
      BY <1>1, <1>2, <3>1, <3>2 DEF BrokerRow
  <2>6. ASSUME NEW a \in Brokers, broker[a].phase \in Holding, a # b PROVE broker[a].link # l
    BY <1>1, <1>2, <2>1, <2>6 DEF OneHolds
  <2> DEFINE next == link'
             brokers == broker'
  <2>7. /\ next \in [Links -> LinkRow] /\ next[l] = row /\ \A m \in Links : m # l => next[m] = link[m]
        /\ brokers \in [Brokers -> BrokerRow] /\ brokers[b] = mine /\ \A a \in Brokers : a # b => brokers[a] = broker[a]
    BY <1>1, <1>2, <2>3, <2>4, <2>5
  <2> HIDE DEF row, mine, next, brokers, ok
  <2>8. \A m \in Links : LinkFits(next[m], secret)
    <3>1. LinkFits(row, secret)
      BY <2>1, <2>3 DEF LinkFits, Usable, IsActive
    <3> QED
      BY <1>1, <2>7, <3>1
  <2>9. ASSUME NEW a \in Brokers PROVE BrokerFits(brokers[a], secret, next)
    <3>1. CASE a = b
      BY <1>2, <2>4, <2>7, <3>1 DEF BrokerFits, Holding, CleanPhase
    <3>2. CASE a # b
      <4>1. brokers[a] = broker[a] /\ BrokerFits(broker[a], secret, link)
        BY <1>1, <2>7, <3>2
      <4>2. broker[a].phase \in Holding => broker[a].link \in Links /\ broker[a].link # l
        BY <4>1, <2>6, <3>2 DEF BrokerFits, Holding
      <4> QED
        BY <4>1, <4>2, <2>7 DEF BrokerFits
    <3> QED
      BY <3>1, <3>2
  <2>10. OneHolds(brokers, next)
    <3>1. \A a \in Brokers : brokers[a].phase \in Holding => a # b /\ brokers[a].link # l /\ brokers[a].link \in Links /\ brokers[a] = broker[a]
      BY <1>1, <2>4, <2>6, <2>7 DEF BrokerFits, Holding
    <3>2. SUFFICES ASSUME NEW a \in Brokers, NEW c \in Brokers, brokers[a].phase \in Holding, brokers[c].phase \in Holding,
                          brokers[a].link = brokers[c].link, next[brokers[a].link].state # "disconnected", a # c
                   PROVE  FALSE
      BY DEF OneHolds
    <3>3. next[brokers[a].link] = link[broker[a].link]
      BY <3>1, <3>2, <2>7
    <3> QED
      BY <1>1, <3>1, <3>2, <3>3 DEF OneHolds
  <2>11. CreatedApart(brokers, consent, next, secret) /\ VerifiersApart(consent, next, secret)
    <3>1. \A m \in Links : next[m].secret \in {link[m].secret, s}
      BY <2>3, <2>7
    <3>2. \A a \in Brokers : a # b => brokers[a].created = broker[a].created /\ broker[a].created # s
      BY <1>1, <2>1, <2>7 DEF CreatedApart
    <3>3. brokers[b].created = 0 /\ \A o \in Consents : consent[o].verifier # s
      BY <1>1, <2>1, <2>4, <2>7 DEF CreatedApart
    <3>4. CreatedApart(brokers, consent, next, secret)
      BY <1>1, <3>1, <3>2, <3>3 DEF CreatedApart
    <3>5. VerifiersApart(consent, next, secret)
      BY <1>1, <3>1, <3>3 DEF VerifiersApart
    <3> QED
      BY <3>4, <3>5
  <2> USE DEF next, brokers
  <2>12. AccountInv'
    BY <1>3, <2>7, <2>8, <2>9, <2>10, <2>11 DEF AccountInv, KeysInv, LinksInv, BrokersInv, ConsentsInv
  <2>13. Disconnection
    <3>1. \A m \in Links : link[m].state = "disconnected" => link'[m].state = "disconnected" /\ link'[m].secret = link[m].secret
      BY <2>1, <2>7
    <3>2. \A a \in Brokers : At(a, "created") /\ broker'[a].phase = "finished" => a = b
      BY <2>7 DEF At
    <3> QED
      BY <2>2, <3>1, <3>2 DEF Disconnection, Row
  <2> QED
    BY <2>12, <2>13
<1> QED
  BY <1>4, <1>5

\* A connection is opened with an active secret that no usable connection has.
LEMMA ConnectionOpens ==
  ASSUME AccountInv, NEW l \in Links, NEW s, Connectable(l, s), link' = Connected(l, s), secret' = WithConnection(s),
         UNCHANGED <<keys, broker, consent>>, callback' \in [Callbacks -> CallbackRow],
         \A c \in Callbacks : CallbackFits(callback[c], consent, secret') => CallbackFits(callback'[c], consent, secret'),
         \A c \in Callbacks : callback'[c].phase # "idle" => callback[c].phase # "idle",
         \A c \in Callbacks : callback'[c].consent = callback[c].consent
  PROVE  AccountInv' /\ Disconnection
<1> DEFINE row == [NoLink EXCEPT !.state = "connected", !.secret = s]
           kept == [secret[s] EXCEPT !.connected = TRUE]
<1>1. /\ link \in [Links -> LinkRow] /\ broker \in [Brokers -> BrokerRow] /\ OneHolds(broker, link) /\ secret \in [SecretIds -> SecretRow]
      /\ (\A m \in Links : LinkFits(link[m], secret)) /\ (\A a \in Brokers : BrokerFits(broker[a], secret, link))
      /\ (\A t \in SecretIds : secret[t].connected => secret[t].status # "absent")
  BY DEF AccountInv, LinksInv, BrokersInv
<1>2. s \in SecretIds /\ secret[s].status = "active" /\ link[l].state = "absent" /\ s # 0
  BY AccountAssumption DEF Connectable, IsActive
<1>3. row \in LinkRow /\ row.state = "connected" /\ row.secret = s /\ row.refresh = "none"
  <2>1. 0 \in 0..MaxLeases
    BY AccountAssumption
  <2>2. NoLink \in LinkRow /\ NoLink.refresh = "none"
    BY <2>1 DEF NoLink, LinkRow
  <2> QED
    BY <1>2, <2>2 DEF LinkRow, Usable
<1>4. kept \in SecretRow /\ kept.status = "active" /\ kept.connected
  BY <1>1, <1>2 DEF SecretRow
<1>5. link' = [link EXCEPT ![l] = row] /\ secret' = [secret EXCEPT ![s] = kept]
  BY DEF Connected, WithConnection
<1> HIDE DEF row, kept
<1>6. link' \in [Links -> LinkRow] /\ link'[l] = row /\ \A m \in Links : m # l => link'[m] = link[m]
  BY <1>1, <1>3, <1>5
<1>7. secret' \in [SecretIds -> SecretRow] /\ secret'[s] = kept /\ \A t \in SecretIds : t # s => secret'[t] = secret[t]
  BY <1>1, <1>2, <1>4, <1>5
<1>8. SecretStep(secret, secret', link)
  BY <1>1, <1>2, <1>4, <1>7 DEF SecretStep, Gone
<1>9. /\ secret' \in [SecretIds -> SecretRow] /\ \A t \in SecretIds : secret'[t].connected => secret'[t].status # "absent"
      /\ \A m \in Links : LinkFits(link[m], secret')
      /\ \A b \in Brokers : BrokerFits(broker[b], secret', link)
      /\ \A o \in Consents : ConsentFits(consent[o], secret')
      /\ \A c \in Callbacks : CallbackFits(callback[c], consent, secret')
      /\ CreatedApart(broker, consent, link, secret') /\ VerifiersApart(consent, link, secret')
  BY <1>8, SecretKeeps
<1> DEFINE next == link'
           sec == secret'
<1>10. /\ next[l] = row /\ (\A m \in Links : m # l => next[m] = link[m]) /\ sec[s].status = "active" /\ sec[s].connected
       /\ (\A m \in Links : LinkFits(link[m], sec)) /\ (\A b \in Brokers : BrokerFits(broker[b], sec, link))
       /\ CreatedApart(broker, consent, link, sec) /\ VerifiersApart(consent, link, sec)
  BY <1>4, <1>6, <1>7, <1>9
<1> HIDE DEF next, sec
<1>11. \A m \in Links : LinkFits(next[m], sec)
  <2>1. LinkFits(row, sec)
    BY <1>2, <1>3, <1>10 DEF LinkFits
  <2> QED
    BY <1>10, <2>1
<1>12. ASSUME NEW a \in Brokers PROVE BrokerFits(broker[a], sec, next)
  <2>1. broker[a].phase \in Holding => broker[a].link # l /\ broker[a].link \in Links
    BY <1>2, <1>10 DEF BrokerFits, Holding
  <2> QED
    BY <1>10, <2>1 DEF BrokerFits
<1>13. OneHolds(broker, next)
  <2>1. \A a \in Brokers : broker[a].phase \in Holding => broker[a].link # l /\ broker[a].link \in Links
    BY <1>2, <1>10 DEF BrokerFits, Holding
  <2> QED
    BY <1>1, <1>10, <2>1 DEF OneHolds
<1>14. CreatedApart(broker, consent, next, sec)
  <2>1. \A m \in Links : next[m].secret = link[m].secret \/ next[m].secret = s
    BY <1>3, <1>10
  <2> QED
    BY <1>10, <2>1 DEF CreatedApart
<1>15. VerifiersApart(consent, next, sec)
  <2>1. \A m \in Links : next[m].secret = link[m].secret \/ next[m].secret = s
    BY <1>3, <1>10
  <2> QED
    BY <1>10, <2>1 DEF VerifiersApart
<1> USE DEF next, sec
<1>16. ConsentsInv'
  <2>1. \A c \in Callbacks : CallbackFits(callback'[c], consent, secret')
    BY <1>9
  <2>2. \A c, d \in Callbacks : callback'[c].phase # "idle" /\ callback'[c].consent = callback'[d].consent => c = d
    BY DEF AccountInv, ConsentsInv
  <2>3. consent \in [Consents -> ConsentRow]
    BY DEF AccountInv, ConsentsInv
  <2> QED
    BY <1>9, <2>1, <2>2, <2>3 DEF ConsentsInv
<1>17. AccountInv'
  BY <1>1, <1>6, <1>9, <1>11, <1>12, <1>13, <1>14, <1>15, <1>16 DEF AccountInv, KeysInv, LinksInv, BrokersInv
<1>18. Disconnection
  BY <1>2, <1>6 DEF Disconnection, At
<1> QED
  BY <1>17, <1>18

\* Requests and callbacks move; nothing else does but a secret.
LEMMA ConsentStep ==
  ASSUME AccountInv, SecretStep(secret, secret', link), UNCHANGED <<keys, link, broker>>,
         consent' \in [Consents -> ConsentRow], callback' \in [Callbacks -> CallbackRow],
         \A o \in Consents : ConsentFits(consent'[o], secret'),
         \A o \in Consents : \/ consent'[o].verifier = consent[o].verifier
                             \/ consent'[o].verifier \in SecretIds /\ secret[consent'[o].verifier].status = "absent",
         \A c \in Callbacks : CallbackFits(callback'[c], consent', secret'),
         \A c, d \in Callbacks : callback'[c].phase # "idle" /\ callback'[c].consent = callback'[d].consent => c = d
  PROVE  AccountInv' /\ Disconnection
<1>1. /\ secret' \in [SecretIds -> SecretRow] /\ \A s \in SecretIds : secret'[s].connected => secret'[s].status # "absent"
      /\ \A l \in Links : LinkFits(link[l], secret')
      /\ \A b \in Brokers : BrokerFits(broker[b], secret', link)
      /\ CreatedApart(broker, consent, link, secret') /\ VerifiersApart(consent, link, secret')
  BY SecretKeeps
<1>2. \A o \in Consents : \/ consent'[o].verifier = consent[o].verifier
                          \/ /\ \A b \in Brokers : broker[b].created # consent'[o].verifier
                             /\ \A l \in Links : link[l].secret # consent'[o].verifier
  BY NewIsNobodys
<1> DEFINE next == consent'
           sec == secret'
<1>3. /\ \A o \in Consents : \/ next[o].verifier = consent[o].verifier
                             \/ /\ \A b \in Brokers : broker[b].created # next[o].verifier
                                /\ \A l \in Links : link[l].secret # next[o].verifier
      /\ CreatedApart(broker, consent, link, sec) /\ VerifiersApart(consent, link, sec)
  BY <1>1, <1>2
<1> HIDE DEF next, sec
<1>4. CreatedApart(broker, next, link, sec)
  BY <1>3 DEF CreatedApart
<1>5. VerifiersApart(next, link, sec)
  BY <1>3 DEF VerifiersApart
<1> USE DEF next, sec
<1>6. AccountInv'
  BY <1>1, <1>4, <1>5 DEF AccountInv, KeysInv, LinksInv, BrokersInv, ConsentsInv
<1> QED
  BY <1>6 DEF Disconnection, At

LEMMA StoreRests == ASSUME AccountInv PROVE SecretStep(secret, secret, link)
BY DEF SecretStep, AccountInv

LEMMA ConnectKeeps == ASSUME AccountInv, NEW l \in Links, NEW s \in SecretIds, Connect(l, s) PROVE AccountInv' /\ Disconnection
<1>1. callback \in [Callbacks -> CallbackRow] /\ UNCHANGED callback
  BY DEF AccountInv, ConsentsInv, Connect
<1> QED
  BY <1>1, ConnectionOpens DEF Connect

\* One callback changes its phase, and perhaps a secret with it.
LEMMA CallbackStep ==
  ASSUME AccountInv, SecretStep(secret, secret', link), UNCHANGED <<keys, link, broker, consent>>, NEW c \in Callbacks, NEW row \in CallbackRow,
         callback' = [callback EXCEPT ![c] = row], callback[c].phase # "idle", row.phase # "idle", row.consent = callback[c].consent,
         row.phase = "over" => LET v == consent[row.consent].verifier IN secret'[v].status \in Gone \/ secret'[v].connected
  PROVE  AccountInv' /\ Disconnection
<1>1. callback \in [Callbacks -> CallbackRow] /\ consent \in [Consents -> ConsentRow] /\ (\A d \in Callbacks : CallbackFits(callback[d], consent, secret))
      /\ \A d, e \in Callbacks : callback[d].phase # "idle" /\ callback[d].consent = callback[e].consent => d = e
  BY DEF AccountInv, ConsentsInv
<1>2. callback' \in [Callbacks -> CallbackRow] /\ callback'[c] = row /\ \A d \in Callbacks : d # c => callback'[d] = callback[d]
  BY <1>1
<1>3. (\A o \in Consents : ConsentFits(consent[o], secret')) /\ \A d \in Callbacks : CallbackFits(callback[d], consent, secret')
  BY SecretKeeps
<1>4. CallbackFits(row, consent, secret')
  BY <1>1 DEF CallbackFits
<1>5. \A d \in Callbacks : CallbackFits(callback'[d], consent, secret')
  BY <1>2, <1>3, <1>4
<1>6. \A d, e \in Callbacks : callback'[d].phase # "idle" /\ callback'[d].consent = callback'[e].consent => d = e
  BY <1>1, <1>2
<1>7. UNCHANGED consent /\ UNCHANGED <<keys, link, broker>>
  OBVIOUS
<1>8. \A d \in Callbacks : CallbackFits(callback'[d], consent', secret')
  BY <1>5, <1>7
<1>9. /\ consent' \in [Consents -> ConsentRow] /\ \A o \in Consents : ConsentFits(consent'[o], secret')
      /\ \A o \in Consents : consent'[o].verifier = consent[o].verifier
  BY <1>1, <1>3, <1>7
<1> QED
  BY <1>2, <1>6, <1>7, <1>8, <1>9, ConsentStep

LEMMA OpenConnectionKeeps == ASSUME AccountInv, NEW c \in Callbacks, NEW l \in Links, OpenConnection(c, l) PROVE AccountInv' /\ Disconnection
<1> DEFINE s == callback[c].credential
           row == [callback[c] EXCEPT !.phase = "closing"]
<1>1. callback \in [Callbacks -> CallbackRow] /\ callback[c] \in CallbackRow /\ callback[c].phase = "stored"
  BY DEF AccountInv, ConsentsInv, OpenConnection
<1>2. row \in CallbackRow /\ row.phase = "closing" /\ row.consent = callback[c].consent
  BY <1>1 DEF CallbackRow
<1>3. callback' = [callback EXCEPT ![c] = row]
  BY DEF OpenConnection
<1> HIDE DEF row
<1>4. callback' \in [Callbacks -> CallbackRow] /\ callback'[c] = row /\ \A d \in Callbacks : d # c => callback'[d] = callback[d]
  BY <1>1, <1>2, <1>3
<1>5. \A d \in Callbacks : CallbackFits(callback[d], consent, secret') => CallbackFits(callback'[d], consent, secret')
  <2>1. CallbackFits(callback[c], consent, secret') => CallbackFits(row, consent, secret')
    BY <1>1, <1>2 DEF CallbackFits
  <2> QED
    BY <1>4, <2>1
<1>6. \A d \in Callbacks : callback'[d].consent = callback[d].consent /\ (callback'[d].phase # "idle" => callback[d].phase # "idle")
  BY <1>1, <1>2, <1>4
<1>7. Connectable(l, s) /\ link' = Connected(l, s) /\ secret' = WithConnection(s) /\ UNCHANGED <<keys, broker, consent>>
  BY DEF OpenConnection
<1> HIDE DEF s
<1> QED
  BY <1>4, <1>5, <1>6, <1>7, ConnectionOpens

LEMMA CallbackKeeps ==
  ASSUME AccountInv, NEW c \in Callbacks, StoreCredential(c) \/ ConsentFails(c) \/ RevokeVerifier(c) \/ CrashCallbacks(c)
  PROVE  AccountInv' /\ Disconnection
<1>1. callback[c] \in CallbackRow /\ CallbackFits(callback[c], consent, secret) /\ SecretStep(secret, secret, link)
      /\ (\A o \in Consents : consent[o] \in ConsentRow /\ ConsentFits(consent[o], secret)) /\ VerifiersApart(consent, link, secret)
      /\ secret \in [SecretIds -> SecretRow]
  BY StoreRests DEF AccountInv, ConsentsInv
<1>2. CASE StoreCredential(c)
  <2> DEFINE row == [callback[c] EXCEPT !.phase = "stored", !.credential = NextSecret]
  <2>1. SecretStep(secret, secret', link) /\ NextSecret \in SecretIds
    BY <1>2, SecretCreated DEF StoreCredential
  <2>2. row \in CallbackRow /\ row.phase = "stored" /\ row.consent = callback[c].consent
    BY <1>1, <2>1 DEF CallbackRow
  <2>3. callback' = [callback EXCEPT ![c] = row] /\ UNCHANGED <<keys, link, broker, consent>> /\ callback[c].phase # "idle"
    BY <1>2 DEF StoreCredential
  <2> HIDE DEF row
  <2> QED
    BY <2>1, <2>2, <2>3, CallbackStep
<1>3. ASSUME NEW phase \in {"closing", "crashed"}, callback' = [callback EXCEPT ![c].phase = phase], callback[c].phase # "idle",
             UNCHANGED <<secret, keys, link, broker, consent>>
      PROVE  AccountInv' /\ Disconnection
  <2> DEFINE row == [callback[c] EXCEPT !.phase = phase]
  <2>1. row \in CallbackRow /\ row.phase = phase /\ row.consent = callback[c].consent
    BY <1>1 DEF CallbackRow
  <2>2. callback' = [callback EXCEPT ![c] = row] /\ SecretStep(secret, secret', link)
    BY <1>1, <1>3
  <2> HIDE DEF row
  <2>3. row.phase # "idle" /\ row.phase # "over"
    BY <2>1
  <2> QED
    BY <1>3, <2>1, <2>2, <2>3, CallbackStep
<1>4. CASE ConsentFails(c) \/ CrashCallbacks(c)
  BY <1>3, <1>4 DEF ConsentFails, CrashCallbacks
<1>5. CASE RevokeVerifier(c)
  <2> DEFINE v == consent[callback[c].consent].verifier
             row == [callback[c] EXCEPT !.phase = "over"]
  <2>1. callback[c].phase = "closing" /\ callback' = [callback EXCEPT ![c] = row] /\ UNCHANGED <<keys, link, broker, consent>>
    BY <1>5 DEF RevokeVerifier
  <2>2. callback[c].consent \in Consents /\ v \in SecretIds /\ v # 0 /\ secret[v].status # "absent"
    <3>1. callback[c].consent \in Consents /\ consent[callback[c].consent].state = "used"
      BY <1>1, <2>1 DEF CallbackFits
    <3>2. v \in SecretIds
      BY <1>1, <3>1 DEF ConsentFits
    <3>3. v # 0
      BY <3>2, AccountAssumption
    <3> QED
      BY <1>1, <3>1, <3>2, <3>3 DEF ConsentFits
  <2>3. secret' = IF MaySetStatus(v, "revoked") THEN WithStatus(v, "revoked") ELSE secret
    BY <1>5 DEF RevokeVerifier, Consenting
  <2>4. SecretStep(secret, secret', link) /\ (secret'[v].status \in Gone \/ secret'[v].connected)
    <3>1. CASE MaySetStatus(v, "revoked")
      BY <2>2, <2>3, <3>1, StatusMoves DEF Gone
    <3>2. CASE ~MaySetStatus(v, "revoked")
      <4>1. secret[v].status = "deleted" \/ SecretReferenced(v)
        BY <2>2, <3>2 DEF MaySetStatus
      <4>2. SecretReferenced(v) => secret[v].connected
        BY <1>1, <2>2 DEF SecretReferenced, VerifiersApart
      <4> QED
        BY <1>1, <2>3, <3>2, <4>1, <4>2 DEF Gone
    <3> QED
      BY <3>1, <3>2
  <2>5. row \in CallbackRow /\ row.phase = "over" /\ row.consent = callback[c].consent
    BY <1>1 DEF CallbackRow
  <2> HIDE DEF row
  <2>6. LET w == consent[row.consent].verifier IN secret'[w].status \in Gone \/ secret'[w].connected
    BY <2>4, <2>5
  <2> QED
    BY <2>1, <2>4, <2>5, <2>6, CallbackStep
<1> QED
  BY <1>2, <1>4, <1>5

LEMMA RequestKeeps ==
  ASSUME AccountInv, NEW o \in Consents, StartConsent(o) \/ ExpireConsent(o) \/ \E c \in Callbacks : ClaimConsent(c, o)
  PROVE  AccountInv' /\ Disconnection
<1>1. /\ consent \in [Consents -> ConsentRow] /\ (\A p \in Consents : ConsentFits(consent[p], secret)) /\ SecretStep(secret, secret, link)
      /\ callback \in [Callbacks -> CallbackRow] /\ (\A c \in Callbacks : CallbackFits(callback[c], consent, secret))
      /\ \A c, d \in Callbacks : callback[c].phase # "idle" /\ callback[c].consent = callback[d].consent => c = d
  BY StoreRests DEF AccountInv, ConsentsInv
<1>2. \A c \in Callbacks : callback[c].phase # "idle" => callback[c].consent \in Consents /\ consent[callback[c].consent].state = "used"
  BY <1>1 DEF CallbackFits
<1>3. CASE StartConsent(o)
  <2> DEFINE row == [state |-> "pending", verifier |-> NextSecret]
  <2>1. /\ SecretStep(secret, secret', link) /\ NextSecret \in SecretIds /\ NextSecret # 0
        /\ secret[NextSecret].status = "absent" /\ secret'[NextSecret].status = "active"
    BY <1>3, SecretCreated DEF StartConsent
  <2>2. row \in ConsentRow /\ row.state = "pending" /\ row.verifier = NextSecret
    BY <2>1 DEF ConsentRow
  <2>3. consent' = [consent EXCEPT ![o] = row] /\ consent[o].state = "absent" /\ UNCHANGED <<keys, link, broker, callback>>
    BY <1>3 DEF StartConsent
  <2> HIDE DEF row
  <2>4. consent' \in [Consents -> ConsentRow] /\ consent'[o] = row /\ \A p \in Consents : p # o => consent'[p] = consent[p]
    BY <1>1, <2>2, <2>3
  <2>5. (\A p \in Consents : ConsentFits(consent[p], secret')) /\ \A c \in Callbacks : CallbackFits(callback[c], consent, secret')
    BY <2>1, SecretKeeps
  <2>6. ConsentFits(row, secret')
    BY <2>1, <2>2 DEF ConsentFits
  <2>7. \A p \in Consents : ConsentFits(consent'[p], secret')
    BY <2>4, <2>5, <2>6
  <2>8. \A c \in Callbacks : CallbackFits(callback'[c], consent', secret')
    <3>1. SUFFICES ASSUME NEW c \in Callbacks PROVE CallbackFits(callback[c], consent', secret')
      BY <2>3
    <3>2. callback[c].phase # "idle" => consent'[callback[c].consent] = consent[callback[c].consent]
      BY <1>2, <2>3, <2>4
    <3>3. CallbackFits(callback[c], consent, secret')
      BY <2>5
    <3> QED
      BY <3>2, <3>3 DEF CallbackFits
  <2>9. \A p \in Consents : \/ consent'[p].verifier = consent[p].verifier
                            \/ consent'[p].verifier \in SecretIds /\ secret[consent'[p].verifier].status = "absent"
    BY <2>1, <2>2, <2>4
  <2>10. callback' \in [Callbacks -> CallbackRow]
         /\ \A c, d \in Callbacks : callback'[c].phase # "idle" /\ callback'[c].consent = callback'[d].consent => c = d
    BY <1>1, <2>3
  <2> QED
    BY <2>1, <2>3, <2>4, <2>7, <2>8, <2>9, <2>10, ConsentStep
<1>4. CASE ExpireConsent(o)
  <2> DEFINE row == [consent[o] EXCEPT !.state = "expired"]
  <2>1. consent' = [consent EXCEPT ![o] = row] /\ consent[o].state = "pending" /\ UNCHANGED <<secret, keys, link, broker, callback>>
    BY <1>4 DEF ExpireConsent
  <2>2. row \in ConsentRow /\ row.state = "expired" /\ row.verifier = consent[o].verifier
    BY <1>1 DEF ConsentRow
  <2> HIDE DEF row
  <2>3. consent' \in [Consents -> ConsentRow] /\ consent'[o] = row /\ \A p \in Consents : p # o => consent'[p] = consent[p]
    BY <1>1, <2>1, <2>2
  <2>4. ConsentFits(row, secret)
    BY <1>1, <2>1, <2>2 DEF ConsentFits
  <2>5. \A p \in Consents : ConsentFits(consent'[p], secret')
    BY <1>1, <2>1, <2>3, <2>4
  <2>6. \A c \in Callbacks : CallbackFits(callback'[c], consent', secret')
    <3>1. SUFFICES ASSUME NEW c \in Callbacks PROVE CallbackFits(callback[c], consent', secret)
      BY <2>1
    <3>2. callback[c].phase # "idle" => consent'[callback[c].consent] = consent[callback[c].consent]
      BY <1>2, <2>1, <2>3
    <3> QED
      BY <1>1, <3>2 DEF CallbackFits
  <2>7. \A p \in Consents : consent'[p].verifier = consent[p].verifier
    BY <2>2, <2>3
  <2>8. callback' \in [Callbacks -> CallbackRow] /\ SecretStep(secret, secret', link)
         /\ \A c, d \in Callbacks : callback'[c].phase # "idle" /\ callback'[c].consent = callback'[d].consent => c = d
    BY <1>1, <2>1
  <2> QED
    BY <2>1, <2>3, <2>5, <2>6, <2>7, <2>8, ConsentStep
<1>5. ASSUME NEW c \in Callbacks, ClaimConsent(c, o) PROVE AccountInv' /\ Disconnection
  <2> DEFINE row == [consent[o] EXCEPT !.state = "used"]
             mine == [phase |-> "exchanging", consent |-> o, credential |-> 0]
  <2>1. consent' = [consent EXCEPT ![o] = row] /\ callback' = [callback EXCEPT ![c] = mine] /\ consent[o].state = "pending"
        /\ callback[c].phase = "idle" /\ UNCHANGED <<secret, keys, link, broker>>
    BY <1>5 DEF ClaimConsent, Unused
  <2>2. row \in ConsentRow /\ row.state = "used" /\ row.verifier = consent[o].verifier
    BY <1>1 DEF ConsentRow
  <2>3. mine \in CallbackRow /\ mine.phase = "exchanging" /\ mine.consent = o
    BY DEF CallbackRow
  <2> HIDE DEF row, mine
  <2>4. /\ consent' \in [Consents -> ConsentRow] /\ consent'[o] = row /\ \A p \in Consents : p # o => consent'[p] = consent[p]
        /\ callback' \in [Callbacks -> CallbackRow] /\ callback'[c] = mine /\ \A d \in Callbacks : d # c => callback'[d] = callback[d]
    BY <1>1, <2>1, <2>2, <2>3
  <2>5. ConsentFits(row, secret)
    BY <1>1, <2>1, <2>2 DEF ConsentFits
  <2>6. \A p \in Consents : ConsentFits(consent'[p], secret')
    BY <1>1, <2>1, <2>4, <2>5
  <2>7. \A d \in Callbacks : CallbackFits(callback'[d], consent', secret')
    <3>1. SUFFICES ASSUME NEW d \in Callbacks PROVE CallbackFits(callback'[d], consent', secret)
      BY <2>1
    <3>2. CASE d = c
      BY <2>2, <2>3, <2>4, <3>2 DEF CallbackFits
    <3>3. CASE d # c
      <4>1. callback'[d] = callback[d] /\ CallbackFits(callback[d], consent, secret)
        BY <1>1, <2>4, <3>3
      <4>2. callback[d].phase # "idle" => consent'[callback[d].consent] = consent[callback[d].consent]
        BY <1>2, <2>1, <2>4
      <4> QED
        BY <4>1, <4>2 DEF CallbackFits
    <3> QED
      BY <3>2, <3>3
  <2>8. \A p \in Consents : consent'[p].verifier = consent[p].verifier
    BY <2>2, <2>4
  <2>9. \A d, e \in Callbacks : callback'[d].phase # "idle" /\ callback'[d].consent = callback'[e].consent => d = e
    <3>1. \A d \in Callbacks : callback[d].consent # o
      <4>1. 0 \notin Consents
        BY AccountAssumption
      <4> QED
        BY <1>1, <1>2, <2>1, <4>1 DEF CallbackFits
    <3> QED
      BY <1>1, <2>3, <2>4, <3>1
  <2>10. SecretStep(secret, secret', link)
    BY <1>1, <2>1
  <2> QED
    BY <2>1, <2>4, <2>6, <2>7, <2>8, <2>9, <2>10, ConsentStep
<1> QED
  BY <1>3, <1>4, <1>5

LEMMA StoreKeeps ==
  ASSUME AccountInv,
         \/ StoreSecret \/ RotateActiveKey \/ ReencryptBatch \/ RetireKeyVersion(WorkerKey)
         \/ \E s \in SecretIds : ReplaceSecret(s) \/ DeleteSecret(s)
         \/ \E s \in SecretIds, status \in {"active", "disabled", "revoked"} : SetSecretStatus(s, status)
  PROVE  AccountInv' /\ Disconnection
<1>1. /\ secret \in [SecretIds -> SecretRow] /\ KeysInv /\ SecretStep(secret, secret, link)
      /\ \A s \in SecretIds : secret[s].connected => secret[s].status # "absent"
  BY StoreRests DEF AccountInv
<1>2. ASSUME SecretStep(secret, secret', link), UNCHANGED <<keys, link, broker, consent, callback>> PROVE AccountInv' /\ Disconnection
  BY <1>1, <1>2, StoreStep DEF KeysInv
<1>3. CASE StoreSecret
  <2>1. SecretStep(secret, secret', link)
    BY <1>3, SecretCreated DEF StoreSecret
  <2> QED
    BY <1>2, <1>3, <2>1 DEF StoreSecret
<1>4. CASE RotateActiveKey \/ RetireKeyVersion(WorkerKey)
  <2>1. UNCHANGED <<secret, link, broker, consent, callback>> /\ KeysInv'
    BY <1>1, <1>4 DEF RotateActiveKey, RetireKeyVersion, KeysInv
  <2>2. SecretStep(secret, secret', link)
    BY <1>1, <2>1
  <2> QED
    BY <2>1, <2>2, StoreStep
<1>5. CASE ReencryptBatch
  <2>1. secret' \in [SecretIds -> SecretRow] /\ \A s \in SecretIds : secret'[s].status = secret[s].status /\ secret'[s].connected = secret[s].connected
    <3> DEFINE row(s) == [secret[s] EXCEPT !.version = ApiKey, !.rotation = secret[s].rotation + 1]
               resealed(s) == IF Resealable(s) THEN row(s) ELSE secret[s]
    <3>1. ASSUME NEW s \in SecretIds PROVE row(s) \in SecretRow /\ row(s).status = secret[s].status /\ row(s).connected = secret[s].connected
      <4>1. secret[s] \in SecretRow
        BY <1>1
      <4>2. secret[s].rotation + 1 \in Nat
        BY <4>1 DEF SecretRow
      <4> QED
        BY <4>1, <4>2 DEF SecretRow
    <3>2. secret' = [s \in SecretIds |-> resealed(s)]
      BY <1>5 DEF ReencryptBatch
    <3> HIDE DEF row
    <3>3. \A s \in SecretIds : resealed(s) \in SecretRow /\ resealed(s).status = secret[s].status /\ resealed(s).connected = secret[s].connected
      BY <1>1, <3>1
    <3> HIDE DEF resealed
    <3> QED
      BY <3>2, <3>3
  <2>2. SecretStep(secret, secret', link)
    BY <1>1, <2>1 DEF SecretStep
  <2> QED
    BY <1>2, <1>5, <2>2 DEF ReencryptBatch
<1>6. ASSUME NEW s \in SecretIds, ReplaceSecret(s) PROVE AccountInv' /\ Disconnection
  <2> DEFINE row == [secret[s] EXCEPT !.version = ApiKey, !.rotation = secret[s].rotation + 1]
  <2>1. row \in SecretRow /\ row.status = secret[s].status /\ row.connected = secret[s].connected
    <3>1. secret[s] \in SecretRow
      BY <1>1
    <3>2. secret[s].rotation + 1 \in Nat
      BY <3>1 DEF SecretRow
    <3> QED
      BY <3>1, <3>2 DEF SecretRow
  <2>2. secret' = [secret EXCEPT ![s] = row]
    BY <1>6 DEF ReplaceSecret
  <2> HIDE DEF row
  <2>3. secret' \in [SecretIds -> SecretRow] /\ secret'[s] = row /\ \A t \in SecretIds : t # s => secret'[t] = secret[t]
    BY <1>1, <2>1, <2>2
  <2>4. SecretStep(secret, secret', link)
    BY <1>1, <2>1, <2>3 DEF SecretStep
  <2> QED
    BY <1>2, <1>6, <2>4 DEF ReplaceSecret
<1>7. ASSUME NEW s \in SecretIds, DeleteSecret(s) PROVE AccountInv' /\ Disconnection
  <2> DEFINE row == [secret[s] EXCEPT !.status = "deleted"]
  <2>1. row \in SecretRow /\ row.status = "deleted" /\ row.connected = secret[s].connected
    BY <1>1 DEF SecretRow, Gone
  <2>2. secret' = [secret EXCEPT ![s] = row] /\ ~SecretReferenced(s)
    BY <1>7 DEF DeleteSecret, WithStatus
  <2> HIDE DEF row
  <2>3. secret' \in [SecretIds -> SecretRow] /\ secret'[s] = row /\ \A t \in SecretIds : t # s => secret'[t] = secret[t]
    BY <1>1, <2>1, <2>2
  <2>4. SecretStep(secret, secret', link)
    BY <1>1, <2>1, <2>2, <2>3 DEF SecretStep, SecretReferenced, Gone
  <2> QED
    BY <1>2, <1>7, <2>4 DEF DeleteSecret
<1>8. ASSUME NEW s \in SecretIds, NEW status \in {"active", "disabled", "revoked"}, SetSecretStatus(s, status) PROVE AccountInv' /\ Disconnection
  <2>1. SecretStep(secret, secret', link)
    BY <1>8, StatusMoves DEF SetSecretStatus
  <2> QED
    BY <1>2, <1>8, <2>1 DEF SetSecretStatus
<1> QED
  BY <1>3, <1>4, <1>5, <1>6, <1>7, <1>8

LEMMA AccountKeeps == AccountInv /\ [AccountNext]_accountVars => AccountInv' /\ (Disconnection \/ UNCHANGED accountVars)
<1> SUFFICES ASSUME AccountInv, [AccountNext]_accountVars PROVE AccountInv' /\ (Disconnection \/ UNCHANGED accountVars)
  OBVIOUS
<1>1. CASE UNCHANGED accountVars
  BY <1>1 DEF accountVars, AccountInv, KeysInv, LinksInv, BrokersInv, ConsentsInv
<1>2. ASSUME NEW b \in Brokers, Dispatching(b) \/ CrashWorker(b) PROVE AccountInv' /\ Disconnection
  BY <1>2, LookingKeeps, ClaimRefreshKeeps, CreateRefreshedKeeps, FinishRefreshKeeps, RevokeOldKeeps, UnwindKeeps, FailRefreshKeeps
     DEF Dispatching, Refreshing
<1>3. ASSUME NEW c \in Callbacks, Finishing(c) \/ CrashCallbacks(c) PROVE AccountInv' /\ Disconnection
  BY <1>3, CallbackKeeps, OpenConnectionKeeps DEF Finishing
<1>4. CASE AccountNext
  BY <1>2, <1>3, <1>4, StoreKeeps, ConnectKeeps, OwnerKeeps, LookingKeeps, RequestKeeps DEF AccountNext
<1> QED
  BY <1>1, <1>4

THEOREM AccountInvariant == AccountSpec => []AccountInv
<1>1. AccountInv /\ [AccountNext]_accountVars => AccountInv'
  BY AccountKeeps
<1> QED
  BY <1>1, AccountInitial, PTL DEF AccountSpec

LEMMA AccountIsSound == AccountInv => AccountSound
<1> SUFFICES ASSUME AccountInv PROVE AccountSound
  OBVIOUS
<1>1. /\ \A s \in SecretIds : secret[s] \in SecretRow
      /\ \A l \in Links : link[l] \in LinkRow /\ LinkFits(link[l], secret)
      /\ (\A b \in Brokers : broker[b] \in BrokerRow /\ BrokerFits(broker[b], secret, link)) /\ OneHolds(broker, link) /\ KeysInv
      /\ \A c \in Callbacks : CallbackFits(callback[c], consent, secret)
      /\ \A c, d \in Callbacks : callback[c].phase # "idle" /\ callback[c].consent = callback[d].consent => c = d
  BY DEF AccountInv, LinksInv, BrokersInv, ConsentsInv
<1>2. AccountTypeOK
  BY <1>1 DEF AccountTypeOK, SecretRow, Gone, LinkRow, LinkFits, KeysInv
<1>3. LinkBacked
  BY <1>1 DEF LinkBacked, LinkFits, IsActive
<1>4. SingleFlight
  BY <1>1 DEF SingleFlight, Holding, BrokerFits, OneHolds, Row
<1>5. NoOrphanCredential
  BY <1>1 DEF NoOrphanCredential, BrokerFits, Gone
<1>6. ConsentOnce
  BY <1>1 DEF ConsentOnce, CallbackFits, Gone, IsActive, Consenting
<1> QED
  BY <1>2, <1>3, <1>4, <1>5, <1>6 DEF AccountSound

THEOREM AccountSoundHolds == AccountSpec => []AccountSound
BY AccountInvariant, AccountIsSound, PTL

THEOREM DisconnectFinalHolds == AccountSpec => DisconnectFinal
<1>1. AccountInv /\ [AccountNext]_accountVars => Disconnection \/ UNCHANGED accountVars
  BY AccountKeeps
<1>2. AccountInv /\ [AccountNext]_accountVars => [Disconnection]_accountVars
  BY <1>1
<1> QED
  BY AccountInvariant, <1>2, PTL DEF AccountSpec, DisconnectFinal, Disconnection

-----------------------------------------------------------------------------
(* SignIn: the local administrator and its sessions.                       *)

WorkPhases == {"hashing", "verifying", "rehashing"}
AdministratorRow == [by : LocalCallers \union {0}, hash : {0, 1, 2}]
LocalCallRow == [phase : WorkPhases \union {"idle", "storing", "done"}, kind : {"none", "setup", "login", "unknown"}, hash : {0, 1, 2},
                 outcome : {"none", "complete", "limited", "issued", "denied"}]
LocalSessionRow == [to : LocalCallers, revoked : BOOLEAN]

\* An answer is given once, at the end; only a request of a set-up service logs in.
LocalFits(c, row, by) ==
  /\ row.outcome # "none" => row.phase = "done"
  /\ row.kind = "setup" /\ row.outcome = "issued" => by = c
  /\ row.kind = "login" => by # 0
IssuedTo(c, sessionRows) == {s \in DOMAIN sessionRows : sessionRows[s].to = c}
Counted(c, row, sessionRows) == Cardinality(IssuedTo(c, sessionRows)) = (IF row.outcome = "issued" THEN 1 ELSE 0)

LocalInv ==
  /\ administrator \in AdministratorRow /\ localCall \in [LocalCallers -> LocalCallRow] /\ localSession \in Seq(LocalSessionRow)
  /\ \A c \in LocalCallers : LocalFits(c, localCall[c], administrator.by) /\ Counted(c, localCall[c], localSession)
  /\ localSession # <<>> => SetUp
  /\ IsFiniteSet(Hashing) /\ Cardinality(Hashing) <= PasswordWork

LEMMA LocalInitial == SignInInit => LocalInv
<1> SUFFICES ASSUME SignInInit PROVE LocalInv
  OBVIOUS
<1>1. administrator \in AdministratorRow /\ localSession \in Seq(LocalSessionRow) /\ localSession = <<>>
  BY DEF SignInInit, AdministratorRow, NoOne
<1>2. IdleCall \in LocalCallRow /\ IdleCall.outcome = "none" /\ IdleCall.kind = "none" /\ IdleCall.phase = "idle"
  BY DEF IdleCall, LocalCallRow
<1>3. localCall \in [LocalCallers -> LocalCallRow] /\ \A c \in LocalCallers : localCall[c] = IdleCall
  BY <1>2 DEF SignInInit
<1>4. ASSUME NEW c \in LocalCallers PROVE LocalFits(c, localCall[c], administrator.by) /\ Counted(c, localCall[c], localSession)
  <2>1. IssuedTo(c, localSession) = {}
    BY <1>1 DEF IssuedTo
  <2> QED
    BY <1>2, <1>3, <2>1, FS_EmptySet DEF LocalFits, Counted
<1>5. Hashing = {}
  BY <1>2, <1>3 DEF Hashing
<1>6. IsFiniteSet(Hashing) /\ Cardinality(Hashing) <= PasswordWork
  BY <1>5, FS_EmptySet, SignInAssumption
<1> QED
  BY <1>1, <1>3, <1>4, <1>6 DEF LocalInv

\* The semaphore.
LEMMA WorkBounded ==
  ASSUME LocalInv, NEW c \in LocalCallers, NEW row, localCall' = [localCall EXCEPT ![c] = row],
         row.phase \in WorkPhases => Cardinality(Hashing \ {c}) < PasswordWork
  PROVE  IsFiniteSet(Hashing') /\ Cardinality(Hashing') <= PasswordWork
<1>1. /\ localCall \in [LocalCallers -> LocalCallRow] /\ IsFiniteSet(Hashing) /\ Cardinality(Hashing) <= PasswordWork
      /\ Cardinality(Hashing) \in Nat /\ PasswordWork \in Nat
  BY FS_CardinalityType, SignInAssumption DEF LocalInv
<1>2. localCall'[c] = row /\ \A d \in LocalCallers : d # c => localCall'[d] = localCall[d]
  BY <1>1
<1>3. CASE row.phase \notin WorkPhases
  <2>1. Hashing' \subseteq Hashing
    BY <1>2, <1>3 DEF Hashing, WorkPhases
  <2>2. IsFiniteSet(Hashing') /\ Cardinality(Hashing') <= Cardinality(Hashing)
    BY <1>1, <2>1, FS_Subset
  <2>3. Cardinality(Hashing') \in Nat
    BY <2>2, FS_CardinalityType
  <2> QED
    BY <1>1, <2>2, <2>3
<1>4. CASE row.phase \in WorkPhases
  <2>1. Hashing' = (Hashing \ {c}) \union {c}
    BY <1>2, <1>4 DEF Hashing, WorkPhases
  <2>2. IsFiniteSet(Hashing \ {c}) /\ c \notin Hashing \ {c}
    BY <1>1, FS_RemoveElement
  <2>3. IsFiniteSet(Hashing') /\ Cardinality(Hashing') = Cardinality(Hashing \ {c}) + 1
    BY <2>1, <2>2, FS_AddElement
  <2>4. Cardinality(Hashing \ {c}) \in Nat
    BY <2>2, FS_CardinalityType
  <2> QED
    BY <1>1, <1>4, <2>3, <2>4
<1> QED
  BY <1>3, <1>4

\* A request goes on, or ends without a session.
LEMMA LocalCallMoves ==
  ASSUME LocalInv, NEW c \in LocalCallers, NEW row \in LocalCallRow, SetCall(c, row), UNCHANGED <<administrator, localSession>>,
         LocalFits(c, row, administrator.by), row.outcome # "issued", localCall[c].phase # "done",
         row.phase \in WorkPhases => Cardinality(Hashing \ {c}) < PasswordWork
  PROVE  LocalInv'
<1>1. localCall' = [localCall EXCEPT ![c] = row] /\ localCall \in [LocalCallers -> LocalCallRow] /\ localCall[c].outcome = "none"
  BY DEF SetCall, LocalInv, LocalFits
<1>2. localCall' \in [LocalCallers -> LocalCallRow] /\ localCall'[c] = row /\ \A d \in LocalCallers : d # c => localCall'[d] = localCall[d]
  BY <1>1
<1>3. IsFiniteSet(Hashing') /\ Cardinality(Hashing') <= PasswordWork
  BY <1>1, WorkBounded
<1>4. Counted(c, row, localSession)
  BY <1>1 DEF LocalInv, Counted
<1>5. \A d \in LocalCallers : LocalFits(d, localCall'[d], administrator.by) /\ Counted(d, localCall'[d], localSession)
  BY <1>2, <1>4 DEF LocalInv
<1> QED
  BY <1>2, <1>3, <1>5 DEF LocalInv, SetUp

\* A session is issued to a request that is answered with it.
LEMMA LocalIssued ==
  ASSUME LocalInv, NEW c \in LocalCallers, localCall[c].phase = "storing", IssueLocal(c), Ends(c, "issued"), administrator' \in AdministratorRow,
         localCall[c].kind = "setup" => administrator'.by = c, administrator'.by # 0,
         \A d \in LocalCallers : LocalFits(d, localCall[d], administrator'.by)
  PROVE  LocalInv'
<1> DEFINE row == [localCall[c] EXCEPT !.phase = "done", !.outcome = "issued"]
<1>1. localCall \in [LocalCallers -> LocalCallRow] /\ localCall[c] \in LocalCallRow /\ localSession \in Seq(LocalSessionRow)
      /\ localCall[c].outcome = "none" /\ (\A d \in LocalCallers : Counted(d, localCall[d], localSession))
  BY DEF LocalInv, LocalFits
<1>2. row \in LocalCallRow /\ row.phase = "done" /\ row.outcome = "issued" /\ row.kind = localCall[c].kind
  BY <1>1 DEF LocalCallRow
<1>3. localCall' = [localCall EXCEPT ![c] = row]
  BY DEF Ends, SetCall
<1> HIDE DEF row
<1>4. localCall' \in [LocalCallers -> LocalCallRow] /\ localCall'[c] = row /\ \A d \in LocalCallers : d # c => localCall'[d] = localCall[d]
  BY <1>1, <1>2, <1>3
<1>5. LocalFits(c, row, administrator'.by)
  BY <1>2 DEF LocalFits
<1> DEFINE new == [to |-> c, revoked |-> FALSE]
           old == localSession
           next == localSession'
<1>6. new \in LocalSessionRow /\ next = Append(old, new)
  BY DEF LocalSessionRow, IssueLocal
<1>7. /\ next \in Seq(LocalSessionRow) /\ Len(next) = Len(old) + 1 /\ next[Len(next)] = new /\ (\A i \in DOMAIN old : next[i] = old[i])
      /\ \A i \in DOMAIN next : i \in DOMAIN old \/ i = Len(next)
  <2> HIDE DEF new, old, next
  <2>1. old \in Seq(LocalSessionRow)
    BY <1>1 DEF old
  <2> QED
    BY <1>6, <2>1, RowAppended
<1>8. new.to = c
  OBVIOUS
<1> HIDE DEF new
<1>9. next # <<>> /\ DOMAIN old = 1..Len(old) /\ Len(old) \in Nat /\ DOMAIN next = 1..Len(next) /\ old \in Seq(LocalSessionRow)
  BY <1>1, <1>7
<1> HIDE DEF old, next
<1>10. ASSUME NEW d \in LocalCallers PROVE Counted(d, localCall'[d], next)
  <2>1. IsFiniteSet(IssuedTo(d, old)) /\ Len(next) \notin IssuedTo(d, old)
    <3>1. IssuedTo(d, old) \subseteq 1..Len(old) /\ IsFiniteSet(1..Len(old))
      BY <1>9, FS_Interval DEF IssuedTo
    <3>2. Len(next) \notin 1..Len(old)
      BY <1>7, <1>9
    <3> QED
      BY <3>1, <3>2, FS_Subset
  <2>2. Counted(d, localCall[d], old)
    BY <1>1 DEF old
  <2>3. CASE d = c
    <3>1. IssuedTo(d, next) = IssuedTo(d, old) \union {Len(next)}
      BY <1>7, <1>8, <1>9, <2>3 DEF IssuedTo
    <3>2. Cardinality(IssuedTo(d, next)) = Cardinality(IssuedTo(d, old)) + 1
      BY <2>1, <3>1, FS_AddElement
    <3>3. Cardinality(IssuedTo(d, old)) = 0
      BY <1>1, <2>2, <2>3 DEF Counted
    <3> QED
      BY <1>2, <1>4, <2>3, <3>2, <3>3 DEF Counted
  <2>4. CASE d # c
    <3>1. IssuedTo(d, next) = IssuedTo(d, old)
      BY <1>7, <1>8, <1>9, <2>4 DEF IssuedTo
    <3> QED
      BY <1>4, <2>2, <2>4, <3>1 DEF Counted
  <2> QED
    BY <2>3, <2>4
<1>11. \A d \in LocalCallers : LocalFits(d, localCall'[d], administrator'.by)
  BY <1>4, <1>5
<1>12. IsFiniteSet(Hashing') /\ Cardinality(Hashing') <= PasswordWork
  <2>1. row.phase \notin WorkPhases
    BY <1>2 DEF WorkPhases
  <2> QED
    BY <1>3, <2>1, WorkBounded
<1> QED
  BY <1>4, <1>7, <1>9, <1>10, <1>11, <1>12 DEF LocalInv, SetUp, NoOne, next

\* Work is begun within the limit or refused.
LEMMA WorkBegins ==
  ASSUME LocalInv, NEW c \in LocalCallers, NEW row \in LocalCallRow, BeginWork(c, row), UNCHANGED <<administrator, localSession>>,
         row.phase \in WorkPhases, row.outcome = "none", row.kind = "login" => administrator.by # 0, localCall[c].phase # "done"
  PROVE  LocalInv'
<1> DEFINE refused == [row EXCEPT !.phase = "done", !.outcome = "limited"]
<1>1. CASE Cardinality(Hashing \ {c}) < PasswordWork /\ SetCall(c, row)
  <2>1. LocalFits(c, row, administrator.by) /\ row.outcome # "issued"
    BY DEF LocalFits
  <2> QED
    BY <1>1, <2>1, LocalCallMoves
<1>2. CASE SetCall(c, refused)
  <2>1. refused \in LocalCallRow /\ refused.phase = "done" /\ refused.outcome = "limited" /\ refused.kind = row.kind
    BY DEF LocalCallRow
  <2>2. SetCall(c, refused)
    BY <1>2
  <2> HIDE DEF refused
  <2>3. LocalFits(c, refused, administrator.by) /\ refused.outcome # "issued" /\ refused.phase \notin WorkPhases
    BY <2>1 DEF LocalFits, WorkPhases
  <2> QED
    BY <2>1, <2>2, <2>3, LocalCallMoves
<1> QED
  BY <1>1, <1>2 DEF BeginWork

\* A request ends with an answer that is not a session.
LEMMA LocalEnds ==
  ASSUME LocalInv, NEW c \in LocalCallers, NEW outcome \in {"complete", "denied"}, Ends(c, outcome), localCall[c].phase # "done",
         UNCHANGED <<administrator, localSession>>
  PROVE  LocalInv'
<1> DEFINE row == [localCall[c] EXCEPT !.phase = "done", !.outcome = outcome]
<1>1. localCall[c] \in LocalCallRow /\ LocalFits(c, localCall[c], administrator.by)
  BY DEF LocalInv
<1>2. row \in LocalCallRow /\ row.phase = "done" /\ row.outcome = outcome /\ row.kind = localCall[c].kind
  BY <1>1 DEF LocalCallRow
<1>3. SetCall(c, row)
  BY DEF Ends
<1> HIDE DEF row
<1>4. LocalFits(c, row, administrator.by) /\ row.outcome # "issued" /\ row.phase \notin WorkPhases
  BY <1>1, <1>2 DEF LocalFits, WorkPhases
<1> QED
  BY <1>2, <1>3, <1>4, LocalCallMoves

LEMMA SetupKeeps ==
  ASSUME LocalInv, NEW c \in LocalCallers, BeginSetup(c) \/ HashPassword(c) \/ CreateAdministrator(c)
  PROVE  LocalInv'
<1>1. localCall[c] \in LocalCallRow /\ LocalFits(c, localCall[c], administrator.by) /\ administrator \in AdministratorRow
      /\ \A d \in LocalCallers : LocalFits(d, localCall[d], administrator.by)
  BY DEF LocalInv
<1>2. CASE BeginSetup(c)
  <2> DEFINE next == [IdleCall EXCEPT !.kind = "setup", !.phase = "hashing"]
             told == [next EXCEPT !.phase = "done", !.outcome = "complete"]
  <2>1. next \in LocalCallRow /\ next.phase = "hashing" /\ next.outcome = "none" /\ next.kind = "setup"
    BY DEF IdleCall, LocalCallRow, WorkPhases
  <2>2. told \in LocalCallRow /\ told.phase = "done" /\ told.outcome = "complete" /\ told.kind = "setup"
    BY DEF IdleCall, LocalCallRow
  <2>3. localCall[c].phase # "done" /\ UNCHANGED <<administrator, localSession>> /\ (SetCall(c, told) \/ BeginWork(c, next))
    BY <1>2 DEF BeginSetup
  <2> HIDE DEF next, told
  <2>4. CASE SetCall(c, told)
    <3>1. LocalFits(c, told, administrator.by) /\ told.outcome # "issued" /\ told.phase \notin WorkPhases
      BY <2>2 DEF LocalFits, WorkPhases
    <3> QED
      BY <2>2, <2>3, <2>4, <3>1, LocalCallMoves
  <2>5. CASE BeginWork(c, next)
    <3>1. next.phase \in WorkPhases
      BY <2>1 DEF WorkPhases
    <3> QED
      BY <2>1, <2>3, <2>5, <3>1, WorkBegins
  <2> QED
    BY <2>3, <2>4, <2>5
<1>3. CASE HashPassword(c)
  <2> DEFINE row == [localCall[c] EXCEPT !.phase = "storing", !.hash = 2]
  <2>1. localCall[c].phase \in {"hashing", "rehashing"} /\ SetCall(c, row) /\ UNCHANGED <<administrator, localSession>>
    BY <1>3 DEF HashPassword
  <2>2. row \in LocalCallRow /\ row.phase = "storing" /\ row.outcome = localCall[c].outcome /\ row.kind = localCall[c].kind
    BY <1>1 DEF LocalCallRow
  <2> HIDE DEF row
  <2>3. LocalFits(c, row, administrator.by) /\ row.outcome # "issued" /\ row.phase \notin WorkPhases
    BY <1>1, <2>1, <2>2 DEF LocalFits, WorkPhases
  <2> QED
    BY <2>1, <2>2, <2>3, LocalCallMoves
<1>4. CASE CreateAdministrator(c)
  <2>1. localCall[c].phase = "storing" /\ localCall[c].kind = "setup"
    BY <1>4 DEF CreateAdministrator
  <2>2. CASE StillOpen /\ administrator' = [by |-> c, hash |-> 2] /\ IssueLocal(c) /\ Ends(c, "issued")
    <3>1. administrator' \in AdministratorRow /\ administrator'.by = c
      BY <2>2 DEF AdministratorRow
    <3>2. c # 0 /\ administrator.by = 0
      BY <2>2, SignInAssumption DEF StillOpen, SetUp, NoOne
    <3>3. \A d \in LocalCallers : LocalFits(d, localCall[d], administrator'.by)
      <4>1. SUFFICES ASSUME NEW d \in LocalCallers PROVE LocalFits(d, localCall[d], c)
        BY <3>1
      <4>2. LocalFits(d, localCall[d], 0) /\ d # 0
        BY <1>1, <3>2, SignInAssumption
      <4> QED
        BY <3>2, <4>2 DEF LocalFits
    <3> QED
      BY <2>1, <2>2, <3>1, <3>2, <3>3, LocalIssued
  <2>3. CASE Ends(c, "complete") /\ UNCHANGED <<administrator, localSession>>
    BY <2>1, <2>3, LocalEnds
  <2> QED
    BY <1>4, <2>2, <2>3 DEF CreateAdministrator
<1> QED
  BY <1>2, <1>3, <1>4

LEMMA LoginKeeps ==
  ASSUME LocalInv, NEW c \in LocalCallers, BeginLogin(c) \/ VerifyPassword(c) \/ StoreSession(c)
  PROVE  LocalInv'
<1>1. localCall[c] \in LocalCallRow /\ LocalFits(c, localCall[c], administrator.by) /\ administrator \in AdministratorRow
      /\ \A d \in LocalCallers : LocalFits(d, localCall[d], administrator.by)
  BY DEF LocalInv
<1>2. CASE BeginLogin(c)
  <2> DEFINE next == [IdleCall EXCEPT !.kind = IF SetUp THEN "login" ELSE "unknown", !.phase = "verifying", !.hash = administrator.hash]
  <2>1. administrator.hash \in {0, 1, 2}
    BY <1>1 DEF AdministratorRow
  <2>2. next \in LocalCallRow /\ next.phase = "verifying" /\ next.outcome = "none" /\ (next.kind = "login" => SetUp)
    BY <2>1 DEF IdleCall, LocalCallRow, WorkPhases
  <2>3. localCall[c].phase # "done" /\ UNCHANGED <<administrator, localSession>> /\ BeginWork(c, next)
    BY <1>2 DEF BeginLogin
  <2> HIDE DEF next
  <2>4. next.phase \in WorkPhases /\ (next.kind = "login" => administrator.by # 0)
    BY <2>2 DEF WorkPhases, SetUp, NoOne
  <2> QED
    BY <2>2, <2>3, <2>4, WorkBegins
<1>3. CASE VerifyPassword(c)
  <2> DEFINE stored == [localCall[c] EXCEPT !.phase = "storing", !.hash = 0]
             again == [localCall[c] EXCEPT !.phase = "rehashing"]
  <2>1. localCall[c].phase = "verifying" /\ UNCHANGED <<administrator, localSession>> /\ localCall[c].outcome = "none"
    BY <1>1, <1>3 DEF VerifyPassword, LocalFits
  <2>2. CASE Ends(c, "denied")
    BY <2>1, <2>2, LocalEnds
  <2>3. CASE SetCall(c, stored)
    <3>1. stored \in LocalCallRow /\ stored.phase = "storing" /\ stored.outcome = "none" /\ stored.kind = localCall[c].kind
      BY <1>1, <2>1 DEF LocalCallRow
    <3>2. SetCall(c, stored)
      BY <2>3
    <3> HIDE DEF stored
    <3>3. LocalFits(c, stored, administrator.by) /\ stored.outcome # "issued" /\ stored.phase \notin WorkPhases
      BY <1>1, <3>1 DEF LocalFits, WorkPhases
    <3> QED
      BY <2>1, <3>1, <3>2, <3>3, LocalCallMoves
  <2>4. CASE BeginWork(c, again)
    <3>1. again \in LocalCallRow /\ again.phase = "rehashing" /\ again.outcome = "none" /\ again.kind = localCall[c].kind
      BY <1>1, <2>1 DEF LocalCallRow, WorkPhases
    <3>2. BeginWork(c, again)
      BY <2>4
    <3> HIDE DEF again
    <3>3. again.phase \in WorkPhases /\ (again.kind = "login" => administrator.by # 0)
      BY <1>1, <3>1 DEF LocalFits, WorkPhases
    <3> QED
      BY <2>1, <3>1, <3>2, <3>3, WorkBegins
  <2> QED
    BY <1>3, <2>2, <2>3, <2>4 DEF VerifyPassword
<1>4. CASE StoreSession(c)
  <2>1. localCall[c].phase = "storing" /\ localCall[c].kind = "login" /\ IssueLocal(c) /\ Ends(c, "issued")
        /\ administrator' = [administrator EXCEPT !.hash = IF localCall[c].hash = 0 THEN administrator.hash ELSE localCall[c].hash]
    BY <1>4 DEF StoreSession
  <2>2. localCall[c].hash \in {0, 1, 2} /\ administrator.hash \in {0, 1, 2}
    BY <1>1 DEF LocalCallRow, AdministratorRow
  <2>3. administrator' \in AdministratorRow /\ administrator'.by = administrator.by
    BY <1>1, <2>1, <2>2 DEF AdministratorRow
  <2>4. administrator.by # 0
    BY <1>1, <2>1 DEF LocalFits
  <2>5. \A d \in LocalCallers : LocalFits(d, localCall[d], administrator'.by)
    BY <1>1, <2>3
  <2> QED
    BY <2>1, <2>3, <2>4, <2>5, LocalIssued
<1> QED
  BY <1>2, <1>3, <1>4

LEMMA LocalKeeps == LocalInv /\ LocalNext => LocalInv'
<1> SUFFICES ASSUME LocalInv, LocalNext PROVE LocalInv'
  OBVIOUS
<1>1. ASSUME NEW s \in DOMAIN localSession, LocalLogout(s) PROVE LocalInv'
  <2> DEFINE row == [localSession[s] EXCEPT !.revoked = TRUE]
             old == localSession
             next == localSession'
  <2>1. localSession \in Seq(LocalSessionRow) /\ localSession[s] \in LocalSessionRow
    BY DEF LocalInv
  <2>2. row \in LocalSessionRow /\ row.to = localSession[s].to
    BY <2>1 DEF LocalSessionRow
  <2>3. next = [old EXCEPT ![s] = row] /\ UNCHANGED <<administrator, localCall>>
    BY <1>1 DEF LocalLogout
  <2> HIDE DEF row, next
  <2>4. next \in Seq(LocalSessionRow) /\ Len(next) = Len(old) /\ next[s] = row /\ \A i \in DOMAIN old : i # s => next[i] = old[i]
    BY <2>1, <2>2, <2>3, RowSet
  <2>5. DOMAIN next = DOMAIN old /\ \A i \in DOMAIN old : next[i].to = old[i].to
    BY <2>1, <2>2, <2>4
  <2>6. \A c \in LocalCallers : IssuedTo(c, next) = IssuedTo(c, old)
    BY <2>5 DEF IssuedTo
  <2>7. \A c \in LocalCallers : Counted(c, localCall[c], next)
    BY <2>6 DEF LocalInv, Counted
  <2>8. SetUp /\ SetUp' = SetUp /\ Hashing' = Hashing
    BY <2>1, <2>3 DEF LocalInv, SetUp, Hashing
  <2> QED
    BY <2>3, <2>4, <2>7, <2>8 DEF LocalInv, next
<1>2. CASE ProfileChanges
  <2>1. administrator' = [administrator EXCEPT !.hash = 1] /\ UNCHANGED <<localCall, localSession>> /\ administrator \in AdministratorRow
    BY <1>2 DEF ProfileChanges, LocalInv
  <2>2. administrator' \in AdministratorRow /\ administrator'.by = administrator.by
    BY <2>1 DEF AdministratorRow
  <2>3. SetUp' = SetUp /\ Hashing' = Hashing
    BY <2>1, <2>2 DEF SetUp, Hashing
  <2> QED
    BY <2>1, <2>2, <2>3 DEF LocalInv
<1> QED
  BY <1>1, <1>2, SetupKeeps, LoginKeeps DEF LocalNext

-----------------------------------------------------------------------------
(* SignIn: sign-ins at the marketplace, the sessions, codes and            *)
(* credentials they are worth.                                             *)

SignInRow == [state : {"absent", "started", "consumed"}, expired : BOOLEAN, account : Identities \union {0}, consented : BOOLEAN]
CallbackerRow == [phase : {"idle", "redeeming", "redeemed", "creating"}, signIn : SignIns \union {0}, identity : Identities \union {0}]
HostedRow == [account : Identities, signIn : SignIns, state : {"live", "idle", "over"}]
CodeRow == [signIn : SignIns, account : Identities, consumed : BOOLEAN, expired : BOOLEAN]
CredentialRow == [code : Nat \ {0}, account : Identities, live : BOOLEAN]

\* A sign-in that is being redeemed is consumed and nobody's yet.
CallbackerFits(row, signIns) ==
  row.phase # "idle" =>
     /\ row.signIn \in SignIns /\ signIns[row.signIn].state = "consumed" /\ signIns[row.signIn].account = 0
     /\ ~signIns[row.signIn].consented
     /\ row.phase \in {"redeemed", "creating"} => row.identity \in Identities
SignInFits(row) == row.state # "consumed" => row.account = 0 /\ ~row.consented
RedeemedOnce(callbackers) ==
  \A c, d \in Callbackers : callbackers[c].phase # "idle" /\ callbackers[d].phase # "idle" /\ callbackers[c].signIn = callbackers[d].signIn => c = d

SessionFits(row, signIns) == row \in HostedRow /\ signIns[row.signIn].account = row.account
CodeFits(row, signIns) == row \in CodeRow /\ signIns[row.signIn].account = row.account /\ signIns[row.signIn].consented
CredentialFits(row, codes) ==
  row \in CredentialRow /\ row.code \in DOMAIN codes /\ row.account = codes[row.code].account /\ codes[row.code].consumed

SessionsInv == hosted \in Seq(HostedRow) /\ (\A s \in DOMAIN hosted : SessionFits(hosted[s], signIn))
               /\ \A r, s \in DOMAIN hosted : r # s => hosted[r].signIn # hosted[s].signIn
CodesInv == code \in Seq(CodeRow) /\ (\A k \in DOMAIN code : CodeFits(code[k], signIn))
            /\ \A k, l \in DOMAIN code : k # l => code[k].signIn # code[l].signIn
IssuedInv == credential \in Seq(CredentialRow) /\ (\A d \in DOMAIN credential : CredentialFits(credential[d], code))
             /\ \A d, e \in DOMAIN credential : d # e => credential[d].code # credential[e].code
HostedInv ==
  /\ signIn \in [SignIns -> SignInRow] /\ (\A t \in SignIns : SignInFits(signIn[t]))
  /\ account \in [Identities -> {"none", "active", "disabled"}]
  /\ callbacker \in [Callbackers -> CallbackerRow] /\ (\A c \in Callbackers : CallbackerFits(callbacker[c], signIn)) /\ RedeemedOnce(callbacker)
  /\ \A b \in Browsers : browser[b] # 0 => browser[b] \in DOMAIN hosted
  /\ browser \in [Browsers -> Nat] /\ SessionsInv /\ CodesInv /\ IssuedInv

\* What DisabledStaysOut says of one step.
KeptOut ==
  \A i \in Identities : account[i] = "disabled" =>
     /\ account'[i] = "disabled"
     /\ \A s \in DOMAIN hosted' \ DOMAIN hosted : hosted'[s].account # i
     /\ \A d \in DOMAIN credential' \ DOMAIN credential : credential'[d].account # i

LEMMA HostedInitial == SignInInit => HostedInv
<1> SUFFICES ASSUME SignInInit PROVE HostedInv
  OBVIOUS
<1>1. NoSignIn \in SignInRow /\ SignInFits(NoSignIn) /\ IdleCallbacker \in CallbackerRow /\ IdleCallbacker.phase = "idle"
  BY DEF NoSignIn, SignInRow, SignInFits, IdleCallbacker, CallbackerRow, NoOne
<1>2. signIn \in [SignIns -> SignInRow] /\ (\A t \in SignIns : SignInFits(signIn[t])) /\ account \in [Identities -> {"none", "active", "disabled"}]
  BY <1>1 DEF SignInInit
<1>3. callbacker \in [Callbackers -> CallbackerRow] /\ (\A c \in Callbackers : CallbackerFits(callbacker[c], signIn)) /\ RedeemedOnce(callbacker)
  BY <1>1 DEF SignInInit, CallbackerFits, RedeemedOnce
<1>4. (\A b \in Browsers : browser[b] = 0) /\ browser \in [Browsers -> Nat] /\ hosted = <<>> /\ code = <<>> /\ credential = <<>>
  BY DEF SignInInit
<1>5. SessionsInv /\ CodesInv /\ IssuedInv
  BY <1>4 DEF SessionsInv, CodesInv, IssuedInv
<1> QED
  BY <1>2, <1>3, <1>4, <1>5 DEF HostedInv

LEMMA NobodyNew == UNCHANGED <<account, hosted, credential>> => KeptOut
BY DEF KeptOut

\* A sign-in keeps the account and the consent it was given.
GoesOn(old, row) == SignInFits(row) /\ (old.account # 0 => row.account = old.account) /\ (old.consented => row.consented)

\* A sign-in moves on; what rests on it sees its account and its consent unchanged, or given for the first time.
LEMMA SignInMoves ==
  ASSUME HostedInv, NEW t \in SignIns, NEW row \in SignInRow, SetSignIn(t, row), GoesOn(signIn[t], row)
  PROVE  /\ signIn' \in [SignIns -> SignInRow] /\ signIn'[t] = row /\ (\A u \in SignIns : u # t => signIn'[u] = signIn[u])
         /\ (\A u \in SignIns : SignInFits(signIn'[u]))
         /\ (\A s \in DOMAIN hosted : SessionFits(hosted[s], signIn'))
         /\ (\A k \in DOMAIN code : CodeFits(code[k], signIn'))
         /\ \A c \in Callbackers : callbacker[c].phase # "idle" /\ callbacker[c].signIn # t => CallbackerFits(callbacker[c], signIn')
<1> DEFINE next == signIn'
<1>0. next = [signIn EXCEPT ![t] = row]
  BY DEF SetSignIn
<1> HIDE DEF next
<1>1. signIn \in [SignIns -> SignInRow] /\ (\A u \in SignIns : SignInFits(signIn[u]))
      /\ (\A s \in DOMAIN hosted : SessionFits(hosted[s], signIn)) /\ (\A k \in DOMAIN code : CodeFits(code[k], signIn))
      /\ (\A c \in Callbackers : CallbackerFits(callbacker[c], signIn))
  BY DEF HostedInv, SessionsInv, CodesInv
<1>2. next \in [SignIns -> SignInRow] /\ next[t] = row /\ (\A u \in SignIns : u # t => next[u] = signIn[u])
  BY <1>0, <1>1
<1>3. \A u \in SignIns : SignInFits(next[u])
  BY <1>1, <1>2 DEF GoesOn
<1>4. 0 \notin Identities
  BY SignInAssumption
<1>5. ASSUME NEW s \in DOMAIN hosted PROVE SessionFits(hosted[s], next)
  <2>1. hosted[s].account \in Identities /\ hosted[s].signIn \in SignIns /\ SessionFits(hosted[s], signIn)
    BY <1>1 DEF SessionFits, HostedRow
  <2> QED
    BY <1>2, <1>4, <2>1 DEF SessionFits, GoesOn
<1>6. ASSUME NEW k \in DOMAIN code PROVE CodeFits(code[k], next)
  <2>1. code[k].account \in Identities /\ code[k].signIn \in SignIns /\ CodeFits(code[k], signIn)
    BY <1>1 DEF CodeFits, CodeRow
  <2> QED
    BY <1>2, <1>4, <2>1 DEF CodeFits, GoesOn
<1>7. ASSUME NEW c \in Callbackers, callbacker[c].phase # "idle", callbacker[c].signIn # t PROVE CallbackerFits(callbacker[c], next)
  BY <1>1, <1>2, <1>7 DEF CallbackerFits
<1> QED
  BY <1>2, <1>3, <1>5, <1>6, <1>7 DEF next

\* One callback moves on without a session.
LEMMA CallbackerMoves ==
  ASSUME HostedInv, NEW c \in Callbackers, NEW row \in CallbackerRow, SetCallbacker(c, row), UNCHANGED <<signIn, account, hosted, browser, code, credential>>,
         row = IdleCallbacker \/ (callbacker[c].phase # "idle" /\ row.signIn = callbacker[c].signIn),
         row.phase \in {"redeemed", "creating"} => row.identity \in Identities
  PROVE  HostedInv' /\ KeptOut
<1>1. callbacker \in [Callbackers -> CallbackerRow] /\ (\A d \in Callbackers : CallbackerFits(callbacker[d], signIn)) /\ RedeemedOnce(callbacker)
  BY DEF HostedInv
<1>2. callbacker' = [callbacker EXCEPT ![c] = row]
  BY DEF SetCallbacker
<1>3. callbacker' \in [Callbackers -> CallbackerRow] /\ callbacker'[c] = row /\ \A d \in Callbackers : d # c => callbacker'[d] = callbacker[d]
  BY <1>1, <1>2
<1>4. row.phase # "idle" => callbacker[c].phase # "idle" /\ row.signIn = callbacker[c].signIn
  BY DEF IdleCallbacker
<1>5. CallbackerFits(row, signIn)
  BY <1>1, <1>4 DEF CallbackerFits
<1>6. \A d \in Callbackers : CallbackerFits(callbacker'[d], signIn)
  BY <1>1, <1>3, <1>5
<1>7. RedeemedOnce(callbacker')
  BY <1>1, <1>3, <1>4 DEF RedeemedOnce
<1>8. HostedInv'
  BY <1>3, <1>6, <1>7 DEF HostedInv, SessionsInv, CodesInv, IssuedInv
<1> QED
  BY <1>8, NobodyNew

LEMMA SignInStarts ==
  ASSUME HostedInv, NEW t \in SignIns, StartSignIn(t) \/ SignInExpires(t) \/ \E c \in Callbackers : BeginCallback(c, t)
  PROVE  HostedInv' /\ KeptOut
<1>1. signIn[t] \in SignInRow /\ SignInFits(signIn[t]) /\ callbacker \in [Callbackers -> CallbackerRow]
      /\ (\A d \in Callbackers : CallbackerFits(callbacker[d], signIn)) /\ RedeemedOnce(callbacker)
  BY DEF HostedInv
<1>2. ASSUME NEW row \in SignInRow, SetSignIn(t, row), SignInFits(row), row.account = signIn[t].account, row.consented = signIn[t].consented,
             signIn[t].state = "consumed" => row.state = "consumed", UNCHANGED <<account, callbacker, hosted, browser, code, credential>>
      PROVE  HostedInv' /\ KeptOut
  <2> DEFINE next == signIn'
  <2>1. next = [signIn EXCEPT ![t] = row]
    BY <1>2 DEF SetSignIn
  <2> HIDE DEF next
  <2>2. /\ next \in [SignIns -> SignInRow] /\ next[t] = row /\ (\A u \in SignIns : u # t => next[u] = signIn[u])
        /\ (\A u \in SignIns : SignInFits(next[u]))
        /\ (\A s \in DOMAIN hosted : SessionFits(hosted[s], next))
        /\ (\A k \in DOMAIN code : CodeFits(code[k], next))
        /\ \A c \in Callbackers : callbacker[c].phase # "idle" /\ callbacker[c].signIn # t => CallbackerFits(callbacker[c], next)
    <3>1. GoesOn(signIn[t], row)
      BY <1>2 DEF GoesOn
    <3> QED
      BY <1>2, <3>1, SignInMoves DEF next
  <2>3. ASSUME NEW c \in Callbackers PROVE CallbackerFits(callbacker[c], next)
    <3>1. CASE callbacker[c].signIn = t
      <4>1. CallbackerFits(callbacker[c], signIn)
        BY <1>1
      <4> QED
        BY <1>2, <2>2, <3>1, <4>1 DEF CallbackerFits
    <3>2. CASE callbacker[c].phase = "idle"
      BY <3>2 DEF CallbackerFits
    <3> QED
      BY <2>2, <3>1, <3>2
  <2> USE DEF next
  <2>4. HostedInv'
    BY <1>2, <2>2, <2>3 DEF HostedInv, SessionsInv, CodesInv, IssuedInv
  <2> QED
    BY <1>2, <2>4, NobodyNew
<1>3. CASE StartSignIn(t)
  <2> DEFINE row == [NoSignIn EXCEPT !.state = "started"]
  <2>1. row \in SignInRow /\ row.state = "started" /\ row.account = 0 /\ ~row.consented
    BY DEF NoSignIn, SignInRow, NoOne
  <2>2. SetSignIn(t, row) /\ signIn[t].state = "absent" /\ UNCHANGED <<account, callbacker, hosted, browser, code, credential>>
    BY <1>3 DEF StartSignIn
  <2> HIDE DEF row
  <2>3. signIn[t].account = 0 /\ signIn[t].consented = FALSE /\ row.consented = FALSE /\ SignInFits(row)
    <3>1. signIn[t].consented \in BOOLEAN /\ row.consented \in BOOLEAN
      BY <1>1, <2>1 DEF SignInRow
    <3>2. signIn[t].account = 0 /\ ~signIn[t].consented
      BY <1>1, <2>2 DEF SignInFits
    <3>3. SignInFits(row)
      BY <2>1 DEF SignInFits
    <3> QED
      BY <2>1, <3>1, <3>2, <3>3
  <2> QED
    BY <1>2, <2>1, <2>2, <2>3
<1>4. CASE SignInExpires(t)
  <2> DEFINE row == [signIn[t] EXCEPT !.expired = TRUE]
  <2>1. row \in SignInRow /\ row.state = signIn[t].state /\ row.account = signIn[t].account /\ row.consented = signIn[t].consented
    BY <1>1 DEF SignInRow
  <2>2. SetSignIn(t, row) /\ UNCHANGED <<account, callbacker, hosted, browser, code, credential>>
    BY <1>4 DEF SignInExpires
  <2> HIDE DEF row
  <2>3. SignInFits(row)
    BY <1>1, <2>1 DEF SignInFits
  <2> QED
    BY <1>2, <2>1, <2>2, <2>3
<1>5. ASSUME NEW c \in Callbackers, BeginCallback(c, t) PROVE HostedInv' /\ KeptOut
  <2> DEFINE row == [signIn[t] EXCEPT !.state = "consumed"]
             mine == [IdleCallbacker EXCEPT !.phase = "redeeming", !.signIn = t]
             next == signIn'
             callbackers == callbacker'
  <2>1. row \in SignInRow /\ row.state = "consumed" /\ row.account = signIn[t].account /\ row.consented = signIn[t].consented
    BY <1>1 DEF SignInRow
  <2>2. mine \in CallbackerRow /\ mine.phase = "redeeming" /\ mine.signIn = t
    BY DEF IdleCallbacker, CallbackerRow, NoOne
  <2>3. next = [signIn EXCEPT ![t] = row] /\ callbackers = [callbacker EXCEPT ![c] = mine] /\ signIn[t].state = "started" /\ callbacker[c].phase = "idle"
        /\ UNCHANGED <<account, hosted, browser, code, credential>>
    BY <1>5 DEF BeginCallback, SetSignIn, SetCallbacker
  <2> HIDE DEF row, mine, next, callbackers
  <2>4. SignInFits(row) /\ signIn[t].account = 0 /\ ~signIn[t].consented
    BY <1>1, <2>1, <2>3 DEF SignInFits
  <2>5. /\ next \in [SignIns -> SignInRow] /\ next[t] = row /\ (\A u \in SignIns : u # t => next[u] = signIn[u])
        /\ (\A u \in SignIns : SignInFits(next[u]))
        /\ (\A s \in DOMAIN hosted : SessionFits(hosted[s], next))
        /\ (\A k \in DOMAIN code : CodeFits(code[k], next))
        /\ \A d \in Callbackers : callbacker[d].phase # "idle" /\ callbacker[d].signIn # t => CallbackerFits(callbacker[d], next)
    <3>1. GoesOn(signIn[t], row)
      BY <2>1, <2>4 DEF GoesOn
    <3>2. SetSignIn(t, row)
      BY <2>3 DEF SetSignIn, next
    <3> QED
      BY <2>1, <3>1, <3>2, SignInMoves DEF next
  <2>6. callbackers \in [Callbackers -> CallbackerRow] /\ callbackers[c] = mine /\ \A d \in Callbackers : d # c => callbackers[d] = callbacker[d]
    BY <1>1, <2>2, <2>3
  <2>7. \A d \in Callbackers : callbacker[d].phase # "idle" => callbacker[d].signIn # t
    BY <1>1, <2>3 DEF CallbackerFits
  <2>8. ASSUME NEW d \in Callbackers PROVE CallbackerFits(callbackers[d], next)
    <3>1. CASE d = c
      BY <2>1, <2>2, <2>4, <2>5, <2>6, <3>1 DEF CallbackerFits
    <3>2. CASE d # c /\ callbacker[d].phase = "idle"
      BY <2>6, <3>2 DEF CallbackerFits
    <3> QED
      BY <2>5, <2>6, <2>7, <3>1, <3>2
  <2>9. RedeemedOnce(callbackers)
    BY <1>1, <2>2, <2>6, <2>7 DEF RedeemedOnce
  <2> USE DEF next, callbackers
  <2>10. HostedInv'
    <3>1. UNCHANGED <<account, hosted, browser, code, credential>>
      BY <2>3
    <3>2. SessionsInv' /\ CodesInv' /\ IssuedInv'
      BY <2>5, <3>1 DEF HostedInv, SessionsInv, CodesInv, IssuedInv
    <3>3. (\A b \in Browsers : browser'[b] # 0 => browser'[b] \in DOMAIN hosted') /\ browser' \in [Browsers -> Nat]
          /\ account' \in [Identities -> {"none", "active", "disabled"}]
      BY <3>1 DEF HostedInv
    <3> QED
      BY <2>5, <2>6, <2>8, <2>9, <3>2, <3>3 DEF HostedInv
  <2> QED
    BY <2>3, <2>10, NobodyNew
<1> QED
  BY <1>3, <1>4, <1>5

LEMMA RedeemingKeeps ==
  ASSUME HostedInv, NEW c \in Callbackers, (\E i \in Identities : Redeem(c, i)) \/ BreakCallback(c) \/ FindNobody(c)
  PROVE  HostedInv' /\ KeptOut
<1>1. callbacker[c] \in CallbackerRow /\ CallbackerFits(callbacker[c], signIn)
  BY DEF HostedInv
<1>2. CASE BreakCallback(c)
  <2>1. IdleCallbacker \in CallbackerRow /\ IdleCallbacker.phase = "idle"
    BY DEF IdleCallbacker, CallbackerRow, NoOne
  <2>2. SetCallbacker(c, IdleCallbacker) /\ UNCHANGED <<signIn, account, hosted, browser, code, credential>>
    BY <1>2 DEF BreakCallback
  <2> QED
    BY <2>1, <2>2, CallbackerMoves
<1>3. ASSUME NEW i \in Identities, Redeem(c, i) PROVE HostedInv' /\ KeptOut
  <2> DEFINE row == [callbacker[c] EXCEPT !.phase = "redeemed", !.identity = i]
  <2>1. row \in CallbackerRow /\ row.phase = "redeemed" /\ row.signIn = callbacker[c].signIn /\ row.identity = i
    BY <1>1 DEF CallbackerRow
  <2>2. SetCallbacker(c, row) /\ callbacker[c].phase # "idle" /\ UNCHANGED <<signIn, account, hosted, browser, code, credential>>
    BY <1>3 DEF Redeem
  <2> HIDE DEF row
  <2> QED
    BY <2>1, <2>2, CallbackerMoves
<1>4. CASE FindNobody(c)
  <2> DEFINE row == [callbacker[c] EXCEPT !.phase = "creating"]
  <2>1. row \in CallbackerRow /\ row.phase = "creating" /\ row.signIn = callbacker[c].signIn /\ row.identity = callbacker[c].identity
    BY <1>1 DEF CallbackerRow
  <2>2. SetCallbacker(c, row) /\ callbacker[c].phase = "redeemed" /\ UNCHANGED <<signIn, account, hosted, browser, code, credential>>
    BY <1>4 DEF FindNobody
  <2>3. callbacker[c].identity \in Identities
    BY <1>1, <2>2 DEF CallbackerFits
  <2> HIDE DEF row
  <2> QED
    BY <2>1, <2>2, <2>3, CallbackerMoves
<1> QED
  BY <1>2, <1>3, <1>4

\* A completed sign-in is worth one session, for an account in good order.
LEMMA HostedIssued ==
  ASSUME HostedInv, NEW c \in Callbackers, callbacker[c].phase \in {"redeemed", "creating"}, IssueHosted(c),
         account' \in [Identities -> {"none", "active", "disabled"}], account[callbacker[c].identity] # "disabled",
         \A i \in Identities : account[i] = "disabled" => account'[i] = "disabled", UNCHANGED <<browser, code, credential>>
  PROVE  HostedInv' /\ KeptOut
<1> DEFINE t == callbacker[c].signIn
           i == callbacker[c].identity
           row == [signIn[t] EXCEPT !.account = i]
           new == [account |-> i, signIn |-> t, state |-> "live"]
           signIns == signIn'
           callbackers == callbacker'
           sessionRows == hosted'
<1>1. /\ callbacker \in [Callbackers -> CallbackerRow] /\ (\A d \in Callbackers : CallbackerFits(callbacker[d], signIn)) /\ RedeemedOnce(callbacker)
      /\ hosted \in Seq(HostedRow) /\ (\A s \in DOMAIN hosted : SessionFits(hosted[s], signIn))
      /\ \A r, s \in DOMAIN hosted : r # s => hosted[r].signIn # hosted[s].signIn
  BY DEF HostedInv, SessionsInv
<1>2. t \in SignIns /\ i \in Identities /\ signIn[t].state = "consumed" /\ signIn[t].account = 0 /\ ~signIn[t].consented
  BY <1>1 DEF CallbackerFits
<1>3. signIn[t] \in SignInRow
  BY <1>2 DEF HostedInv
<1>4. row \in SignInRow /\ row.state = "consumed" /\ row.account = i /\ row.consented = signIn[t].consented
  BY <1>2, <1>3 DEF SignInRow
<1>5. new \in HostedRow /\ new.account = i /\ new.signIn = t
  BY <1>2 DEF HostedRow
<1>6. signIns = [signIn EXCEPT ![t] = row] /\ callbackers = [callbacker EXCEPT ![c] = IdleCallbacker] /\ sessionRows = Append(hosted, new)
  BY DEF IssueHosted, SetSignIn, SetCallbacker
<1> HIDE DEF t, i, row, new, signIns, callbackers, sessionRows
<1>7. GoesOn(signIn[t], row)
  BY <1>2, <1>4 DEF SignInFits, GoesOn
<1>8. /\ signIns \in [SignIns -> SignInRow] /\ signIns[t] = row /\ (\A u \in SignIns : u # t => signIns[u] = signIn[u])
      /\ (\A u \in SignIns : SignInFits(signIns[u]))
      /\ (\A s \in DOMAIN hosted : SessionFits(hosted[s], signIns))
      /\ (\A k \in DOMAIN code : CodeFits(code[k], signIns))
      /\ \A d \in Callbackers : callbacker[d].phase # "idle" /\ callbacker[d].signIn # t => CallbackerFits(callbacker[d], signIns)
  <2>1. SetSignIn(t, row)
    BY <1>6 DEF SetSignIn, signIns
  <2> QED
    BY <1>2, <1>4, <1>7, <2>1, SignInMoves DEF signIns
<1>9. IdleCallbacker \in CallbackerRow /\ IdleCallbacker.phase = "idle"
  BY DEF IdleCallbacker, CallbackerRow, NoOne
<1>10. callbackers \in [Callbackers -> CallbackerRow] /\ callbackers[c] = IdleCallbacker /\ \A d \in Callbackers : d # c => callbackers[d] = callbacker[d]
  BY <1>1, <1>6, <1>9
<1>11. \A d \in Callbackers : d # c /\ callbacker[d].phase # "idle" => callbacker[d].signIn # t
  BY <1>1 DEF RedeemedOnce, t
<1>12. ASSUME NEW d \in Callbackers PROVE CallbackerFits(callbackers[d], signIns)
  <2>1. CASE callbackers[d].phase = "idle"
    BY <2>1 DEF CallbackerFits
  <2>2. CASE callbackers[d].phase # "idle"
    <3>1. d # c /\ callbackers[d] = callbacker[d]
      BY <1>9, <1>10, <2>2
    <3> QED
      BY <1>8, <1>11, <2>2, <3>1
  <2> QED
    BY <2>1, <2>2
<1>13. RedeemedOnce(callbackers)
  BY <1>1, <1>9, <1>10 DEF RedeemedOnce
<1>14. /\ sessionRows \in Seq(HostedRow) /\ Len(sessionRows) = Len(hosted) + 1 /\ sessionRows[Len(sessionRows)] = new /\ (\A s \in DOMAIN hosted : sessionRows[s] = hosted[s])
       /\ \A s \in DOMAIN sessionRows : s \in DOMAIN hosted \/ s = Len(sessionRows)
  BY <1>1, <1>5, <1>6, RowAppended
<1>15. SessionFits(new, signIns)
  BY <1>4, <1>5, <1>8 DEF SessionFits
<1>16. \A s \in DOMAIN sessionRows : SessionFits(sessionRows[s], signIns)
  BY <1>8, <1>14, <1>15
<1>17. \A s \in DOMAIN hosted : hosted[s].signIn # t
  <2>1. \A s \in DOMAIN hosted : signIn[hosted[s].signIn].account \in Identities
    BY <1>1 DEF SessionFits, HostedRow
  <2> QED
    BY <1>2, <2>1, SignInAssumption
<1>18. \A r, s \in DOMAIN sessionRows : r # s => sessionRows[r].signIn # sessionRows[s].signIn
  BY <1>1, <1>5, <1>14, <1>17
<1>19. DOMAIN hosted \subseteq DOMAIN sessionRows
  BY <1>1, <1>14
<1> USE DEF signIns, callbackers, sessionRows
<1>20. HostedInv'
  BY <1>8, <1>10, <1>12, <1>13, <1>14, <1>16, <1>18, <1>19 DEF HostedInv, SessionsInv, CodesInv, IssuedInv
<1>21. KeptOut
  <2>1. \A s \in DOMAIN hosted' \ DOMAIN hosted : hosted'[s].account = i
    BY <1>5, <1>14
  <2> QED
    BY <2>1 DEF KeptOut, i
<1> QED
  BY <1>20, <1>21

LEMMA CompletingKeeps ==
  ASSUME HostedInv, NEW c \in Callbackers, CompleteKnown(c) \/ CompleteNew(c)
  PROVE  HostedInv' /\ KeptOut
<1> DEFINE i == callbacker[c].identity
<1>1. callbacker[c] \in CallbackerRow /\ CallbackerFits(callbacker[c], signIn) /\ account \in [Identities -> {"none", "active", "disabled"}]
  BY DEF HostedInv
<1>2. callbacker[c].phase \in {"redeemed", "creating"} /\ i \in Identities
  BY <1>1 DEF CompleteKnown, CompleteNew, CallbackerFits
<1>3. CASE SetCallbacker(c, IdleCallbacker) /\ UNCHANGED <<signIn, account, hosted, browser, code, credential>>
  <2>1. IdleCallbacker \in CallbackerRow /\ IdleCallbacker.phase = "idle"
    BY DEF IdleCallbacker, CallbackerRow, NoOne
  <2> QED
    BY <1>3, <2>1, CallbackerMoves
<1>4. CASE account[i] = "active" /\ IssueHosted(c) /\ UNCHANGED <<account, browser, code, credential>>
  BY <1>1, <1>2, <1>4, HostedIssued
<1>5. CASE IdentityFree(i) /\ account' = [account EXCEPT ![i] = "active"] /\ IssueHosted(c) /\ UNCHANGED <<browser, code, credential>>
  <2>1. account[i] = "none"
    BY <1>5 DEF IdentityFree
  <2>2. account' \in [Identities -> {"none", "active", "disabled"}] /\ \A j \in Identities : account[j] = "disabled" => account'[j] = "disabled"
    BY <1>1, <1>2, <1>5, <2>1
  <2> QED
    BY <1>2, <1>5, <2>1, <2>2, HostedIssued
<1> QED
  BY <1>3, <1>4, <1>5 DEF CompleteKnown, CompleteNew

\* A session only changes its state, a code is only used up or outlived, a credential only ends.
LEMMA SessionChanges ==
  ASSUME HostedInv, NEW s \in DOMAIN hosted, NEW row \in HostedRow, hosted' = [hosted EXCEPT ![s] = row],
         row.account = hosted[s].account, row.signIn = hosted[s].signIn
  PROVE  SessionsInv' \/ signIn' # signIn
<1> SUFFICES ASSUME signIn' = signIn PROVE SessionsInv'
  OBVIOUS
<1> DEFINE old == hosted
           next == hosted'
<1>1. /\ old \in Seq(HostedRow) /\ (\A r \in DOMAIN old : SessionFits(old[r], signIn))
      /\ \A q, r \in DOMAIN old : q # r => old[q].signIn # old[r].signIn
  BY DEF HostedInv, SessionsInv
<1>2. next = [old EXCEPT ![s] = row] /\ s \in DOMAIN old /\ row.account = old[s].account /\ row.signIn = old[s].signIn
  OBVIOUS
<1> HIDE DEF old, next
<1>3. next \in Seq(HostedRow) /\ DOMAIN next = DOMAIN old /\ next[s] = row /\ \A r \in DOMAIN old : r # s => next[r] = old[r]
  BY <1>1, <1>2
<1>4. SessionFits(row, signIn)
  BY <1>1, <1>2 DEF SessionFits
<1>5. \A r \in DOMAIN next : SessionFits(next[r], signIn)
  BY <1>1, <1>3, <1>4
<1>6. \A q, r \in DOMAIN next : q # r => next[q].signIn # next[r].signIn
  BY <1>1, <1>2, <1>3
<1> QED
  BY <1>3, <1>5, <1>6 DEF SessionsInv, next

LEMMA BrowsingKeeps ==
  ASSUME HostedInv, NEW b \in Browsers, (\E s \in DOMAIN hosted : Authenticate(b, s)) \/ HostedLogout(b)
  PROVE  HostedInv' /\ KeptOut
<1>1. browser \in [Browsers -> Nat] /\ (\A a \in Browsers : browser[a] # 0 => browser[a] \in DOMAIN hosted) /\ hosted \in Seq(HostedRow)
  BY DEF HostedInv, SessionsInv
<1>2. ASSUME NEW s \in DOMAIN hosted, Authenticate(b, s) PROVE HostedInv' /\ KeptOut
  <2>1. browser' = [browser EXCEPT ![b] = s] /\ UNCHANGED <<signIn, account, callbacker, hosted, code, credential>>
    BY <1>2 DEF Authenticate
  <2>2. s \in Nat
    BY <1>1
  <2>3. browser' \in [Browsers -> Nat] /\ \A a \in Browsers : browser'[a] # 0 => browser'[a] \in DOMAIN hosted
    BY <1>1, <2>1, <2>2
  <2>4. HostedInv'
    BY <2>1, <2>3 DEF HostedInv, SessionsInv, CodesInv, IssuedInv
  <2> QED
    BY <2>1, <2>4, NobodyNew
<1>3. CASE HostedLogout(b)
  <2> DEFINE s == browser[b]
             row == [hosted[s] EXCEPT !.state = "over"]
  <2>1. s \in DOMAIN hosted /\ browser' = [browser EXCEPT ![b] = 0] /\ UNCHANGED <<signIn, account, callbacker, code, credential>>
    BY <1>1, <1>3 DEF HostedLogout
  <2>2. hosted[s] \in HostedRow
    BY <1>1, <2>1
  <2>3. row \in HostedRow /\ row.account = hosted[s].account /\ row.signIn = hosted[s].signIn
    BY <2>2 DEF HostedRow
  <2>4. hosted' = [hosted EXCEPT ![s] = row]
    BY <1>3 DEF HostedLogout
  <2> HIDE DEF s, row
  <2>5. SessionsInv'
    BY <2>1, <2>3, <2>4, SessionChanges
  <2>6. DOMAIN hosted' = DOMAIN hosted
    BY <2>4
  <2>7. browser' \in [Browsers -> Nat] /\ \A a \in Browsers : browser'[a] # 0 => browser'[a] \in DOMAIN hosted'
    BY <1>1, <2>1, <2>6
  <2>8. HostedInv'
    BY <2>1, <2>5, <2>7 DEF HostedInv, CodesInv, IssuedInv
  <2>9. KeptOut
    BY <2>1, <2>6 DEF KeptOut
  <2> QED
    BY <2>8, <2>9
<1> QED
  BY <1>2, <1>3

LEMMA SignInEnds ==
  ASSUME HostedInv, \/ \E s \in DOMAIN hosted, state \in {"idle", "over"} : HostedEnds(s, state)
                    \/ \E d \in DOMAIN credential : CredentialEnds(d)
                    \/ \E i \in Identities : DisableIdentity(i)
  PROVE  HostedInv' /\ KeptOut
<1>1. ASSUME NEW s \in DOMAIN hosted, NEW state \in {"idle", "over"}, HostedEnds(s, state) PROVE HostedInv' /\ KeptOut
  <2> DEFINE row == [hosted[s] EXCEPT !.state = state]
  <2>1. hosted[s] \in HostedRow
    BY DEF HostedInv, SessionsInv
  <2>2. row \in HostedRow /\ row.account = hosted[s].account /\ row.signIn = hosted[s].signIn
    BY <2>1 DEF HostedRow
  <2>3. hosted' = [hosted EXCEPT ![s] = row] /\ UNCHANGED <<signIn, account, callbacker, browser, code, credential>>
    BY <1>1 DEF HostedEnds
  <2> HIDE DEF row
  <2>4. SessionsInv'
    BY <2>2, <2>3, SessionChanges
  <2>5. DOMAIN hosted' = DOMAIN hosted
    BY <2>3
  <2>6. HostedInv'
    BY <2>3, <2>4, <2>5 DEF HostedInv, CodesInv, IssuedInv
  <2>7. KeptOut
    BY <2>3, <2>5 DEF KeptOut
  <2> QED
    BY <2>6, <2>7
<1>2. ASSUME NEW d \in DOMAIN credential, CredentialEnds(d) PROVE HostedInv' /\ KeptOut
  <2> DEFINE old == credential
             row == [credential[d] EXCEPT !.live = FALSE]
             next == credential'
  <2>1. /\ old \in Seq(CredentialRow) /\ (\A e \in DOMAIN old : CredentialFits(old[e], code))
        /\ \A e, f \in DOMAIN old : e # f => old[e].code # old[f].code
    BY DEF HostedInv, IssuedInv
  <2>2. d \in DOMAIN old /\ old[d] \in CredentialRow
    BY <2>1
  <2>3. row \in CredentialRow /\ row.code = old[d].code /\ row.account = old[d].account
    BY <2>2 DEF CredentialRow
  <2>4. next = [old EXCEPT ![d] = row] /\ UNCHANGED <<signIn, account, callbacker, hosted, browser, code>>
    BY <1>2 DEF CredentialEnds
  <2> HIDE DEF old, row, next
  <2>5. next \in Seq(CredentialRow) /\ DOMAIN next = DOMAIN old /\ next[d] = row /\ \A e \in DOMAIN old : e # d => next[e] = old[e]
    BY <2>1, <2>2, <2>3, <2>4
  <2>6. CredentialFits(row, code)
    BY <2>1, <2>2, <2>3 DEF CredentialFits
  <2>7. \A e \in DOMAIN next : CredentialFits(next[e], code)
    BY <2>1, <2>5, <2>6
  <2>8. \A e, f \in DOMAIN next : e # f => next[e].code # next[f].code
    BY <2>1, <2>2, <2>3, <2>5
  <2> USE DEF old, next
  <2>9. IssuedInv'
    BY <2>4, <2>5, <2>7, <2>8 DEF IssuedInv
  <2>10. HostedInv'
    BY <2>4, <2>9 DEF HostedInv, SessionsInv, CodesInv
  <2>11. KeptOut
    BY <2>4, <2>5 DEF KeptOut
  <2> QED
    BY <2>10, <2>11
<1>3. ASSUME NEW i \in Identities, DisableIdentity(i) PROVE HostedInv' /\ KeptOut
  <2>1. account[i] = "active" /\ account' = [account EXCEPT ![i] = "disabled"] /\ UNCHANGED <<signIn, callbacker, hosted, browser, code, credential>>
    BY <1>3 DEF DisableIdentity
  <2>2. account' \in [Identities -> {"none", "active", "disabled"}] /\ \A j \in Identities : account[j] = "disabled" => account'[j] = "disabled"
    BY <2>1 DEF HostedInv
  <2>3. HostedInv'
    BY <2>1, <2>2 DEF HostedInv, SessionsInv, CodesInv, IssuedInv
  <2>4. KeptOut
    BY <2>1, <2>2 DEF KeptOut
  <2> QED
    BY <2>3, <2>4
<1> QED
  BY <1>1, <1>2, <1>3

\* Consent gives the one code of a sign-in that is the browser's own.
LEMMA ConsentKeeps ==
  ASSUME HostedInv, NEW b \in Browsers, NEW t \in SignIns, GiveConsent(b, t)
  PROVE  HostedInv' /\ KeptOut
<1>1. /\ signIn \in [SignIns -> SignInRow] /\ (\A c \in Callbackers : CallbackerFits(callbacker[c], signIn))
      /\ code \in Seq(CodeRow) /\ (\A k \in DOMAIN code : CodeFits(code[k], signIn)) /\ (\A k, l \in DOMAIN code : k # l => code[k].signIn # code[l].signIn)
      /\ credential \in Seq(CredentialRow) /\ (\A d \in DOMAIN credential : CredentialFits(credential[d], code))
      /\ \A d, e \in DOMAIN credential : d # e => credential[d].code # credential[e].code
  BY DEF HostedInv, CodesInv, IssuedInv
<1>2. browser[b] \in DOMAIN hosted /\ browser' = [browser EXCEPT ![b] = 0] /\ UNCHANGED <<account, callbacker, hosted, credential>>
  BY DEF GiveConsent, HostedInv
<1>3. browser' \in [Browsers -> Nat] /\ \A a \in Browsers : browser'[a] # 0 => browser'[a] \in DOMAIN hosted'
  BY <1>2 DEF HostedInv
<1>4. KeptOut
  BY <1>2, NobodyNew
<1>5. CASE UNCHANGED <<code, signIn>>
  <2>1. HostedInv'
    BY <1>2, <1>3, <1>5 DEF HostedInv, SessionsInv, CodesInv, IssuedInv
  <2> QED
    BY <1>4, <2>1
<1>6. CASE MayConsent(b, t) /\ code' = Append(code, [signIn |-> t, account |-> hosted[browser[b]].account, consumed |-> FALSE, expired |-> FALSE])
           /\ SetSignIn(t, [signIn[t] EXCEPT !.consented = TRUE])
  <2> DEFINE i == hosted[browser[b]].account
             new == [signIn |-> t, account |-> i, consumed |-> FALSE, expired |-> FALSE]
             row == [signIn[t] EXCEPT !.consented = TRUE]
             old == code
             codes == code'
             signIns == signIn'
  <2>1. i \in Identities
    <3>1. hosted[browser[b]] \in HostedRow
      BY <1>2 DEF HostedInv, SessionsInv
    <3> QED
      BY <3>1 DEF HostedRow
  <2>2. signIn[t].account = i /\ ~signIn[t].consented /\ signIn[t].state = "consumed"
    BY <1>6 DEF MayConsent, OwnSignIn
  <2>3. row \in SignInRow /\ row.consented /\ row.account = signIn[t].account /\ row.state = signIn[t].state
    BY <1>1 DEF SignInRow
  <2>4. new \in CodeRow /\ new.signIn = t /\ new.account = i
    BY <2>1 DEF CodeRow
  <2>5. SetSignIn(t, row) /\ codes = Append(old, new)
    BY <1>6
  <2> HIDE DEF i, new, row, old, codes, signIns
  <2>6. GoesOn(signIn[t], row)
    BY <2>2, <2>3 DEF GoesOn, SignInFits
  <2>7. /\ signIns \in [SignIns -> SignInRow] /\ signIns[t] = row /\ (\A u \in SignIns : u # t => signIns[u] = signIn[u])
        /\ (\A u \in SignIns : SignInFits(signIns[u]))
        /\ (\A s \in DOMAIN hosted : SessionFits(hosted[s], signIns))
        /\ (\A k \in DOMAIN code : CodeFits(code[k], signIns))
        /\ \A c \in Callbackers : callbacker[c].phase # "idle" /\ callbacker[c].signIn # t => CallbackerFits(callbacker[c], signIns)
    BY <2>3, <2>5, <2>6, SignInMoves DEF signIns
  <2>8. \A c \in Callbackers : callbacker[c].phase # "idle" => callbacker[c].signIn # t
    BY <1>1, <2>1, <2>2, SignInAssumption DEF CallbackerFits
  <2>9. \A c \in Callbackers : CallbackerFits(callbacker[c], signIns)
    <3> SUFFICES ASSUME NEW c \in Callbackers PROVE CallbackerFits(callbacker[c], signIns)
      OBVIOUS
    <3>1. CASE callbacker[c].phase = "idle"
      BY <3>1 DEF CallbackerFits
    <3> QED
      BY <2>7, <2>8, <3>1
  <2>10. /\ codes \in Seq(CodeRow) /\ Len(codes) = Len(old) + 1 /\ codes[Len(codes)] = new /\ (\A k \in DOMAIN old : codes[k] = old[k])
         /\ \A k \in DOMAIN codes : k \in DOMAIN old \/ k = Len(codes)
    BY <1>1, <2>4, <2>5, RowAppended DEF old
  <2>11. CodeFits(new, signIns)
    BY <2>2, <2>3, <2>4, <2>7 DEF CodeFits
  <2>12. \A k \in DOMAIN codes : CodeFits(codes[k], signIns)
    BY <2>7, <2>10, <2>11 DEF old
  <2>13. \A k \in DOMAIN old : old[k].signIn # t
    BY <1>1, <2>2 DEF CodeFits, old
  <2>14. \A k, l \in DOMAIN codes : k # l => codes[k].signIn # codes[l].signIn
    BY <1>1, <2>4, <2>10, <2>13 DEF old
  <2>15. DOMAIN old \subseteq DOMAIN codes
    BY <1>1, <2>10 DEF old
  <2>16. \A d \in DOMAIN credential : CredentialFits(credential[d], codes)
    BY <1>1, <2>10, <2>15 DEF CredentialFits, old
  <2> USE DEF codes, signIns
  <2>17. SessionsInv' /\ CodesInv' /\ IssuedInv'
    <3>1. SessionsInv'
      BY <1>2, <2>7 DEF HostedInv, SessionsInv
    <3>2. CodesInv'
      BY <2>10, <2>12, <2>14 DEF CodesInv
    <3>3. IssuedInv'
      BY <1>1, <1>2, <2>16 DEF IssuedInv
    <3> QED
      BY <3>1, <3>2, <3>3
  <2>18. callbacker' \in [Callbackers -> CallbackerRow] /\ RedeemedOnce(callbacker') /\ account' \in [Identities -> {"none", "active", "disabled"}]
    BY <1>2 DEF HostedInv
  <2>19. HostedInv'
    BY <1>2, <1>3, <2>7, <2>9, <2>17, <2>18 DEF HostedInv
  <2> QED
    BY <1>4, <2>19
<1> QED
  BY <1>5, <1>6 DEF GiveConsent

\* An exchange gives the one credential of a code whose account is in good order.
LEMMA CodeKeeps ==
  ASSUME HostedInv, NEW k \in DOMAIN code, CodeExpires(k) \/ Exchange(k)
  PROVE  HostedInv' /\ KeptOut
<1> DEFINE old == code
           codes == code'
<1>1. /\ old \in Seq(CodeRow) /\ (\A l \in DOMAIN old : CodeFits(old[l], signIn)) /\ (\A l, m \in DOMAIN old : l # m => old[l].signIn # old[m].signIn)
      /\ credential \in Seq(CredentialRow) /\ (\A d \in DOMAIN credential : CredentialFits(credential[d], old))
      /\ \A d, e \in DOMAIN credential : d # e => credential[d].code # credential[e].code
  BY DEF HostedInv, CodesInv, IssuedInv
<1>2. old[k] \in CodeRow /\ k \in DOMAIN old
  BY <1>1
<1>3. ASSUME NEW row \in CodeRow, codes = [old EXCEPT ![k] = row], row.signIn = old[k].signIn, row.account = old[k].account, old[k].consumed => row.consumed
      PROVE  /\ codes \in Seq(CodeRow) /\ DOMAIN codes = DOMAIN old /\ codes[k] = row
             /\ (\A l \in DOMAIN codes : CodeFits(codes[l], signIn)) /\ (\A l, m \in DOMAIN codes : l # m => codes[l].signIn # codes[m].signIn)
             /\ \A d \in DOMAIN credential : CredentialFits(credential[d], codes)
  <2> HIDE DEF old, codes
  <2>1. codes \in Seq(CodeRow) /\ DOMAIN codes = DOMAIN old /\ codes[k] = row /\ \A l \in DOMAIN old : l # k => codes[l] = old[l]
    BY <1>1, <1>2, <1>3
  <2>2. CodeFits(row, signIn)
    BY <1>1, <1>2, <1>3 DEF CodeFits
  <2>3. \A l \in DOMAIN codes : CodeFits(codes[l], signIn)
    BY <1>1, <2>1, <2>2
  <2>4. \A l, m \in DOMAIN codes : l # m => codes[l].signIn # codes[m].signIn
    BY <1>1, <1>2, <1>3, <2>1
  <2>5. \A d \in DOMAIN credential : CredentialFits(credential[d], codes)
    BY <1>1, <1>3, <2>1 DEF CredentialFits
  <2> QED
    BY <2>1, <2>3, <2>4, <2>5
<1> HIDE DEF old, codes
<1>4. CASE CodeExpires(k)
  <2> DEFINE row == [old[k] EXCEPT !.expired = TRUE]
  <2>1. row \in CodeRow /\ row.signIn = old[k].signIn /\ row.account = old[k].account /\ row.consumed = old[k].consumed
    BY <1>2 DEF CodeRow
  <2>2. codes = [old EXCEPT ![k] = row] /\ UNCHANGED <<signIn, account, callbacker, hosted, browser, credential>>
    BY <1>4 DEF CodeExpires, old, codes
  <2> HIDE DEF row
  <2>3. /\ codes \in Seq(CodeRow)
        /\ (\A l \in DOMAIN codes : CodeFits(codes[l], signIn)) /\ (\A l, m \in DOMAIN codes : l # m => codes[l].signIn # codes[m].signIn)
        /\ \A d \in DOMAIN credential : CredentialFits(credential[d], codes)
    BY <1>3, <2>1, <2>2
  <2>4. CodesInv' /\ IssuedInv'
    BY <1>1, <2>2, <2>3 DEF CodesInv, IssuedInv, codes
  <2>5. HostedInv'
    BY <2>2, <2>4 DEF HostedInv, SessionsInv
  <2> QED
    BY <2>2, <2>5, NobodyNew
<1>5. CASE Exchange(k)
  <2> DEFINE row == [old[k] EXCEPT !.consumed = TRUE]
             new == [code |-> k, account |-> old[k].account, live |-> TRUE]
             given == credential
             next == credential'
  <2>1. row \in CodeRow /\ row.signIn = old[k].signIn /\ row.account = old[k].account /\ row.consumed
    BY <1>2 DEF CodeRow
  <2>2. k \in Nat \ {0} /\ old[k].account \in Identities
    BY <1>1, <1>2 DEF CodeRow
  <2>3. new \in CredentialRow /\ new.code = k /\ new.account = old[k].account
    BY <2>2 DEF CredentialRow
  <2>4. codes = [old EXCEPT ![k] = row] /\ next = Append(given, new) /\ ~old[k].consumed /\ account[old[k].account] = "active"
        /\ UNCHANGED <<signIn, account, callbacker, hosted, browser>>
    BY <1>5 DEF Exchange, InGoodOrder, old, codes
  <2> HIDE DEF row, new, given, next
  <2>5. /\ codes \in Seq(CodeRow) /\ DOMAIN codes = DOMAIN old /\ codes[k] = row
        /\ (\A l \in DOMAIN codes : CodeFits(codes[l], signIn)) /\ (\A l, m \in DOMAIN codes : l # m => codes[l].signIn # codes[m].signIn)
        /\ \A d \in DOMAIN given : CredentialFits(given[d], codes)
    BY <1>3, <2>1, <2>4 DEF given
  <2>6. /\ next \in Seq(CredentialRow) /\ Len(next) = Len(given) + 1 /\ next[Len(next)] = new /\ (\A d \in DOMAIN given : next[d] = given[d])
        /\ \A d \in DOMAIN next : d \in DOMAIN given \/ d = Len(next)
    BY <1>1, <2>3, <2>4, RowAppended DEF given
  <2>7. CredentialFits(new, codes)
    BY <1>2, <2>1, <2>3, <2>5 DEF CredentialFits
  <2>8. \A d \in DOMAIN next : CredentialFits(next[d], codes)
    BY <2>5, <2>6, <2>7
  <2>9. \A d \in DOMAIN given : given[d].code # k
    BY <1>1, <2>4 DEF CredentialFits, given
  <2>10. \A d, e \in DOMAIN next : d # e => next[d].code # next[e].code
    BY <1>1, <2>3, <2>6, <2>9 DEF given
  <2>11. CodesInv' /\ IssuedInv'
    BY <2>4, <2>5, <2>6, <2>8, <2>10 DEF CodesInv, IssuedInv, codes, next
  <2>12. HostedInv'
    BY <2>4, <2>11 DEF HostedInv, SessionsInv
  <2>13. KeptOut
    <3>1. \A d \in DOMAIN next \ DOMAIN given : next[d].account = old[k].account
      BY <2>3, <2>6
    <3> QED
      BY <2>4, <3>1 DEF KeptOut, next, given
  <2> QED
    BY <2>12, <2>13
<1> QED
  BY <1>4, <1>5

LEMMA HostedKeeps == HostedInv /\ HostedNext => HostedInv' /\ KeptOut
BY SignInStarts, RedeemingKeeps, CompletingKeeps, BrowsingKeeps, ConsentKeeps, SignInEnds, CodeKeeps DEF HostedNext

LEMMA SignInStep == LocalInv /\ HostedInv /\ [SignInNext]_signInVars => (LocalInv /\ HostedInv)' /\ KeptOut
<1> SUFFICES ASSUME LocalInv, HostedInv, [SignInNext]_signInVars PROVE (LocalInv /\ HostedInv)' /\ KeptOut
  OBVIOUS
<1>1. ASSUME UNCHANGED localVars PROVE LocalInv'
  BY <1>1 DEF localVars, LocalInv, SetUp, Hashing
<1>2. ASSUME UNCHANGED hostedVars PROVE HostedInv' /\ KeptOut
  BY <1>2, NobodyNew DEF hostedVars, HostedInv, SessionsInv, CodesInv, IssuedInv
<1> QED
  BY <1>1, <1>2, LocalKeeps, HostedKeeps DEF SignInNext, signInVars

\* Local sessions and hosted ones, at the level of the rows that give them.
THEOREM SignInInvariant == SignInSpec => [](LocalInv /\ HostedInv)
<1>1. SignInInit => LocalInv /\ HostedInv
  BY LocalInitial, HostedInitial
<1>2. LocalInv /\ HostedInv /\ [SignInNext]_signInVars => (LocalInv /\ HostedInv)'
  BY SignInStep
<1> QED
  BY <1>1, <1>2, PTL DEF SignInSpec

THEOREM SignInSoundHolds == SignInSpec => []SignInSound
<1>1. LocalInv => AdministratorOnce
  BY DEF LocalInv, LocalFits, Counted, IssuedTo, AdministratorOnce
<1>2. HostedInv => SignInOnce
  BY DEF HostedInv, SessionsInv, CodesInv, IssuedInv, SessionFits, CodeFits, CredentialFits, SignInOnce
<1>3. LocalInv /\ HostedInv => SignInSound
  BY <1>1, <1>2 DEF SignInSound
<1> QED
  BY <1>3, SignInInvariant, PTL

THEOREM DisabledStaysOutHolds == SignInSpec => DisabledStaysOut
<1>1. LocalInv /\ HostedInv /\ [SignInNext]_signInVars => KeptOut
  BY SignInStep
<1> QED
  BY <1>1, SignInInvariant, PTL DEF SignInSpec, DisabledStaysOut, KeptOut

-----------------------------------------------------------------------------
(* Several parts.                                                          *)

\* No credential outlives what it rests on, of whichever part it is.
THEOREM CredentialsSoundHolds == AccountSpec /\ SignInSpec => []CredentialsSound
<1>1. AccountSound /\ SignInSound => CredentialsSound
  BY DEF CredentialsSound
<1> QED
  BY <1>1, AccountSoundHolds, SignInSoundHolds, PTL

\* One usable session per connection, and a loop within its limits whose transcript is paired.
THEOREM CallPathSoundHolds == GatewaySpec /\ LoopSpec => []CallPathSound
<1>1. GatewaySound /\ LoopSound => CallPathSound
  BY DEF CallPathSound
<1> QED
  BY <1>1, GatewaySoundHolds, LoopSoundHolds, PTL

\* What is installed is complete and pinned, a ticket is handed over once, and no host
\* outlives its Attempt.
THEOREM InstalledSoundHolds == PackageSpec /\ AcquisitionSpec /\ HostSpec => []InstalledSound
<1>1. PackageSound /\ AcquisitionSound /\ HostSound => InstalledSound
  BY DEF InstalledSound
<1> QED
  BY <1>1, PackageSoundHolds, AcquisitionSoundHolds, HostSoundHolds, PTL

\* What each part decided stays decided, whatever its callers, messages and
\* processes deliver afterwards.
THEOREM DecidedStaysHolds ==
  AccessSpec /\ PackageSpec /\ DeliverySpec /\ AccountSpec /\ MarketplaceSpec /\ SignInSpec /\ WorkerSpec => DecidedStays
BY DecisionFinalHolds, PackagePinnedHolds, DeliveryFencedHolds, DisconnectFinalHolds, ReleaseFixedHolds,
   DisabledStaysOutHolds, BeatMonotoneHolds DEF DecidedStays
=============================================================================
