----------------------------- MODULE Deliveries -----------------------------
(***************************************************************************)
(* Triggers that are delivered to: webhooks, which a sender calls and may  *)
(* repeat, and internal events, which a publisher fans out to the owner's  *)
(* matching triggers one transaction at a time.  They target one Agent     *)
(* Instance.                                                               *)
(*                                                                         *)
(* A delivery is authenticated and parsed against one read of the          *)
(* definition and materialized in a later transaction; the record of the   *)
(* request holds what the first read.  A payload stands for its digest and *)
(* for what parsing and composing the Run's input say of it.  The network  *)
(* may lose a request or a reply, and the sender then repeats the call.    *)
(***************************************************************************)
EXTENDS Naturals, Sequences, FiniteSets

CONSTANTS
    Hooks,         \* webhook trigger ids
    Listeners,     \* event trigger ids
    EventKeys,          \* idempotency keys, event ids
    Payloads,      \* payloads
    Malformed,     \* payloads the parser refuses
    Oversize,      \* payloads whose composed Run input is too long
    Senders,       \* webhook callers
    PublishCalls,    \* callers of publish
    MaxEventFanout,\* MAX_EVENT_FANOUT
    QueueLimit,    \* the instance's queue capacity
    MaxSecret,     \* bound: rotations
    MaxOccurrences \* bound: occurrences

NoKey == 0
ASSUME DeliveryAssumption ==
    /\ Malformed \subseteq Payloads /\ Oversize \subseteq Payloads /\ NoKey \notin EventKeys
    /\ Listeners \subseteq Nat /\ QueueLimit \in Nat /\ MaxSecret \in Nat \ {0}

VARIABLES
    trigger,       \* trigger id -> definition row
    target,        \* the Agent Instance: enabled, definition, jobs queued
    occurrences,   \* trigger_occurrences, in order
    senders,       \* sender -> the call it has in flight
    publishers     \* publisher -> the publication it is in

deliveryVars == <<trigger, target, occurrences, senders, publishers>>
clients == <<senders, publishers>>
NoDelivery == [phase |-> "idle", hook |-> 0, secret |-> 0, key |-> NoKey, payload |-> 0, definition |-> 0, reply |-> "none"]
NoPublication == [phase |-> "idle", event |-> NoKey, payload |-> 0, todo |-> {}, definition |-> 0, outcomes |-> {}]
Accepted == {"materialized", "skipped", "duplicate"}

DeliveryInit ==
    /\ trigger = [t \in Hooks \union Listeners |-> [live |-> TRUE, enabled |-> TRUE, secret |-> 1]]
    /\ target = [enabled |-> TRUE, definition |-> 1, queued |-> 0]
    /\ occurrences = <<>>
    /\ senders = [s \in Senders |-> NoDelivery]
    /\ publishers = [p \in PublishCalls |-> NoPublication]

OccurrencesOf(t) == {i \in DOMAIN occurrences : occurrences[i].trigger = t}
\* Mutant: a key names one payload, so the payload is part of the identity.
ExistingWithPayload(t, key, payload) ==
    {i \in OccurrencesOf(t) : key # NoKey /\ occurrences[i].key = key /\ occurrences[i].payload = payload}
Existing(t, key, payload) == {i \in OccurrencesOf(t) : key # NoKey /\ occurrences[i].key = key}

-----------------------------------------------------------------------------
\* What one transaction writes.

Record(t, key, payload, status) ==
    /\ Len(occurrences) < MaxOccurrences
    /\ occurrences' = Append(occurrences, [trigger |-> t, key |-> key, payload |-> payload, status |-> status])
    /\ target' = IF status = "run_created" THEN [target EXCEPT !.queued = @ + 1] ELSE target
Keep == UNCHANGED <<occurrences, target>>
\* insert_run_and_job: a full queue rolls everything back, a disabled agent
\* and an input that is too long are recorded as skipped.
TooLong(payload) == payload \in Oversize
Status(payload) == IF TooLong(payload) \/ ~target.enabled THEN "skipped" ELSE "run_created"
Full(payload) == Status(payload) = "run_created" /\ target.queued >= QueueLimit

-----------------------------------------------------------------------------
\* A webhook call.

Call(s, t, secret, key, payload) ==
    /\ senders[s].phase = "idle"
    /\ senders' = [senders EXCEPT ![s] = [NoDelivery EXCEPT !.phase = "sent", !.hook = t, !.secret = secret,
                                                            !.key = key, !.payload = payload]]
    /\ UNCHANGED <<trigger, target, occurrences, publishers>>
Replied(s, reply) == senders' = [senders EXCEPT ![s].phase = "replied", ![s].reply = reply]
Unparsable(payload) == payload \in Malformed
\* receive, up to the transaction: locator, secret, media type, payload, key,
\* and the Agent Definition the instance resolves to now.
Receive(s) ==
    LET d == senders[s] IN
    /\ d.phase = "sent"
    /\ \/ /\ ~trigger[d.hook].live \/ trigger[d.hook].secret # d.secret
          /\ Replied(s, "unauthenticated")
       \/ /\ trigger[d.hook].live /\ trigger[d.hook].secret = d.secret /\ Unparsable(d.payload)
          /\ Replied(s, "malformed_payload")
       \/ /\ trigger[d.hook].live /\ trigger[d.hook].secret = d.secret /\ ~Unparsable(d.payload)
          /\ senders' = [senders EXCEPT ![s].phase = "command", ![s].definition = target.definition]
    /\ UNCHANGED <<trigger, target, occurrences, publishers>>

\* Mutant: the secret was checked when the call came in.
StillLive(d) == trigger[d.hook].live
StillAuthentic(d) == trigger[d.hook].live /\ trigger[d.hook].secret = d.secret
RefusedDisabled(d) == ~trigger[d.hook].enabled /\ Existing(d.hook, d.key, d.payload) = {}
MaterializeWebhook(s) ==
    LET d == senders[s]  known == Existing(d.hook, d.key, d.payload) IN
    /\ d.phase = "command"
    /\ \/ ~StillAuthentic(d) /\ Replied(s, "unauthenticated") /\ Keep
       \/ StillAuthentic(d) /\ RefusedDisabled(d) /\ Replied(s, "disabled") /\ Keep
       \/ /\ StillAuthentic(d) /\ ~RefusedDisabled(d) /\ known # {} /\ Keep
          /\ Replied(s, IF \E i \in known : occurrences[i].payload = d.payload THEN "duplicate" ELSE "conflict")
       \/ /\ StillAuthentic(d) /\ ~RefusedDisabled(d) /\ known = {} /\ target.definition # d.definition
          /\ Replied(s, "temporarily_unavailable") /\ Keep
       \/ /\ StillAuthentic(d) /\ ~RefusedDisabled(d) /\ known = {} /\ target.definition = d.definition
          /\ \/ Full(d.payload) /\ Replied(s, "capacity_exceeded") /\ Keep
             \/ /\ ~Full(d.payload) /\ Record(d.hook, d.key, d.payload, Status(d.payload))
                /\ Replied(s, IF Status(d.payload) = "skipped" THEN "skipped" ELSE "materialized")
    /\ UNCHANGED <<trigger, publishers>>
\* Contention, or the store is away: nothing was written.
MaterializeFails(s) ==
    /\ senders[s].phase = "command" /\ Replied(s, "temporarily_unavailable") /\ Keep
    /\ UNCHANGED <<trigger, publishers>>
\* The sender has its reply and may call again; or the request or the reply is
\* lost, or the API stops, before or after its transaction.
EndCall(s) ==
    /\ senders[s].phase # "idle" /\ senders' = [senders EXCEPT ![s] = NoDelivery]
    /\ UNCHANGED <<trigger, target, occurrences, publishers>>

-----------------------------------------------------------------------------
\* publish: discovery, then one transaction per candidate in id order.

Matches == {t \in Listeners : trigger[t].live /\ trigger[t].enabled}
Publish(p, event, payload) ==
    /\ publishers[p].phase = "idle" /\ Cardinality(Matches) <= MaxEventFanout
    /\ publishers' = [publishers EXCEPT ![p] =
          [phase |-> "publishing", event |-> event, payload |-> payload, todo |-> Matches,
           definition |-> target.definition, outcomes |-> {}]]
    /\ UNCHANGED <<trigger, target, occurrences, senders>>
First(p) == CHOOSE t \in publishers[p].todo : \A u \in publishers[p].todo : t <= u
DeliveryOutcome(p, kind) ==
    publishers' = [publishers EXCEPT ![p].todo = @ \ {First(p)},
                                     ![p].outcomes = @ \union {[trigger |-> First(p), kind |-> kind]}]
\* Mutant: whoever holds the id has had this event.
AnyHolderIsDuplicate(i, payload) == TRUE
SameEvent(i, payload) == occurrences[i].payload = payload
\* A trigger deleted since the discovery raises TriggerNotFound out of publish:
\* the candidates behind it are not tried.
MaterializeEvent(p) ==
    LET q == publishers[p]  t == First(p)  known == Existing(t, q.event, q.payload) IN
    /\ q.phase = "publishing" /\ q.todo # {}
    /\ \/ ~trigger[t].live /\ publishers' = [publishers EXCEPT ![p] = NoPublication] /\ Keep
       \/ /\ trigger[t].live /\ known # {} /\ Keep
          /\ DeliveryOutcome(p, IF \E i \in known : SameEvent(i, q.payload) THEN "duplicate" ELSE "event_id_conflict")
       \/ /\ trigger[t].live /\ known = {} /\ (~trigger[t].enabled \/ target.definition # q.definition)
          /\ DeliveryOutcome(p, "stale") /\ Keep
       \/ /\ trigger[t].live /\ known = {} /\ trigger[t].enabled /\ target.definition = q.definition
          /\ \/ Full(q.payload) /\ DeliveryOutcome(p, "capacity_deferred") /\ Keep
             \/ ~Full(q.payload) /\ Record(t, q.event, q.payload, Status(q.payload)) /\ DeliveryOutcome(p, Status(q.payload))
    /\ UNCHANGED <<trigger, senders>>
CompletePublication(p) ==
    /\ publishers[p].phase = "publishing" /\ publishers[p].todo = {}
    /\ publishers' = [publishers EXCEPT ![p].phase = "complete"]
    /\ UNCHANGED <<trigger, target, occurrences, senders>>
\* The store goes away or the process stops before the last candidate, or the
\* caller has its report: it may publish the same event again.
EndPublication(p) ==
    /\ publishers[p].phase = "complete" \/ publishers[p].todo # {}
    /\ publishers' = [publishers EXCEPT ![p] = NoPublication]
    /\ UNCHANGED <<trigger, target, occurrences, senders>>

-----------------------------------------------------------------------------
\* The owner, and the engine the Runs go to.

RotateSecret(t) ==
    /\ t \in Hooks /\ trigger[t].live /\ trigger[t].secret < MaxSecret
    /\ trigger' = [trigger EXCEPT ![t].secret = @ + 1]
    /\ UNCHANGED <<target, occurrences, clients>>
ToggleTrigger(t) ==
    /\ trigger[t].live /\ trigger' = [trigger EXCEPT ![t].enabled = ~@]
    /\ UNCHANGED <<target, occurrences, clients>>
\* Mutant: history is not looked for.
DeletableAlways(t) == TRUE
Deletable(t) == OccurrencesOf(t) = {}
DeleteTrigger(t) ==
    /\ trigger[t].live /\ Deletable(t) /\ trigger' = [trigger EXCEPT ![t].live = FALSE]
    /\ UNCHANGED <<target, occurrences, clients>>
ToggleTarget ==
    /\ target' = [target EXCEPT !.enabled = ~@]
    /\ UNCHANGED <<trigger, occurrences, clients>>
RebindTarget ==
    /\ target' = [target EXCEPT !.definition = 3 - @]
    /\ UNCHANGED <<trigger, occurrences, clients>>
SettleJob ==
    /\ target.queued > 0 /\ target' = [target EXCEPT !.queued = @ - 1]
    /\ UNCHANGED <<trigger, occurrences, clients>>

Delivering(s) == Receive(s) \/ MaterializeWebhook(s) \/ MaterializeFails(s) \/ EndCall(s)
Publishing(p) == MaterializeEvent(p) \/ CompletePublication(p) \/ EndPublication(p)
DeliveryNext ==
    \/ \E s \in Senders, t \in Hooks, secret \in 1..MaxSecret, key \in EventKeys \union {NoKey}, payload \in Payloads :
          Call(s, t, secret, key, payload)
    \/ \E s \in Senders : Delivering(s)
    \/ \E p \in PublishCalls, event \in EventKeys, payload \in Payloads : Publish(p, event, payload)
    \/ \E p \in PublishCalls : Publishing(p)
    \/ \E t \in Hooks \union Listeners : RotateSecret(t) \/ ToggleTrigger(t) \/ DeleteTrigger(t)
    \/ ToggleTarget \/ RebindTarget \/ SettleJob
DeliverySpec == DeliveryInit /\ [][DeliveryNext]_deliveryVars

-----------------------------------------------------------------------------
\* Properties.

DeliveryTypeOK ==
    /\ trigger \in [Hooks \union Listeners -> [live : BOOLEAN, enabled : BOOLEAN, secret : 1..MaxSecret]]
    /\ target \in [enabled : BOOLEAN, definition : 1..2, queued : 0..QueueLimit]
    /\ \A i \in DOMAIN occurrences : occurrences[i] \in
          [trigger : Hooks \union Listeners, key : EventKeys \union {NoKey}, payload : Payloads,
           status : {"run_created", "skipped"}]
    /\ \A s \in Senders : senders[s].phase \in {"idle", "sent", "command", "replied"}
    /\ \A p \in PublishCalls : publishers[p].phase \in {"idle", "publishing", "complete"}

\* However often a delivery or an event is repeated, by however many callers at
\* once, a key yields one occurrence per trigger, and so at most one Run.
DeliveredOnce ==
    \A i, j \in DOMAIN occurrences :
        occurrences[i].trigger = occurrences[j].trigger /\ occurrences[i].key = occurrences[j].key
            /\ occurrences[i].key # NoKey => i = j

\* What a caller was told is what happened: an accepted call has a durable
\* occurrence with its payload, a conflict names a key another payload holds,
\* and the trigger those rows belong to is still there.
ToldTheTruth ==
    /\ \A s \in Senders : senders[s].reply \in Accepted =>
          \E i \in OccurrencesOf(senders[s].hook) :
              occurrences[i].key = senders[s].key /\ occurrences[i].payload = senders[s].payload
    /\ \A s \in Senders : senders[s].reply = "conflict" =>
          \E i \in OccurrencesOf(senders[s].hook) :
              occurrences[i].key = senders[s].key /\ occurrences[i].payload # senders[s].payload
    /\ \A i \in DOMAIN occurrences : trigger[occurrences[i].trigger].live

\* A complete publication accounts for every trigger it discovered, and each
\* one it calls created, skipped or a duplicate has this event's occurrence.
PublicationAccounted ==
    \A p \in PublishCalls : publishers[p].phase = "complete" =>
        \A o \in publishers[p].outcomes : o.kind \in {"run_created", "skipped", "duplicate"} =>
            \E i \in OccurrencesOf(o.trigger) :
                occurrences[i].key = publishers[p].event /\ occurrences[i].payload = publishers[p].payload

\* The parts together.
DeliverySound == DeliveryTypeOK /\ DeliveredOnce /\ ToldTheTruth /\ PublicationAccounted

\* An occurrence never changes, and none is written for a webhook call whose
\* secret was rotated away before the transaction, however early it was checked.
DeliveryFenced == [][
    /\ Len(occurrences') >= Len(occurrences) /\ SubSeq(occurrences', 1, Len(occurrences)) = occurrences
    /\ \A s \in Senders : senders[s].phase = "command" /\ senders'[s].reply \in Accepted =>
          senders[s].secret = trigger[senders[s].hook].secret
  ]_deliveryVars

-----------------------------------------------------------------------------
\* The promise of DeliveryInbox.  A call is a client of its one hook, a
\* publication of the triggers it discovered; what is neither an occurrence nor
\* a reason found in one is a refusal.

Meaning(reply) ==
    CASE reply = "materialized" -> "run_created"
      [] reply \in {"run_created", "skipped", "duplicate"} -> reply
      [] reply \in {"conflict", "event_id_conflict"} -> "conflict"
      [] OTHER -> "refused"

CallOf(d) ==
    [to |-> IF d.phase = "idle" THEN {} ELSE {d.hook}, key |-> d.key, payload |-> d.payload,
     answers |-> IF d.reply = "none" THEN {} ELSE {[trigger |-> d.hook, kind |-> Meaning(d.reply)]}]
PublicationOf(q) ==
    [to |-> q.todo \union {o.trigger : o \in q.outcomes}, key |-> q.event, payload |-> q.payload,
     answers |-> {[trigger |-> o.trigger, kind |-> Meaning(o.kind)] : o \in q.outcomes}]

DeliveryClients == ({"sender"} \X Senders) \union ({"publisher"} \X PublishCalls)
callBar ==
    [c \in DeliveryClients |-> IF c[1] = "sender" THEN CallOf(senders[c[2]]) ELSE PublicationOf(publishers[c[2]])]

Inbox == INSTANCE DeliveryInbox WITH
    inbox <- occurrences, call <- callBar, Clients <- DeliveryClients, Triggers <- Hooks \union Listeners,
    Keys <- EventKeys, Outcomes <- {"run_created", "skipped"}

\* Each call and each trigger of a publication takes effect at most once and at
\* one moment, with an answer that says what was done then, however the reads
\* before the transaction, the owner and other calls interleave.
ImplementsInbox == Inbox!Spec
=============================================================================
