-------------------------- MODULE DeliveriesProofs --------------------------
(***************************************************************************)
(* Proofs about Deliveries, for any number of triggers, keys, payloads,    *)
(* senders and publishers: a delivery identity has one occurrence, every   *)
(* caller was told what happened, and no occurrence changes or is written  *)
(* for a secret that was rotated away.                                     *)
(*                                                                         *)
(* What a caller was told is only stated once it has its reply; the        *)
(* invariant says it from the moment the reply is written, and of every    *)
(* outcome of a publication still under way.                               *)
(*                                                                         *)
(* The last part proves the refinement: what one transaction decides and   *)
(* writes is one step of DeliveryInbox, and every other step is the asking *)
(* or the forgetting of one client, or nothing a client can see.           *)
(***************************************************************************)
EXTENDS Deliveries, SequenceTheorems, WellFoundedInduction, TLAPS

Occurrence == [trigger : Hooks \union Listeners, key : EventKeys \union {NoKey}, payload : Payloads,
               status : {"run_created", "skipped"}]
Replies == {"none", "unauthenticated", "malformed_payload", "disabled", "duplicate", "conflict",
            "temporarily_unavailable", "capacity_exceeded", "skipped", "materialized"}
Kinds == {"duplicate", "event_id_conflict", "stale", "capacity_deferred", "run_created", "skipped"}

Delivery == [phase : {"idle", "sent", "command", "replied"}, hook : Hooks \union {0}, secret : Nat,
             key : EventKeys \union {NoKey}, payload : Payloads \union {0}, definition : 0..2, reply : Replies]
Publication == [phase : {"idle", "publishing", "complete"}, event : EventKeys \union {NoKey},
                payload : Payloads \union {0}, todo : SUBSET Listeners, definition : 0..2,
                outcomes : SUBSET [trigger : Listeners, kind : Kinds]]

DeliveryShapes ==
  /\ trigger \in [Hooks \union Listeners -> [live : BOOLEAN, enabled : BOOLEAN, secret : 1..MaxSecret]]
  /\ target \in [enabled : BOOLEAN, definition : 1..2, queued : 0..QueueLimit]
  /\ occurrences \in Seq(Occurrence)
  /\ senders \in [Senders -> Delivery]
  /\ publishers \in [PublishCalls -> Publication]

\* A request under way names a trigger, a payload and, for events, a key.
InFlight ==
  /\ \A s \in Senders : senders[s].phase # "idle" => senders[s].hook \in Hooks /\ senders[s].payload \in Payloads
  /\ \A s \in Senders : senders[s].reply # "none" => senders[s].phase = "replied"
  /\ \A p \in PublishCalls : publishers[p].phase # "idle" =>
        publishers[p].event \in EventKeys /\ publishers[p].payload \in Payloads
  /\ \A p \in PublishCalls : publishers[p].phase = "idle" => publishers[p].todo = {} /\ publishers[p].outcomes = {}

\* Every outcome of a publication is true from the moment it is noted.
OutcomesTrue ==
  \A p \in PublishCalls : \A o \in publishers[p].outcomes : o.kind \in {"run_created", "skipped", "duplicate"} =>
     \E i \in OccurrencesOf(o.trigger) :
        occurrences[i].key = publishers[p].event /\ occurrences[i].payload = publishers[p].payload

DInv == DeliveryShapes /\ InFlight /\ OutcomesTrue /\ DeliveredOnce /\ ToldTheTruth

-----------------------------------------------------------------------------
\* A set of ids has a least one: the candidate publish tries next exists.
LEMMA LeastId ==
  ASSUME NEW S, S \subseteq Nat, S # {}
  PROVE  \E x \in S : \A y \in S : x <= y
<1>1. PICK x \in S : \A y \in S : ~(<<y, x>> \in OpToRel(<, Nat))
  BY NatLessThanWellFounded, WFMin, Zenon
<1>2. \A y \in S : ~(y < x)
  BY <1>1 DEF OpToRel
<1> QED
  BY <1>2

LEMMA FirstIsCandidate ==
  ASSUME DeliveryShapes, NEW p \in PublishCalls, publishers[p].todo # {}
  PROVE  First(p) \in publishers[p].todo /\ First(p) \in Listeners
<1>1. publishers[p].todo \subseteq Listeners
  BY DEF DeliveryShapes, Publication
<1>2. \E t \in publishers[p].todo : \A u \in publishers[p].todo : t <= u
  BY <1>1, LeastId, DeliveryAssumption
<1> QED
  BY <1>1, <1>2 DEF First

\* Occurrences are only appended, and one for a key its trigger has no occurrence
\* of keeps the identities apart.
LEMMA RecordKeeps ==
  ASSUME DInv, NEW t \in Hooks \union Listeners, NEW key \in EventKeys \union {NoKey}, NEW payload \in Payloads,
         trigger[t].live, Existing(t, key, payload) = {}, ~Full(payload),
         Record(t, key, payload, Status(payload)), trigger' = trigger
  PROVE  /\ occurrences' \in Seq(Occurrence)
         /\ target' \in [enabled : BOOLEAN, definition : 1..2, queued : 0..QueueLimit]
         /\ Len(occurrences') = Len(occurrences) + 1
         /\ \A i \in DOMAIN occurrences : i \in DOMAIN occurrences' /\ occurrences'[i] = occurrences[i]
         /\ Len(occurrences') \in DOMAIN occurrences'
         /\ occurrences'[Len(occurrences')] = [trigger |-> t, key |-> key, payload |-> payload, status |-> Status(payload)]
         /\ DeliveredOnce'
         /\ \A i \in DOMAIN occurrences' : trigger'[occurrences'[i].trigger].live
<1> DEFINE e == [trigger |-> t, key |-> key, payload |-> payload, status |-> Status(payload)]
<1>1. e \in Occurrence
  BY DEF Occurrence, Status
<1>2. occurrences' = Append(occurrences, e) /\ occurrences \in Seq(Occurrence)
  BY DEF Record, DInv, DeliveryShapes
<1>3. /\ occurrences' \in Seq(Occurrence) /\ Len(occurrences') = Len(occurrences) + 1
      /\ DOMAIN occurrences = 1..Len(occurrences) /\ DOMAIN occurrences' = 1..(Len(occurrences) + 1)
      /\ \A i \in 1..Len(occurrences) : occurrences'[i] = occurrences[i]
      /\ occurrences'[Len(occurrences) + 1] = e /\ Len(occurrences) \in Nat
  <2> HIDE DEF e
  <2> QED BY <1>1, <1>2
<1>4. target' \in [enabled : BOOLEAN, definition : 1..2, queued : 0..QueueLimit]
  <2>1. target \in [enabled : BOOLEAN, definition : 1..2, queued : 0..QueueLimit] /\ QueueLimit \in Nat
    BY DeliveryAssumption DEF DInv, DeliveryShapes
  <2>2. Status(payload) = "run_created" => target.queued < QueueLimit
    BY <2>1 DEF Full
  <2>3. target' = IF Status(payload) = "run_created" THEN [target EXCEPT !.queued = @ + 1] ELSE target
    BY DEF Record
  <2> QED
    BY <2>1, <2>2, <2>3
<1>5. \A i \in DOMAIN occurrences : key # NoKey => ~(occurrences[i].trigger = t /\ occurrences[i].key = key)
  BY DEF Existing, OccurrencesOf
<1>6. DeliveredOnce'
  BY <1>3, <1>5 DEF DInv, DeliveredOnce
<1>7. \A i \in DOMAIN occurrences' : trigger'[occurrences'[i].trigger].live
  BY <1>3 DEF DInv, ToldTheTruth
<1> QED
  BY <1>3, <1>4, <1>6, <1>7

-----------------------------------------------------------------------------
LEMMA DeliveryInitInv == DeliveryInit => DInv
<1> SUFFICES ASSUME DeliveryInit PROVE DInv
  OBVIOUS
<1>1. DeliveryShapes
  BY DeliveryAssumption DEF DeliveryInit, DeliveryShapes, Delivery, Publication, NoDelivery, NoPublication, NoKey, Replies, Kinds, Occurrence
<1>2. InFlight /\ OutcomesTrue
  BY DEF DeliveryInit, InFlight, OutcomesTrue, NoDelivery, NoPublication
<1>3. DeliveredOnce /\ ToldTheTruth
  BY DEF DeliveryInit, DeliveredOnce, ToldTheTruth, NoDelivery, Accepted
<1> QED
  BY <1>1, <1>2, <1>3 DEF DInv

\* A sender's own record changes and nothing else: enough to look at that record.
LEMMA SenderStep ==
  ASSUME DInv, NEW s \in Senders, NEW d,
         senders' = [senders EXCEPT ![s] = d],
         d \in Delivery,
         d.phase # "idle" => d.hook \in Hooks /\ d.payload \in Payloads,
         d.reply # "none" => d.phase = "replied",
         d.reply \in Accepted =>
           \E i \in OccurrencesOf(d.hook) : occurrences[i].key = d.key /\ occurrences[i].payload = d.payload,
         d.reply = "conflict" =>
           \E i \in OccurrencesOf(d.hook) : occurrences[i].key = d.key /\ occurrences[i].payload # d.payload,
         UNCHANGED <<trigger, target, occurrences, publishers>>
  PROVE  DInv'
<1>1. /\ DOMAIN senders = Senders /\ senders'[s] = d
      /\ \A q \in Senders : q # s => senders'[q] = senders[q]
  BY DEF DInv, DeliveryShapes
<1>2. DeliveryShapes'
  BY DEF DInv, DeliveryShapes
<1>3. InFlight'
  BY <1>1 DEF DInv, InFlight
<1>4. OutcomesTrue' /\ DeliveredOnce'
  BY DEF DInv, OutcomesTrue, DeliveredOnce, OccurrencesOf
<1>5. ToldTheTruth'
  <2>1. \A q \in Senders : senders'[q].reply \in Accepted =>
           \E i \in OccurrencesOf(senders'[q].hook) :
              occurrences[i].key = senders'[q].key /\ occurrences[i].payload = senders'[q].payload
    BY <1>1 DEF DInv, ToldTheTruth
  <2>2. \A q \in Senders : senders'[q].reply = "conflict" =>
           \E i \in OccurrencesOf(senders'[q].hook) :
              occurrences[i].key = senders'[q].key /\ occurrences[i].payload # senders'[q].payload
    BY <1>1 DEF DInv, ToldTheTruth
  <2> QED
    BY <2>1, <2>2 DEF DInv, ToldTheTruth, OccurrencesOf
<1> QED
  BY <1>2, <1>3, <1>4, <1>5 DEF DInv

LEMMA PublisherStep ==
  ASSUME DInv, NEW p \in PublishCalls, NEW q,
         publishers' = [publishers EXCEPT ![p] = q],
         q \in Publication,
         q.phase # "idle" => q.event \in EventKeys /\ q.payload \in Payloads,
         q.phase = "idle" => q.todo = {} /\ q.outcomes = {},
         \A o \in q.outcomes : o.kind \in {"run_created", "skipped", "duplicate"} =>
           \E i \in OccurrencesOf(o.trigger) : occurrences[i].key = q.event /\ occurrences[i].payload = q.payload,
         UNCHANGED <<trigger, target, occurrences, senders>>
  PROVE  DInv'
<1>1. /\ DOMAIN publishers = PublishCalls /\ publishers'[p] = q
      /\ \A r \in PublishCalls : r # p => publishers'[r] = publishers[r]
  BY DEF DInv, DeliveryShapes
<1>2. DeliveryShapes'
  BY DEF DInv, DeliveryShapes
<1>3. InFlight'
  BY <1>1 DEF DInv, InFlight
<1>4. OutcomesTrue'
  BY <1>1 DEF DInv, OutcomesTrue, OccurrencesOf
<1>5. DeliveredOnce' /\ ToldTheTruth'
  BY DEF DInv, DeliveredOnce, ToldTheTruth, OccurrencesOf
<1> QED
  BY <1>2, <1>3, <1>4, <1>5 DEF DInv

\* What a reply changes.
LEMMA ReplyFacts ==
  ASSUME DeliveryShapes, NEW s \in Senders, NEW reply \in Replies, Replied(s, reply)
  PROVE  /\ \A q \in Senders : q # s => senders'[q] = senders[q]
         /\ senders'[s].hook = senders[s].hook /\ senders'[s].key = senders[s].key
         /\ senders'[s].payload = senders[s].payload
         /\ senders'[s].phase = "replied" /\ senders'[s].reply = reply
         /\ senders' \in [Senders -> Delivery]
         /\ senders' = [senders EXCEPT ![s] = senders'[s]]
<1> DEFINE r == [senders[s] EXCEPT !.phase = "replied", !.reply = reply]
<1>1. senders \in [Senders -> Delivery] /\ senders[s] \in Delivery
  BY DEF DeliveryShapes
<1>2. senders' = [senders EXCEPT ![s] = r]
  BY <1>1 DEF Replied
<1>3. /\ r.hook = senders[s].hook /\ r.key = senders[s].key /\ r.payload = senders[s].payload
      /\ r.phase = "replied" /\ r.reply = reply /\ r \in Delivery
  BY <1>1 DEF Delivery
<1> HIDE DEF r
<1> QED
  BY <1>1, <1>2, <1>3

\* What an outcome changes.
LEMMA OutcomeFacts ==
  ASSUME DeliveryShapes, NEW p \in PublishCalls, NEW kind \in Kinds, First(p) \in Listeners, DeliveryOutcome(p, kind)
  PROVE  /\ \A r \in PublishCalls : r # p => publishers'[r] = publishers[r]
         /\ publishers'[p].event = publishers[p].event /\ publishers'[p].payload = publishers[p].payload
         /\ publishers'[p].phase = publishers[p].phase
         /\ publishers'[p].outcomes = publishers[p].outcomes \union {[trigger |-> First(p), kind |-> kind]}
         /\ publishers' \in [PublishCalls -> Publication]
         /\ publishers' = [publishers EXCEPT ![p] = publishers'[p]]
<1> DEFINE t == First(p)
<1> DEFINE o == [trigger |-> t, kind |-> kind]
<1> HIDE DEF t
<1> DEFINE q == [publishers[p] EXCEPT !.todo = publishers[p].todo \ {t}, !.outcomes = publishers[p].outcomes \union {o}]
<1>1. publishers \in [PublishCalls -> Publication] /\ publishers[p] \in Publication /\ t \in Listeners
  BY DEF DeliveryShapes, t
<1>2. o \in [trigger : Listeners, kind : Kinds]
  BY <1>1
<1> HIDE DEF o
<1>3. publishers' = [publishers EXCEPT ![p] = q]
  BY <1>1 DEF DeliveryOutcome, t, o
<1>4. /\ q.event = publishers[p].event /\ q.payload = publishers[p].payload /\ q.phase = publishers[p].phase
      /\ q.outcomes = publishers[p].outcomes \union {o}
  BY <1>1 DEF Publication
<1>5. q \in Publication
  BY <1>1, <1>2 DEF Publication
<1> HIDE DEF q
<1> QED
  BY <1>1, <1>3, <1>4, <1>5 DEF o, t

\* An accepted webhook call: its occurrence and its reply in one transaction.
LEMMA WebhookRecorded ==
  ASSUME DInv, NEW s \in Senders, senders[s].phase = "command", StillAuthentic(senders[s]),
         Existing(senders[s].hook, senders[s].key, senders[s].payload) = {}, ~Full(senders[s].payload),
         Record(senders[s].hook, senders[s].key, senders[s].payload, Status(senders[s].payload)),
         Replied(s, IF Status(senders[s].payload) = "skipped" THEN "skipped" ELSE "materialized"),
         UNCHANGED <<trigger, publishers>>
  PROVE  DInv'
<1> DEFINE d == senders[s]
<1>1. d.hook \in Hooks /\ d.payload \in Payloads /\ d.key \in EventKeys \union {NoKey} /\ trigger[d.hook].live
  BY DEF DInv, DeliveryShapes, Delivery, InFlight, StillAuthentic
<1>2. /\ occurrences' \in Seq(Occurrence)
      /\ target' \in [enabled : BOOLEAN, definition : 1..2, queued : 0..QueueLimit]
      /\ \A i \in DOMAIN occurrences : i \in DOMAIN occurrences' /\ occurrences'[i] = occurrences[i]
      /\ Len(occurrences') \in DOMAIN occurrences'
      /\ occurrences'[Len(occurrences')] =
           [trigger |-> d.hook, key |-> d.key, payload |-> d.payload, status |-> Status(d.payload)]
      /\ DeliveredOnce'
      /\ \A i \in DOMAIN occurrences' : trigger'[occurrences'[i].trigger].live
  BY <1>1, RecordKeeps
<1>3. /\ \A q \in Senders : q # s => senders'[q] = senders[q]
      /\ senders'[s].hook = d.hook /\ senders'[s].key = d.key /\ senders'[s].payload = d.payload
      /\ senders'[s].phase = "replied" /\ senders'[s].reply \in {"skipped", "materialized"}
      /\ senders' \in [Senders -> Delivery]
  <2>1. (IF Status(d.payload) = "skipped" THEN "skipped" ELSE "materialized") \in Replies
    BY DEF Replies
  <2> QED
    BY <2>1, ReplyFacts DEF DInv
<1>4. DeliveryShapes'
  BY <1>2, <1>3 DEF DInv, DeliveryShapes
<1>5. InFlight'
  BY <1>1, <1>3 DEF DInv, InFlight
<1>6. OutcomesTrue'
  BY <1>2 DEF DInv, OutcomesTrue, OccurrencesOf
<1>7. ToldTheTruth'
  <2>1. ASSUME NEW q \in Senders, senders'[q].reply \in Accepted
        PROVE  \E i \in DOMAIN occurrences' : occurrences'[i].trigger = senders'[q].hook /\
                 occurrences'[i].key = senders'[q].key /\ occurrences'[i].payload = senders'[q].payload
    <3>1. CASE q = s
      BY <3>1, <1>2, <1>3 DEF OccurrencesOf
    <3>2. CASE q # s
      BY <3>2, <2>1, <1>2, <1>3 DEF OccurrencesOf, DInv, ToldTheTruth
    <3> QED
      BY <3>1, <3>2
  <2>2. ASSUME NEW q \in Senders, senders'[q].reply = "conflict"
        PROVE  \E i \in DOMAIN occurrences' : occurrences'[i].trigger = senders'[q].hook /\
                 occurrences'[i].key = senders'[q].key /\ occurrences'[i].payload # senders'[q].payload
    <3>1. q # s /\ senders'[q] = senders[q]
      BY <2>2, <1>3
    <3> QED
      BY <3>1, <2>2, <1>2 DEF OccurrencesOf, DInv, ToldTheTruth
  <2> QED
    BY <2>1, <2>2, <1>2 DEF ToldTheTruth, OccurrencesOf
<1> QED
  BY <1>2, <1>4, <1>5, <1>6, <1>7 DEF DInv

\* An event's occurrence and its outcome in one transaction.
LEMMA EventRecorded ==
  ASSUME DInv, NEW p \in PublishCalls, publishers[p].phase = "publishing", publishers[p].todo # {},
         trigger[First(p)].live, Existing(First(p), publishers[p].event, publishers[p].payload) = {},
         ~Full(publishers[p].payload),
         Record(First(p), publishers[p].event, publishers[p].payload, Status(publishers[p].payload)),
         DeliveryOutcome(p, Status(publishers[p].payload)),
         UNCHANGED <<trigger, senders>>
  PROVE  DInv'
<1> DEFINE q == publishers[p]
<1> DEFINE t == First(p)
<1>1. q.event \in EventKeys \union {NoKey} /\ q.payload \in Payloads /\ t \in Listeners
  BY FirstIsCandidate DEF DInv, InFlight
<1>2. /\ occurrences' \in Seq(Occurrence)
      /\ target' \in [enabled : BOOLEAN, definition : 1..2, queued : 0..QueueLimit]
      /\ \A i \in DOMAIN occurrences : i \in DOMAIN occurrences' /\ occurrences'[i] = occurrences[i]
      /\ Len(occurrences') \in DOMAIN occurrences'
      /\ occurrences'[Len(occurrences')] =
           [trigger |-> t, key |-> q.event, payload |-> q.payload, status |-> Status(q.payload)]
      /\ DeliveredOnce'
      /\ \A i \in DOMAIN occurrences' : trigger'[occurrences'[i].trigger].live
  <2> HIDE DEF t
  <2> QED BY <1>1, RecordKeeps DEF t
<1>3. Status(q.payload) \in Kinds
  BY DEF Status, Kinds
<1>4. /\ \A r \in PublishCalls : r # p => publishers'[r] = publishers[r]
      /\ publishers'[p].event = q.event /\ publishers'[p].payload = q.payload /\ publishers'[p].phase = q.phase
      /\ publishers'[p].outcomes = q.outcomes \union {[trigger |-> t, kind |-> Status(q.payload)]}
      /\ publishers' \in [PublishCalls -> Publication]
  BY <1>1, <1>3, OutcomeFacts DEF DInv
<1>5. DeliveryShapes'
  BY <1>2, <1>4 DEF DInv, DeliveryShapes
<1>6. InFlight'
  BY <1>1, <1>4 DEF DInv, InFlight
<1>7. OutcomesTrue'
  <2> SUFFICES ASSUME NEW r \in PublishCalls, NEW o \in publishers'[r].outcomes,
                      o.kind \in {"run_created", "skipped", "duplicate"}
               PROVE  \E i \in DOMAIN occurrences' : occurrences'[i].trigger = o.trigger /\
                        occurrences'[i].key = publishers'[r].event /\ occurrences'[i].payload = publishers'[r].payload
    BY DEF OutcomesTrue, OccurrencesOf
  <2>1. CASE r = p /\ o = [trigger |-> t, kind |-> Status(q.payload)]
    BY <2>1, <1>2, <1>4 DEF OccurrencesOf
  <2>2. CASE o \in publishers[r].outcomes
    <3>1. PICK i \in OccurrencesOf(o.trigger) :
             occurrences[i].key = publishers[r].event /\ occurrences[i].payload = publishers[r].payload
      BY <2>2 DEF DInv, OutcomesTrue
    <3>2. publishers'[r].event = publishers[r].event /\ publishers'[r].payload = publishers[r].payload
      BY <1>4
    <3> QED
      BY <3>1, <3>2, <1>2 DEF OccurrencesOf
  <2> QED
    BY <2>1, <2>2, <1>4
<1>8. ToldTheTruth'
  BY <1>2 DEF ToldTheTruth, OccurrencesOf, DInv
<1> QED
  BY <1>2, <1>5, <1>6, <1>7, <1>8 DEF DInv

-----------------------------------------------------------------------------
\* One lemma per operation.

LEMMA CallKeeps ==
  ASSUME DInv, NEW s \in Senders, NEW t \in Hooks, NEW secret \in 1..MaxSecret,
         NEW key \in EventKeys \union {NoKey}, NEW payload \in Payloads, Call(s, t, secret, key, payload)
  PROVE  DInv'
<1> DEFINE d == [NoDelivery EXCEPT !.phase = "sent", !.hook = t, !.secret = secret, !.key = key, !.payload = payload]
<1>1. NoDelivery \in Delivery /\ NoDelivery.reply = "none"
  BY DEF NoDelivery, Delivery, Replies, NoKey
<1>3. d \in Delivery /\ d.phase = "sent" /\ d.hook = t /\ d.payload = payload /\ d.reply = "none"
  <2>1. secret \in Nat
    BY DeliveryAssumption
  <2>2. d \in Delivery
    BY <1>1, <2>1 DEF Delivery
  <2>3. d.phase = "sent" /\ d.hook = t /\ d.payload = payload /\ d.reply = NoDelivery.reply
    BY <1>1 DEF Delivery
  <2> HIDE DEF d
  <2> QED BY <1>1, <2>2, <2>3
<1>2. senders' = [senders EXCEPT ![s] = d] /\ UNCHANGED <<trigger, target, occurrences, publishers>>
  BY DEF Call
<1> HIDE DEF d
<1> QED
  BY <1>2, <1>3, SenderStep DEF Accepted

\* A refusal is written to the caller's record only.
LEMMA RefusalKeeps ==
  ASSUME DInv, NEW s \in Senders, senders[s].phase # "idle", NEW reply \in Replies \ (Accepted \union {"conflict"}),
         Replied(s, reply), UNCHANGED <<trigger, target, occurrences, publishers>>
  PROVE  DInv'
<1>1. /\ senders' = [senders EXCEPT ![s] = senders'[s]] /\ senders'[s] \in Delivery
      /\ senders'[s].hook = senders[s].hook /\ senders'[s].payload = senders[s].payload
      /\ senders'[s].phase = "replied" /\ senders'[s].reply = reply
  BY ReplyFacts DEF DInv
<1>2. senders[s].hook \in Hooks /\ senders[s].payload \in Payloads
  BY DEF DInv, InFlight
<1> QED
  BY <1>1, <1>2, SenderStep

LEMMA ReceiveKeeps ==
  ASSUME DInv, NEW s \in Senders, Receive(s)
  PROVE  DInv'
<1>1. senders[s].phase = "sent" /\ UNCHANGED <<trigger, target, occurrences, publishers>>
  BY DEF Receive
<1>2. CASE Replied(s, "unauthenticated")
  BY <1>1, <1>2, RefusalKeeps DEF Replies, Accepted
<1>3. CASE Replied(s, "malformed_payload")
  BY <1>1, <1>3, RefusalKeeps DEF Replies, Accepted
<1>4. CASE senders' = [senders EXCEPT ![s].phase = "command", ![s].definition = target.definition]
  <2> DEFINE d == [senders[s] EXCEPT !.phase = "command", !.definition = target.definition]
  <2>1. senders \in [Senders -> Delivery] /\ senders[s] \in Delivery /\ target.definition \in 0..2
    BY DEF DInv, DeliveryShapes
  <2>2. senders' = [senders EXCEPT ![s] = d]
    BY <2>1, <1>4
  <2>3. /\ d \in Delivery /\ d.phase = "command" /\ d.hook = senders[s].hook
        /\ d.payload = senders[s].payload /\ d.reply = senders[s].reply
    BY <2>1 DEF Delivery
  <2>4. senders[s].hook \in Hooks /\ senders[s].payload \in Payloads /\ senders[s].reply = "none"
    BY <1>1 DEF DInv, InFlight
  <2> HIDE DEF d
  <2> QED
    BY <1>1, <2>2, <2>3, <2>4, SenderStep DEF Accepted
<1> QED
  BY <1>2, <1>3, <1>4 DEF Receive

LEMMA MaterializeWebhookKeeps ==
  ASSUME DInv, NEW s \in Senders, MaterializeWebhook(s)
  PROVE  DInv'
<1> DEFINE d == senders[s]
<1> DEFINE known == Existing(d.hook, d.key, d.payload)
<1>1. d.phase = "command" /\ UNCHANGED <<trigger, publishers>>
  BY DEF MaterializeWebhook
<1>2. ASSUME NEW reply \in Replies \ (Accepted \union {"conflict"}), Replied(s, reply), Keep PROVE DInv'
  BY <1>1, <1>2, RefusalKeeps DEF Keep
<1>3. CASE Keep /\ known # {} /\
           Replied(s, IF \E i \in known : occurrences[i].payload = d.payload THEN "duplicate" ELSE "conflict")
  <2> DEFINE reply == IF \E i \in known : occurrences[i].payload = d.payload THEN "duplicate" ELSE "conflict"
  <2>1. reply \in Replies
    BY DEF Replies
  <2>2. /\ senders' = [senders EXCEPT ![s] = senders'[s]] /\ senders'[s] \in Delivery
        /\ senders'[s].hook = d.hook /\ senders'[s].payload = d.payload /\ senders'[s].key = d.key
        /\ senders'[s].phase = "replied" /\ senders'[s].reply = reply
    <3> HIDE DEF reply
    <3> QED BY <1>3, <2>1, ReplyFacts DEF DInv, reply
  <2>3. d.hook \in Hooks /\ d.payload \in Payloads
    BY <1>1 DEF DInv, InFlight
  <2>4. \A i \in known : i \in OccurrencesOf(d.hook) /\ occurrences[i].key = d.key
    BY DEF Existing
  <2>5. reply \in Accepted => \E i \in OccurrencesOf(d.hook) : occurrences[i].key = d.key /\ occurrences[i].payload = d.payload
    BY <2>4 DEF Accepted
  <2>6. reply = "conflict" => \E i \in OccurrencesOf(d.hook) : occurrences[i].key = d.key /\ occurrences[i].payload # d.payload
    BY <1>3, <2>4
  <2> HIDE DEF reply, known
  <2> QED
    BY <1>1, <1>3, <2>2, <2>3, <2>5, <2>6, SenderStep DEF Keep
<1>4. ASSUME StillAuthentic(d), known = {}, ~Full(d.payload),
             Record(d.hook, d.key, d.payload, Status(d.payload)),
             Replied(s, IF Status(d.payload) = "skipped" THEN "skipped" ELSE "materialized")
      PROVE  DInv'
  BY <1>1, <1>4, WebhookRecorded
<1>5. {"unauthenticated", "disabled", "temporarily_unavailable", "capacity_exceeded"}
         \subseteq Replies \ (Accepted \union {"conflict"})
  BY DEF Replies, Accepted
<1> QED
  BY <1>2, <1>3, <1>4, <1>5 DEF MaterializeWebhook

LEMMA EndCallKeeps ==
  ASSUME DInv, NEW s \in Senders, EndCall(s)
  PROVE  DInv'
<1>1. NoDelivery \in Delivery /\ NoDelivery.phase = "idle" /\ NoDelivery.reply = "none"
  BY DEF NoDelivery, Delivery, Replies, NoKey
<1> QED
  BY <1>1, SenderStep DEF EndCall, Accepted

LEMMA PublishKeeps ==
  ASSUME DInv, NEW p \in PublishCalls, NEW event \in EventKeys, NEW payload \in Payloads, Publish(p, event, payload)
  PROVE  DInv'
<1> DEFINE q == [phase |-> "publishing", event |-> event, payload |-> payload, todo |-> Matches,
                 definition |-> target.definition, outcomes |-> {}]
<1>1. q \in Publication
  <2>1. Matches \subseteq Listeners /\ target.definition \in 0..2
    BY DEF Matches, DInv, DeliveryShapes
  <2> QED
    BY <2>1 DEF Publication
<1>2. q.phase = "publishing" /\ q.event = event /\ q.payload = payload /\ q.outcomes = {}
  OBVIOUS
<1>3. publishers' = [publishers EXCEPT ![p] = q] /\ UNCHANGED <<trigger, target, occurrences, senders>>
  BY DEF Publish
<1> HIDE DEF q
<1> QED
  BY <1>1, <1>2, <1>3, PublisherStep

\* The caller has its report, or will never get one.
LEMMA ForgetPublication ==
  ASSUME DInv, NEW p \in PublishCalls, publishers' = [publishers EXCEPT ![p] = NoPublication],
         UNCHANGED <<trigger, target, occurrences, senders>>
  PROVE  DInv'
<1>1. NoPublication \in Publication /\ NoPublication.phase = "idle" /\ NoPublication.todo = {} /\ NoPublication.outcomes = {}
  BY DEF NoPublication, Publication, NoKey
<1> QED
  BY <1>1, PublisherStep

\* An outcome noted without an occurrence of its own is true of one that is there.
LEMMA NoteOutcome ==
  ASSUME DInv, NEW p \in PublishCalls, publishers[p].phase = "publishing", publishers[p].todo # {},
         NEW kind \in Kinds, DeliveryOutcome(p, kind), UNCHANGED <<trigger, target, occurrences, senders>>,
         kind \in {"run_created", "skipped", "duplicate"} =>
           \E i \in OccurrencesOf(First(p)) :
              occurrences[i].key = publishers[p].event /\ occurrences[i].payload = publishers[p].payload
  PROVE  DInv'
<1> DEFINE o == [trigger |-> First(p), kind |-> kind]
<1>1. First(p) \in Listeners
  BY FirstIsCandidate DEF DInv
<1>2. /\ publishers' = [publishers EXCEPT ![p] = publishers'[p]] /\ publishers'[p] \in Publication
      /\ publishers'[p].event = publishers[p].event /\ publishers'[p].payload = publishers[p].payload
      /\ publishers'[p].phase = publishers[p].phase
      /\ publishers'[p].outcomes = publishers[p].outcomes \union {o}
  BY <1>1, OutcomeFacts DEF DInv
<1>3. o.trigger = First(p) /\ o.kind = kind
  OBVIOUS
<1> HIDE DEF o
<1>4. ASSUME NEW u \in publishers'[p].outcomes, u.kind \in {"run_created", "skipped", "duplicate"}
      PROVE  \E i \in OccurrencesOf(u.trigger) :
                occurrences[i].key = publishers'[p].event /\ occurrences[i].payload = publishers'[p].payload
  <2>1. CASE u = o
    BY <2>1, <1>2, <1>3, <1>4
  <2>2. CASE u \in publishers[p].outcomes
    BY <2>2, <1>2, <1>4 DEF DInv, OutcomesTrue
  <2> QED
    BY <2>1, <2>2, <1>2
<1>5. publishers[p].event \in EventKeys /\ publishers[p].payload \in Payloads
  BY DEF DInv, InFlight
<1> QED
  BY <1>2, <1>4, <1>5, PublisherStep

LEMMA MaterializeEventKeeps ==
  ASSUME DInv, NEW p \in PublishCalls, MaterializeEvent(p)
  PROVE  DInv'
<1> DEFINE q == publishers[p]
<1> DEFINE known == Existing(First(p), q.event, q.payload)
<1>1. q.phase = "publishing" /\ q.todo # {} /\ UNCHANGED <<trigger, senders>>
  BY DEF MaterializeEvent
<1>2. CASE publishers' = [publishers EXCEPT ![p] = NoPublication] /\ Keep
  BY <1>1, <1>2, ForgetPublication DEF Keep
<1>3. CASE known # {} /\ Keep /\
           DeliveryOutcome(p, IF \E i \in known : SameEvent(i, q.payload) THEN "duplicate" ELSE "event_id_conflict")
  <2>1. \A i \in known : i \in OccurrencesOf(First(p)) /\ occurrences[i].key = q.event
    BY DEF Existing
  <2>2. CASE \E i \in known : SameEvent(i, q.payload)
    BY <1>1, <1>3, <2>1, <2>2, NoteOutcome DEF Keep, Kinds, SameEvent
  <2>3. CASE ~\E i \in known : SameEvent(i, q.payload)
    BY <1>1, <1>3, <2>3, NoteOutcome DEF Keep, Kinds
  <2> QED
    BY <2>2, <2>3
<1>4. CASE DeliveryOutcome(p, "stale") /\ Keep
  BY <1>1, <1>4, NoteOutcome DEF Keep, Kinds
<1>5. CASE DeliveryOutcome(p, "capacity_deferred") /\ Keep
  BY <1>1, <1>5, NoteOutcome DEF Keep, Kinds
<1>6. ASSUME trigger[First(p)].live, known = {}, ~Full(q.payload),
             Record(First(p), q.event, q.payload, Status(q.payload)), DeliveryOutcome(p, Status(q.payload))
      PROVE  DInv'
  BY <1>1, <1>6, EventRecorded
<1> QED
  BY <1>2, <1>3, <1>4, <1>5, <1>6 DEF MaterializeEvent

LEMMA CompletePublicationKeeps ==
  ASSUME DInv, NEW p \in PublishCalls, CompletePublication(p)
  PROVE  DInv'
<1> DEFINE q == [publishers[p] EXCEPT !.phase = "complete"]
<1>1. publishers \in [PublishCalls -> Publication] /\ publishers[p] \in Publication /\ publishers[p].phase = "publishing"
  BY DEF DInv, DeliveryShapes, CompletePublication
<1>2. publishers' = [publishers EXCEPT ![p] = q] /\ UNCHANGED <<trigger, target, occurrences, senders>>
  BY <1>1 DEF CompletePublication
<1>3. /\ q \in Publication /\ q.phase = "complete" /\ q.event = publishers[p].event
      /\ q.payload = publishers[p].payload /\ q.outcomes = publishers[p].outcomes
  BY <1>1 DEF Publication
<1>4. publishers[p].event \in EventKeys /\ publishers[p].payload \in Payloads
  BY <1>1 DEF DInv, InFlight
<1>5. \A o \in q.outcomes : o.kind \in {"run_created", "skipped", "duplicate"} =>
        \E i \in OccurrencesOf(o.trigger) : occurrences[i].key = q.event /\ occurrences[i].payload = q.payload
  BY <1>3 DEF DInv, OutcomesTrue
<1> HIDE DEF q
<1> QED
  BY <1>2, <1>3, <1>4, <1>5, PublisherStep

\* The owner and the engine write one row each.
LEMMA KeyOwnerKeeps ==
  ASSUME DInv, NEW t \in Hooks \union Listeners, RotateSecret(t) \/ ToggleTrigger(t) \/ DeleteTrigger(t)
  PROVE  DInv'
<1> DEFINE Row == [live : BOOLEAN, enabled : BOOLEAN, secret : 1..MaxSecret]
<1>0. trigger \in [Hooks \union Listeners -> Row] /\ trigger[t] \in Row
  BY DEF DInv, DeliveryShapes
<1>6. PICK r \in Row : trigger' = [trigger EXCEPT ![t] = r] /\ (r.live \/ DeleteTrigger(t))
  <2>1. CASE RotateSecret(t)
    <3>0. trigger[t].secret + 1 \in 1..MaxSecret
      BY <1>0, <2>1, DeliveryAssumption DEF RotateSecret
    <3>1. [trigger[t] EXCEPT !.secret = @ + 1] \in Row /\ [trigger[t] EXCEPT !.secret = @ + 1].live = trigger[t].live
      BY <1>0, <3>0
    <3> QED BY <1>0, <2>1, <3>1 DEF RotateSecret
  <2>2. CASE ToggleTrigger(t)
    <3>1. [trigger[t] EXCEPT !.enabled = ~@] \in Row /\ [trigger[t] EXCEPT !.enabled = ~@].live = trigger[t].live
      BY <1>0
    <3> QED BY <1>0, <2>2, <3>1 DEF ToggleTrigger
  <2>3. CASE DeleteTrigger(t)
    <3>1. [trigger[t] EXCEPT !.live = FALSE] \in Row
      BY <1>0
    <3> QED BY <1>0, <2>3, <3>1 DEF DeleteTrigger
  <2> QED BY <2>1, <2>2, <2>3
<1>1. trigger' \in [Hooks \union Listeners -> Row]
  BY <1>0, <1>6
<1>2. UNCHANGED <<target, occurrences, senders, publishers>>
  BY DEF RotateSecret, ToggleTrigger, DeleteTrigger, clients
<1>3. \A i \in DOMAIN occurrences : trigger'[occurrences[i].trigger].live
  <2> SUFFICES ASSUME NEW i \in DOMAIN occurrences PROVE trigger'[occurrences[i].trigger].live
    OBVIOUS
  <2>1. occurrences[i].trigger \in Hooks \union Listeners /\ trigger[occurrences[i].trigger].live
    <3>1. occurrences \in Seq(Occurrence)
      BY DEF DInv, DeliveryShapes
    <3>2. occurrences[i] \in Occurrence
      BY <3>1
    <3> QED
      BY <3>2 DEF Occurrence, DInv, ToldTheTruth
  <2>2. DeleteTrigger(t) => occurrences[i].trigger # t
    BY DEF DeleteTrigger, Deletable, OccurrencesOf
  <2> QED
    BY <2>1, <2>2, <1>0, <1>6
<1>4. DeliveryShapes' /\ InFlight'
  BY <1>1, <1>2 DEF DInv, DeliveryShapes, InFlight
<1>5. OutcomesTrue' /\ DeliveredOnce' /\ ToldTheTruth'
  BY <1>2, <1>3 DEF DInv, OutcomesTrue, DeliveredOnce, ToldTheTruth, OccurrencesOf
<1> QED
  BY <1>4, <1>5 DEF DInv

LEMMA TargetKeeps ==
  ASSUME DInv, ToggleTarget \/ RebindTarget \/ SettleJob
  PROVE  DInv'
<1>1. target \in [enabled : BOOLEAN, definition : 1..2, queued : 0..QueueLimit] /\ QueueLimit \in Nat
  BY DeliveryAssumption DEF DInv, DeliveryShapes
<1>2. target' \in [enabled : BOOLEAN, definition : 1..2, queued : 0..QueueLimit]
  <2>1. CASE ToggleTarget
    BY <1>1, <2>1 DEF ToggleTarget
  <2>2. CASE RebindTarget
    BY <1>1, <2>2 DEF RebindTarget
  <2>3. CASE SettleJob
    BY <1>1, <2>3 DEF SettleJob
  <2> QED BY <2>1, <2>2, <2>3
<1>3. UNCHANGED <<trigger, occurrences, senders, publishers>>
  BY DEF ToggleTarget, RebindTarget, SettleJob, clients
<1> QED
  BY <1>2, <1>3 DEF DInv, DeliveryShapes, InFlight, OutcomesTrue, DeliveredOnce, ToldTheTruth, OccurrencesOf

LEMMA DeliveryStutterKeeps ==
  ASSUME DInv, UNCHANGED deliveryVars
  PROVE  DInv'
BY DEF deliveryVars, DInv, DeliveryShapes, InFlight, OutcomesTrue, DeliveredOnce, ToldTheTruth, OccurrencesOf

\* Contention refuses a call whose command was ready; a publication ends.
LEMMA RemainingKeep ==
  /\ \A s \in Senders : DInv /\ MaterializeFails(s) => DInv'
  /\ \A p \in PublishCalls : DInv /\ EndPublication(p) => DInv'
<1>1. ASSUME NEW s \in Senders, DInv, MaterializeFails(s) PROVE DInv'
  BY <1>1, RefusalKeeps DEF MaterializeFails, Keep, Replies, Accepted
<1>2. ASSUME NEW p \in PublishCalls, DInv, EndPublication(p) PROVE DInv'
  BY <1>2, ForgetPublication DEF EndPublication
<1> QED
  BY <1>1, <1>2

LEMMA DeliveryStepInv == DInv /\ [DeliveryNext]_deliveryVars => DInv'
<1> SUFFICES ASSUME DInv, [DeliveryNext]_deliveryVars PROVE DInv'
  OBVIOUS
<1>1. ASSUME NEW s \in Senders, Delivering(s) PROVE DInv'
  BY <1>1, ReceiveKeeps, MaterializeWebhookKeeps, RemainingKeep, EndCallKeeps DEF Delivering
<1>2. ASSUME NEW p \in PublishCalls, Publishing(p) PROVE DInv'
  BY <1>2, MaterializeEventKeeps, CompletePublicationKeeps, RemainingKeep DEF Publishing
<1> QED
  BY <1>1, <1>2, CallKeeps, PublishKeeps, KeyOwnerKeeps, TargetKeeps, DeliveryStutterKeeps DEF DeliveryNext

LEMMA InvIsSound == DInv => DeliverySound
<1> SUFFICES ASSUME DInv PROVE DeliverySound
  OBVIOUS
<1>1. DeliveryTypeOK
  <2>1. occurrences \in Seq(Occurrence)
    BY DEF DInv, DeliveryShapes
  <2>2. \A i \in DOMAIN occurrences : occurrences[i] \in Occurrence
    BY <2>1
  <2> QED
    BY <2>2 DEF DInv, DeliveryShapes, DeliveryTypeOK, Delivery, Publication, Occurrence
<1>2. PublicationAccounted
  BY DEF DInv, OutcomesTrue, PublicationAccounted
<1> QED
  BY <1>1, <1>2 DEF DInv, DeliverySound

-----------------------------------------------------------------------------
\* The inductive invariant holds in every reachable state.
THEOREM DeliveryInvariant == DeliverySpec => []DInv
BY DeliveryInitInv, DeliveryStepInv, PTL DEF DeliverySpec

\* However often and by however many callers a delivery or an event is
\* repeated: one occurrence per trigger and key, a truthful reply to every
\* caller, and every outcome of a publication accounted for.
THEOREM DeliverySoundHolds == DeliverySpec => []DeliverySound
BY DeliveryInvariant, InvIsSound, PTL

\* A transaction appends one occurrence or leaves them all alone, and one that
\* accepts a webhook call finds the secret the call was authenticated with.
LEMMA DeliveryFencedStep ==
  ASSUME DInv, [DeliveryNext]_deliveryVars
  PROVE  /\ Len(occurrences') >= Len(occurrences) /\ SubSeq(occurrences', 1, Len(occurrences)) = occurrences
         /\ \A s \in Senders : senders[s].phase = "command" /\ senders'[s].reply \in Accepted =>
               senders[s].secret = trigger[senders[s].hook].secret
<1>1. occurrences \in Seq(Occurrence) /\ DOMAIN senders = Senders
  BY DEF DInv, DeliveryShapes
<1>2. \/ occurrences' = occurrences
      \/ \E e \in Occurrence : occurrences' = Append(occurrences, e)
  <2>1. ASSUME NEW s \in Senders, MaterializeWebhook(s), ~Keep
        PROVE  \E e \in Occurrence : occurrences' = Append(occurrences, e)
    <3>1. senders[s].hook \in Hooks /\ senders[s].payload \in Payloads /\ senders[s].key \in EventKeys \union {NoKey}
      BY <2>1 DEF MaterializeWebhook, DInv, InFlight, DeliveryShapes, Delivery
    <3>2. [trigger |-> senders[s].hook, key |-> senders[s].key, payload |-> senders[s].payload,
           status |-> Status(senders[s].payload)] \in Occurrence
      BY <3>1 DEF Occurrence, Status
    <3> QED
      BY <2>1, <3>2 DEF MaterializeWebhook, Record
  <2>2. ASSUME NEW p \in PublishCalls, MaterializeEvent(p), ~Keep
        PROVE  \E e \in Occurrence : occurrences' = Append(occurrences, e)
    <3>1. First(p) \in Listeners /\ publishers[p].event \in EventKeys /\ publishers[p].payload \in Payloads
      BY <2>2, FirstIsCandidate DEF MaterializeEvent, DInv, InFlight
    <3>2. [trigger |-> First(p), key |-> publishers[p].event, payload |-> publishers[p].payload,
           status |-> Status(publishers[p].payload)] \in Occurrence
      BY <3>1 DEF Occurrence, Status
    <3> QED
      BY <2>2, <3>2 DEF MaterializeEvent, Record
  <2> QED
    BY <2>1, <2>2 DEF DeliveryNext, deliveryVars, clients, Delivering, Publishing, Keep, Call, Receive,
       MaterializeFails, EndCall, Publish, CompletePublication, EndPublication, RotateSecret, ToggleTrigger,
       DeleteTrigger, ToggleTarget, RebindTarget, SettleJob
<1>3. Len(occurrences') >= Len(occurrences) /\ SubSeq(occurrences', 1, Len(occurrences)) = occurrences
  <2>1. CASE occurrences' = occurrences
    BY <2>1, <1>1
  <2>2. ASSUME NEW e \in Occurrence, occurrences' = Append(occurrences, e)
        PROVE  Len(occurrences') >= Len(occurrences) /\ SubSeq(occurrences', 1, Len(occurrences)) = occurrences
    BY <2>2, <1>1
  <2> QED
    BY <1>2, <2>1, <2>2
<1>4. ASSUME NEW s \in Senders, senders[s].phase = "command", senders'[s].reply \in Accepted
      PROVE  senders[s].secret = trigger[senders[s].hook].secret
  <2>1. senders[s].reply = "none"
    BY <1>4 DEF DInv, InFlight
  <2>2. senders'[s] # senders[s]
    BY <1>4, <2>1 DEF Accepted
  <2>3. ASSUME NEW r \in Senders, NEW d, senders' = [senders EXCEPT ![r] = d] PROVE r = s /\ senders'[s] = d
    BY <2>2, <2>3, <1>1
  <2>4. ASSUME NEW r \in Senders, NEW reply \in Replies, Replied(r, reply) PROVE r = s /\ reply \in Accepted
    BY <1>4, <2>2, <2>4, ReplyFacts DEF DInv
  <2>5. ASSUME NEW r \in Senders, MaterializeWebhook(r), r = s PROVE senders[s].secret = trigger[senders[s].hook].secret
    BY <2>5, <2>4, <1>4 DEF MaterializeWebhook, StillAuthentic, Replies, Accepted
  <2>6. ASSUME NEW r \in Senders, Delivering(r) PROVE senders[s].secret = trigger[senders[s].hook].secret
    <3>1. CASE Receive(r)
      <4>1. ASSUME r # s PROVE senders'[s] = senders[s]
        BY <3>1, <4>1, <1>1 DEF Receive, Replied
      <4>2. r # s
        BY <3>1, <1>4 DEF Receive
      <4> QED
        BY <4>1, <4>2, <2>2
    <3>2. CASE MaterializeWebhook(r)
      <4>1. ASSUME r # s PROVE senders'[s] = senders[s]
        BY <3>2, <4>1, <1>1 DEF MaterializeWebhook, Replied
      <4> QED
        BY <3>2, <4>1, <2>2, <2>5
    <3>3. CASE MaterializeFails(r)
      BY <3>3, <2>4 DEF MaterializeFails, Accepted, Replies
    <3>4. CASE EndCall(r)
      <4>1. senders'[s] = NoDelivery
        BY <3>4, <2>3 DEF EndCall
      <4> QED
        BY <4>1, <1>4 DEF NoDelivery, Accepted
    <3> QED
      BY <2>6, <3>1, <3>2, <3>3, <3>4 DEF Delivering
  <2>7. ASSUME NEW r \in Senders, NEW t, NEW secret, NEW key, NEW payload, Call(r, t, secret, key, payload)
        PROVE  senders[s].secret = trigger[senders[s].hook].secret
    <3>1. r = s
      BY <2>7, <2>2, <1>1 DEF Call
    <3> QED
      BY <2>7, <3>1, <1>4 DEF Call
  <2>8. senders' # senders
    BY <2>2
  <2> QED
    BY <2>6, <2>7, <2>8 DEF DeliveryNext, deliveryVars, clients, Publish, Publishing, MaterializeEvent,
       CompletePublication, EndPublication, RotateSecret, ToggleTrigger, DeleteTrigger, ToggleTarget,
       RebindTarget, SettleJob
<1> QED
  BY <1>3, <1>4

\* An occurrence is never changed or removed, and no webhook call is accepted
\* under a secret that was rotated away before its transaction.
THEOREM DeliveryFencedHolds == DeliverySpec => DeliveryFenced
<1>1. DInv /\ [DeliveryNext]_deliveryVars =>
        [/\ Len(occurrences') >= Len(occurrences) /\ SubSeq(occurrences', 1, Len(occurrences)) = occurrences
         /\ \A s \in Senders : senders[s].phase = "command" /\ senders'[s].reply \in Accepted =>
               senders[s].secret = trigger[senders[s].hook].secret]_deliveryVars
  BY DeliveryFencedStep
<1> QED
  BY <1>1, DeliveryInvariant, PTL DEF DeliverySpec, DeliveryFenced

-----------------------------------------------------------------------------
(* The promise of DeliveryInbox is kept.                                   *)

\* A client at rest remembers nothing, and a trigger has answered a publication or
\* is still to be tried, not both.
ForgetsAtRest ==
  /\ \A s \in Senders : senders[s].phase = "idle" => senders[s] = NoDelivery
  /\ \A p \in PublishCalls : publishers[p].phase = "idle" => publishers[p] = NoPublication
TriedOnce == \A p \in PublishCalls : \A o \in publishers[p].outcomes : o.trigger \notin publishers[p].todo

InboxInv == DInv /\ ForgetsAtRest /\ TriedOnce

LEMMA InboxInitial == DeliveryInit => InboxInv
BY DeliveryInitInv DEF DeliveryInit, InboxInv, ForgetsAtRest, TriedOnce, NoPublication

\* What a client is mapped to moves with its own record.
LEMMA SenderBar ==
  ASSUME DeliveryShapes, NEW s \in Senders, NEW d, senders' = [senders EXCEPT ![s] = d], publishers' = publishers
  PROVE  /\ <<"sender", s>> \in DeliveryClients /\ callBar[<<"sender", s>>] = CallOf(senders[s])
         /\ callBar' = [callBar EXCEPT ![<<"sender", s>>] = CallOf(d)]
<1>1. <<"sender", s>> \in DeliveryClients
  BY DEF DeliveryClients
<1>2. DOMAIN senders = Senders
  BY DEF DeliveryShapes
<1>3. ASSUME NEW c \in DeliveryClients, c # <<"sender", s>>, c[1] = "sender" PROVE senders'[c[2]] = senders[c[2]]
  BY <1>2, <1>3 DEF DeliveryClients
<1>4. senders'[s] = d
  BY <1>2
<1>5. callBar[<<"sender", s>>] = CallOf(senders[s]) /\ callBar'[<<"sender", s>>] = CallOf(d)
  BY <1>1, <1>4 DEF callBar
<1>6. ASSUME NEW c \in DeliveryClients, c # <<"sender", s>> PROVE callBar'[c] = callBar[c]
  <2>1. CASE c[1] = "sender"
    BY <1>3, <1>6, <2>1 DEF callBar
  <2>2. CASE c[1] # "sender"
    BY <2>2 DEF callBar
  <2> QED
    BY <2>1, <2>2
<1>7. callBar = [c \in DeliveryClients |-> callBar[c]] /\ callBar' = [c \in DeliveryClients |-> callBar'[c]]
  BY DEF callBar
<1> QED
  BY <1>1, <1>5, <1>6, <1>7

LEMMA PublisherBar ==
  ASSUME DeliveryShapes, NEW p \in PublishCalls, NEW q, publishers' = [publishers EXCEPT ![p] = q], senders' = senders
  PROVE  /\ <<"publisher", p>> \in DeliveryClients /\ callBar[<<"publisher", p>>] = PublicationOf(publishers[p])
         /\ callBar' = [callBar EXCEPT ![<<"publisher", p>>] = PublicationOf(q)]
<1>1. <<"publisher", p>> \in DeliveryClients
  BY DEF DeliveryClients
<1>2. DOMAIN publishers = PublishCalls
  BY DEF DeliveryShapes
<1>3. ASSUME NEW c \in DeliveryClients, c # <<"publisher", p>>, c[1] # "sender" PROVE publishers'[c[2]] = publishers[c[2]]
  BY <1>2, <1>3 DEF DeliveryClients
<1>4. publishers'[p] = q
  BY <1>2
<1>5. callBar[<<"publisher", p>>] = PublicationOf(publishers[p]) /\ callBar'[<<"publisher", p>>] = PublicationOf(q)
  BY <1>1, <1>4 DEF callBar
<1>6. ASSUME NEW c \in DeliveryClients, c # <<"publisher", p>> PROVE callBar'[c] = callBar[c]
  <2>1. CASE c[1] = "sender"
    BY <2>1 DEF callBar
  <2>2. CASE c[1] # "sender"
    BY <1>3, <1>6, <2>2 DEF callBar
  <2> QED
    BY <2>1, <2>2
<1>7. callBar = [c \in DeliveryClients |-> callBar[c]] /\ callBar' = [c \in DeliveryClients |-> callBar'[c]]
  BY DEF callBar
<1> QED
  BY <1>1, <1>5, <1>6, <1>7

LEMMA ClientsRest ==
  ASSUME UNCHANGED <<senders, publishers>> PROVE callBar' = callBar
BY DEF callBar

\* What is held under a key is what the transaction looks up.
LEMMA HeldIsExisting ==
  ASSUME NEW t, NEW key, NEW payload
  PROVE  Inbox!Held(t, key) = {occurrences[i].payload : i \in Existing(t, key, payload)}
BY DEF Inbox!Held, Existing, OccurrencesOf

\* What one transaction decides of a delivery to a trigger, and writes.
DeliveryDecided(t, key, payload, kind) ==
  \/ kind = "refused" /\ occurrences' = occurrences
  \/ /\ kind = "duplicate" /\ occurrences' = occurrences
     /\ \E i \in Existing(t, key, payload) : occurrences[i].payload = payload
  \/ /\ kind = "conflict" /\ occurrences' = occurrences /\ Existing(t, key, payload) # {}
     /\ \A i \in Existing(t, key, payload) : occurrences[i].payload # payload
  \/ /\ kind \in {"run_created", "skipped"} /\ Existing(t, key, payload) = {}
     /\ occurrences' = Append(occurrences, [trigger |-> t, key |-> key, payload |-> payload, status |-> kind])

LEMMA MoreAnswers ==
  ASSUME NEW r, NEW to, NEW key, NEW payload, NEW answers, NEW more,
         r = [to |-> to, key |-> key, payload |-> payload, answers |-> answers]
  PROVE  [r EXCEPT !.answers = more] = [to |-> to, key |-> key, payload |-> payload, answers |-> more]
OBVIOUS

\* A trigger answers a client: what it looked up decides which step this is.
LEMMA AnswerStep ==
  ASSUME NEW c \in DeliveryClients, NEW t, NEW kind, NEW to, NEW key, NEW payload, NEW answers,
         callBar[c] = [to |-> to, key |-> key, payload |-> payload, answers |-> answers],
         t \in to, \A a \in answers : a.trigger # t,
         callBar' = [callBar EXCEPT ![c] =
            [to |-> to, key |-> key, payload |-> payload, answers |-> answers \union {[trigger |-> t, kind |-> kind]}]],
         DeliveryDecided(t, key, payload, kind)
  PROVE  Inbox!Next
<1>1. /\ callBar[c].to = to /\ callBar[c].key = key /\ callBar[c].payload = payload /\ callBar[c].answers = answers
  OBVIOUS
<1>2. callBar' = [callBar EXCEPT ![c].answers = @ \union {[trigger |-> t, kind |-> kind]}]
  <2>1. PICK r : r = callBar[c]
    OBVIOUS
  <2>2. PICK more : more = answers \union {[trigger |-> t, kind |-> kind]}
    OBVIOUS
  <2>3. [r EXCEPT !.answers = more] = [to |-> to, key |-> key, payload |-> payload, answers |-> more]
    <3>1. r = [to |-> to, key |-> key, payload |-> payload, answers |-> answers]
      BY <2>1
    <3> QED
      BY <3>1, MoreAnswers
  <2>4. callBar' = [callBar EXCEPT ![c] = [r EXCEPT !.answers = more]]
    BY <2>2, <2>3
  <2> QED
    BY <1>1, <2>1, <2>2, <2>4
<1>3. Inbox!Answer(c, t, kind)
  BY <1>1, <1>2 DEF Inbox!Answer, Inbox!Waiting
<1>4. callBar'[c] # callBar[c]
  <2>1. c \in DOMAIN callBar
    BY DEF callBar
  <2>2. callBar'[c].answers = answers \union {[trigger |-> t, kind |-> kind]}
    BY <2>1
  <2>3. [trigger |-> t, kind |-> kind] \notin answers
    OBVIOUS
  <2> QED
    BY <1>1, <2>2, <2>3
<1>5. Inbox!Held(t, key) = {occurrences[i].payload : i \in Existing(t, key, payload)}
  BY HeldIsExisting
<1>6. \/ Inbox!Refuse(c, t) \/ Inbox!Recognise(c, t) \/ Inbox!Contradict(c, t)
      \/ \E status \in {"run_created", "skipped"} : Inbox!Take(c, t, status)
  <2>1. CASE kind = "refused" /\ occurrences' = occurrences
    BY <1>3, <2>1 DEF Inbox!Refuse
  <2>2. CASE /\ kind = "duplicate" /\ occurrences' = occurrences
             /\ \E i \in Existing(t, key, payload) : occurrences[i].payload = payload
    BY <1>1, <1>3, <1>5, <2>2 DEF Inbox!Recognise
  <2>3. CASE /\ kind = "conflict" /\ occurrences' = occurrences /\ Existing(t, key, payload) # {}
             /\ \A i \in Existing(t, key, payload) : occurrences[i].payload # payload
    BY <1>1, <1>3, <1>5, <2>3 DEF Inbox!Contradict
  <2>4. CASE /\ kind \in {"run_created", "skipped"} /\ Existing(t, key, payload) = {}
             /\ occurrences' = Append(occurrences, [trigger |-> t, key |-> key, payload |-> payload, status |-> kind])
    BY <1>1, <1>3, <1>5, <2>4 DEF Inbox!Take
  <2> QED
    BY <2>1, <2>2, <2>3, <2>4 DEF DeliveryDecided
<1>7. Inbox!Step(c)
  BY <1>1, <1>6 DEF Inbox!Step
<1> QED
  BY <1>4, <1>7 DEF Inbox!Next

\* A client asks, or is at rest again.
LEMMA AskStep ==
  ASSUME NEW c \in DeliveryClients, NEW to \in SUBSET (Hooks \union Listeners), NEW key \in EventKeys \union {NoKey},
         NEW payload \in Payloads, callBar[c] = Inbox!Idle, occurrences' = occurrences,
         callBar' = [callBar EXCEPT ![c] = [to |-> to, key |-> key, payload |-> payload, answers |-> {}]]
  PROVE  [Inbox!Next]_<<occurrences, callBar>>
<1>1. Inbox!Ask(c, to, key, payload)
  BY DEF Inbox!Ask
<1>2. Inbox!Step(c)
  BY <1>1 DEF Inbox!Step
<1>3. CASE callBar'[c] = callBar[c]
  BY <1>3 DEF callBar
<1>4. CASE callBar'[c] # callBar[c]
  BY <1>2, <1>4 DEF Inbox!Next
<1> QED
  BY <1>3, <1>4

LEMMA ForgetStep ==
  ASSUME NEW c \in DeliveryClients, callBar' = [callBar EXCEPT ![c] = Inbox!Idle], occurrences' = occurrences
  PROVE  [Inbox!Next]_<<occurrences, callBar>>
<1>1. Inbox!Forget(c)
  BY DEF Inbox!Forget
<1>2. Inbox!Step(c)
  BY <1>1 DEF Inbox!Step
<1>3. CASE callBar'[c] = callBar[c]
  BY <1>3 DEF callBar
<1>4. CASE callBar'[c] # callBar[c]
  BY <1>2, <1>4 DEF Inbox!Next
<1> QED
  BY <1>3, <1>4

\* The replies and outcomes of Deliveries in the terms of the promise.
LEMMA SenderAnswers ==
  ASSUME InboxInv, NEW s \in Senders, senders[s].phase \in {"sent", "command"}, NEW reply \in Replies \ {"none"},
         Replied(s, reply), publishers' = publishers,
         DeliveryDecided(senders[s].hook, senders[s].key, senders[s].payload, Meaning(reply))
  PROVE  Inbox!Next
<1> DEFINE d == senders[s]
           e == [d EXCEPT !.phase = "replied", !.reply = reply]
<1>1. d \in Delivery /\ DeliveryShapes /\ d.reply = "none"
  BY DEF InboxInv, DInv, InFlight, DeliveryShapes, Replies
<1>2. senders' = [senders EXCEPT ![s] = e]
  BY <1>1 DEF Replied, DeliveryShapes
<1>3. /\ e.phase = "replied" /\ e.reply = reply /\ e.hook = d.hook /\ e.key = d.key /\ e.payload = d.payload
  BY <1>1 DEF Delivery
<1>4. CallOf(d) = [to |-> {d.hook}, key |-> d.key, payload |-> d.payload, answers |-> {}]
  BY <1>1 DEF CallOf
<1> HIDE DEF e
<1>5. CallOf(e) = [to |-> {d.hook}, key |-> d.key, payload |-> d.payload,
                   answers |-> {} \union {[trigger |-> d.hook, kind |-> Meaning(reply)]}]
  BY <1>3 DEF CallOf
<1>6. /\ <<"sender", s>> \in DeliveryClients /\ callBar[<<"sender", s>>] = CallOf(d)
      /\ callBar' = [callBar EXCEPT ![<<"sender", s>>] = CallOf(e)]
  BY <1>1, <1>2, SenderBar
<1>7. PICK c \in DeliveryClients : callBar[c] = CallOf(d) /\ callBar' = [callBar EXCEPT ![c] = CallOf(e)]
  BY <1>6
<1>8. PICK t, key, payload, kind : t = d.hook /\ key = d.key /\ payload = d.payload /\ kind = Meaning(reply)
  OBVIOUS
<1>9. PICK to, answers : to = {t} /\ answers = {}
  OBVIOUS
<1>10. /\ callBar[c] = [to |-> to, key |-> key, payload |-> payload, answers |-> answers]
       /\ callBar' = [callBar EXCEPT ![c] = [to |-> to, key |-> key, payload |-> payload,
                        answers |-> answers \union {[trigger |-> t, kind |-> kind]}]]
       /\ t \in to /\ \A a \in answers : a.trigger # t
  BY <1>4, <1>5, <1>7, <1>8, <1>9
<1>11. DeliveryDecided(t, key, payload, kind)
  BY <1>8
<1> QED
  BY <1>10, <1>11, AnswerStep

LEMMA PublisherAnswers ==
  ASSUME InboxInv, NEW p \in PublishCalls, publishers[p].todo # {}, NEW kind \in Kinds,
         DeliveryOutcome(p, kind), senders' = senders,
         DeliveryDecided(First(p), publishers[p].event, publishers[p].payload, Meaning(kind))
  PROVE  Inbox!Next
<1>1. PICK q : q = publishers[p]
  OBVIOUS
<1>2. PICK t : t = First(p)
  OBVIOUS
<1>3. q \in Publication /\ DeliveryShapes /\ t \in q.todo
  BY <1>1, <1>2, FirstIsCandidate DEF InboxInv, DInv, DeliveryShapes
<1>4. PICK new : new = [q EXCEPT !.todo = q.todo \ {t}, !.outcomes = q.outcomes \union {[trigger |-> t, kind |-> kind]}]
  OBVIOUS
<1>5. publishers' = [publishers EXCEPT ![p] = new]
  BY <1>1, <1>2, <1>3, <1>4 DEF DeliveryOutcome, DeliveryShapes, Publication
<1>6. /\ new.todo = q.todo \ {t} /\ new.outcomes = q.outcomes \union {[trigger |-> t, kind |-> kind]}
      /\ new.event = q.event /\ new.payload = q.payload
  BY <1>3, <1>4 DEF Publication
<1>7. PICK to, answers : /\ to = q.todo \union {o.trigger : o \in q.outcomes}
                         /\ answers = {[trigger |-> o.trigger, kind |-> Meaning(o.kind)] : o \in q.outcomes}
  OBVIOUS
<1>8. PublicationOf(q) = [to |-> to, key |-> q.event, payload |-> q.payload, answers |-> answers]
  BY <1>7 DEF PublicationOf
<1>9. PICK fresh : fresh = [trigger |-> t, kind |-> kind]
  OBVIOUS
<1>10. fresh.trigger = t /\ fresh.kind = kind /\ new.outcomes = q.outcomes \union {fresh}
  BY <1>6, <1>9
<1>11. new.todo \union {o.trigger : o \in new.outcomes} = to
  <2>1. {o.trigger : o \in new.outcomes} = {o.trigger : o \in q.outcomes} \union {t}
    BY <1>10, Zenon
  <2>2. (q.todo \ {t}) \union {t} = q.todo
    BY <1>3
  <2> QED
    BY <1>6, <1>7, <2>1, <2>2
<1>12. {[trigger |-> o.trigger, kind |-> Meaning(o.kind)] : o \in new.outcomes}
         = answers \union {[trigger |-> t, kind |-> Meaning(kind)]}
  BY <1>7, <1>10, Zenon
<1>13. PublicationOf(new) = [to |-> to, key |-> q.event, payload |-> q.payload,
                             answers |-> answers \union {[trigger |-> t, kind |-> Meaning(kind)]}]
  BY <1>6, <1>11, <1>12, Zenon DEF PublicationOf
<1>14. /\ <<"publisher", p>> \in DeliveryClients /\ callBar[<<"publisher", p>>] = PublicationOf(q)
       /\ callBar' = [callBar EXCEPT ![<<"publisher", p>>] = PublicationOf(new)]
  BY <1>1, <1>3, <1>5, PublisherBar
<1>15. PICK c \in DeliveryClients : callBar[c] = PublicationOf(q) /\ callBar' = [callBar EXCEPT ![c] = PublicationOf(new)]
  BY <1>14
<1>16. t \in to /\ \A a \in answers : a.trigger # t
  BY <1>1, <1>3, <1>7 DEF InboxInv, TriedOnce
<1>17. DeliveryDecided(t, q.event, q.payload, Meaning(kind))
  BY <1>1, <1>2
<1>18. PICK answer : answer = Meaning(kind)
  OBVIOUS
<1>19. /\ callBar[c] = [to |-> to, key |-> q.event, payload |-> q.payload, answers |-> answers]
       /\ callBar' = [callBar EXCEPT ![c] = [to |-> to, key |-> q.event, payload |-> q.payload,
                         answers |-> answers \union {[trigger |-> t, kind |-> answer]}]]
  BY <1>8, <1>13, <1>15, <1>18
<1>20. DeliveryDecided(t, q.event, q.payload, answer)
  BY <1>17, <1>18
<1> QED
  BY <1>16, <1>19, <1>20, AnswerStep

\* A client's record moves: what it remembers at rest, and the triggers still to try.
LEMMA SenderMoves ==
  ASSUME InboxInv, NEW s \in Senders, NEW d, senders' = [senders EXCEPT ![s] = d], publishers' = publishers,
         d.phase = "idle" => d = NoDelivery
  PROVE  ForgetsAtRest' /\ TriedOnce'
<1>1. DOMAIN senders = Senders
  BY DEF InboxInv, DInv, DeliveryShapes
<1> QED
  BY <1>1 DEF InboxInv, ForgetsAtRest, TriedOnce

LEMMA PublisherMoves ==
  ASSUME InboxInv, NEW p \in PublishCalls, NEW q, publishers' = [publishers EXCEPT ![p] = q], senders' = senders,
         q.phase = "idle" => q = NoPublication,
         \A o \in q.outcomes : o.trigger \notin q.todo
  PROVE  ForgetsAtRest' /\ TriedOnce'
<1>1. DOMAIN publishers = PublishCalls
  BY DEF InboxInv, DInv, DeliveryShapes
<1> QED
  BY <1>1 DEF InboxInv, ForgetsAtRest, TriedOnce

LEMMA ReplyRests ==
  ASSUME InboxInv, NEW s \in Senders, NEW reply, Replied(s, reply), publishers' = publishers
  PROVE  ForgetsAtRest' /\ TriedOnce'
<1> DEFINE e == [senders[s] EXCEPT !.phase = "replied", !.reply = reply]
<1>1. senders[s] \in Delivery /\ senders \in [Senders -> Delivery]
  BY DEF InboxInv, DInv, DeliveryShapes
<1>2. senders' = [senders EXCEPT ![s] = e] /\ e.phase = "replied"
  BY <1>1 DEF Replied, Delivery
<1> HIDE DEF e
<1> QED
  BY <1>2, SenderMoves

LEMMA OutcomeRests ==
  ASSUME InboxInv, NEW p \in PublishCalls, NEW kind, publishers[p].phase = "publishing", DeliveryOutcome(p, kind),
         senders' = senders
  PROVE  ForgetsAtRest' /\ TriedOnce'
<1>1. PICK q, t : q = publishers[p] /\ t = First(p)
  OBVIOUS
<1>2. PICK new : new = [q EXCEPT !.todo = q.todo \ {t}, !.outcomes = q.outcomes \union {[trigger |-> t, kind |-> kind]}]
  OBVIOUS
<1>3. q \in Publication /\ publishers \in [PublishCalls -> Publication]
  BY <1>1 DEF InboxInv, DInv, DeliveryShapes
<1>4. publishers' = [publishers EXCEPT ![p] = new]
  BY <1>1, <1>2, <1>3 DEF DeliveryOutcome, Publication
<1>5. /\ new.phase = "publishing" /\ new.todo = q.todo \ {t}
      /\ new.outcomes = q.outcomes \union {[trigger |-> t, kind |-> kind]}
  BY <1>1, <1>2, <1>3 DEF Publication
<1>6. \A o \in q.outcomes : o.trigger \notin q.todo
  BY <1>1 DEF InboxInv, TriedOnce
<1>7. \A o \in new.outcomes : o.trigger \notin new.todo
  BY <1>5, <1>6
<1> QED
  BY <1>4, <1>5, <1>7, PublisherMoves

\* A step of Deliveries is a step of the promise, or none.
InboxKept == ForgetsAtRest' /\ TriedOnce' /\ [Inbox!Next]_<<occurrences, callBar>>

LEMMA BarStays ==
  ASSUME NEW c \in DeliveryClients, callBar' = [callBar EXCEPT ![c] = callBar[c]] PROVE callBar' = callBar
BY DEF callBar

LEMMA CallAsks ==
  ASSUME InboxInv, NEW s \in Senders, NEW t \in Hooks, NEW secret, NEW key \in EventKeys \union {NoKey},
         NEW payload \in Payloads, Call(s, t, secret, key, payload)
  PROVE  InboxKept
<1>1. PICK d : d = [NoDelivery EXCEPT !.phase = "sent", !.hook = t, !.secret = secret, !.key = key, !.payload = payload]
  OBVIOUS
<1>2. senders' = [senders EXCEPT ![s] = d] /\ publishers' = publishers /\ occurrences' = occurrences
  BY <1>1 DEF Call
<1>3. d.phase = "sent" /\ d.hook = t /\ d.key = key /\ d.payload = payload /\ d.reply = "none"
  BY <1>1 DEF NoDelivery
<1>4. ForgetsAtRest' /\ TriedOnce'
  BY <1>2, <1>3, SenderMoves
<1>5. senders[s] = NoDelivery /\ DeliveryShapes
  BY DEF Call, InboxInv, ForgetsAtRest, DInv
<1>6. CallOf(NoDelivery) = Inbox!Idle
  BY DEF CallOf, NoDelivery, Inbox!Idle
<1>7. PICK to \in SUBSET (Hooks \union Listeners) : to = {t}
  OBVIOUS
<1>8. CallOf(d) = [to |-> to, key |-> key, payload |-> payload, answers |-> {}]
  BY <1>3, <1>7 DEF CallOf
<1>9. PICK c \in DeliveryClients : callBar[c] = CallOf(NoDelivery) /\ callBar' = [callBar EXCEPT ![c] = CallOf(d)]
  BY <1>2, <1>5, SenderBar
<1>10. [Inbox!Next]_<<occurrences, callBar>>
  BY <1>2, <1>6, <1>8, <1>9, AskStep
<1> QED
  BY <1>4, <1>10 DEF InboxKept

LEMMA PublishAsks ==
  ASSUME InboxInv, NEW p \in PublishCalls, NEW event \in EventKeys, NEW payload \in Payloads, Publish(p, event, payload)
  PROVE  InboxKept
<1>1. PICK q : q = [phase |-> "publishing", event |-> event, payload |-> payload, todo |-> Matches,
                    definition |-> target.definition, outcomes |-> {}]
  OBVIOUS
<1>2. publishers' = [publishers EXCEPT ![p] = q] /\ senders' = senders /\ occurrences' = occurrences
  BY <1>1 DEF Publish
<1>3. q.phase = "publishing" /\ q.event = event /\ q.payload = payload /\ q.todo = Matches /\ q.outcomes = {}
  BY <1>1
<1>4. ForgetsAtRest' /\ TriedOnce'
  BY <1>2, <1>3, PublisherMoves
<1>5. publishers[p] = NoPublication /\ DeliveryShapes
  BY DEF Publish, InboxInv, ForgetsAtRest, DInv
<1>6. PublicationOf(NoPublication) = Inbox!Idle
  BY DEF PublicationOf, NoPublication, Inbox!Idle
<1>7. PICK to \in SUBSET (Hooks \union Listeners) : to = Matches
  BY DEF Matches
<1>8. PublicationOf(q) = [to |-> to, key |-> event, payload |-> payload, answers |-> {}]
  BY <1>3, <1>7 DEF PublicationOf
<1>9. PICK c \in DeliveryClients : callBar[c] = PublicationOf(NoPublication) /\ callBar' = [callBar EXCEPT ![c] = PublicationOf(q)]
  BY <1>2, <1>5, PublisherBar
<1>10. [Inbox!Next]_<<occurrences, callBar>>
  BY <1>2, <1>6, <1>8, <1>9, AskStep
<1> QED
  BY <1>4, <1>10 DEF InboxKept

LEMMA SenderForgets ==
  ASSUME InboxInv, NEW s \in Senders, senders' = [senders EXCEPT ![s] = NoDelivery], publishers' = publishers,
         occurrences' = occurrences
  PROVE  InboxKept
<1>1. ForgetsAtRest' /\ TriedOnce'
  BY SenderMoves
<1>2. CallOf(NoDelivery) = Inbox!Idle
  BY DEF CallOf, NoDelivery, Inbox!Idle
<1>3. PICK c \in DeliveryClients : callBar' = [callBar EXCEPT ![c] = CallOf(NoDelivery)]
  BY SenderBar DEF InboxInv, DInv
<1>4. [Inbox!Next]_<<occurrences, callBar>>
  BY <1>2, <1>3, ForgetStep
<1> QED
  BY <1>1, <1>4 DEF InboxKept

LEMMA PublisherForgets ==
  ASSUME InboxInv, NEW p \in PublishCalls, publishers' = [publishers EXCEPT ![p] = NoPublication], senders' = senders,
         occurrences' = occurrences
  PROVE  InboxKept
<1>1. NoPublication.outcomes = {}
  BY DEF NoPublication
<1>2. ForgetsAtRest' /\ TriedOnce'
  BY <1>1, PublisherMoves
<1>3. PublicationOf(NoPublication) = Inbox!Idle
  BY DEF PublicationOf, NoPublication, Inbox!Idle
<1>4. PICK c \in DeliveryClients : callBar' = [callBar EXCEPT ![c] = PublicationOf(NoPublication)]
  BY PublisherBar DEF InboxInv, DInv
<1>5. [Inbox!Next]_<<occurrences, callBar>>
  BY <1>3, <1>4, ForgetStep
<1> QED
  BY <1>2, <1>5 DEF InboxKept

LEMMA ReceiveAnswers ==
  ASSUME InboxInv, NEW s \in Senders, Receive(s)
  PROVE  InboxKept
<1>1. senders[s].phase = "sent" /\ publishers' = publishers /\ occurrences' = occurrences
  BY DEF Receive
<1>2. ASSUME NEW reply \in {"unauthenticated", "malformed_payload"}, Replied(s, reply) PROVE InboxKept
  <2>1. Meaning(reply) = "refused" /\ reply \in Replies \ {"none"}
    BY <1>2 DEF Meaning, Replies
  <2>2. DeliveryDecided(senders[s].hook, senders[s].key, senders[s].payload, Meaning(reply))
    BY <1>1, <2>1 DEF DeliveryDecided
  <2>3. Inbox!Next
    BY <1>1, <1>2, <2>1, <2>2, SenderAnswers
  <2> QED
    BY <1>1, <1>2, <2>3, ReplyRests DEF InboxKept
<1>3. CASE senders' = [senders EXCEPT ![s].phase = "command", ![s].definition = target.definition]
  <2>1. PICK d : d = [senders[s] EXCEPT !.phase = "command", !.definition = target.definition]
    OBVIOUS
  <2>2. senders \in [Senders -> Delivery] /\ senders[s] \in Delivery /\ DeliveryShapes
    BY DEF InboxInv, DInv, DeliveryShapes
  <2>3. senders' = [senders EXCEPT ![s] = d]
    BY <1>3, <2>1, <2>2
  <2>4. /\ d.phase = "command" /\ d.hook = senders[s].hook /\ d.key = senders[s].key
        /\ d.payload = senders[s].payload /\ d.reply = senders[s].reply
    BY <2>1, <2>2 DEF Delivery
  <2>5. ForgetsAtRest' /\ TriedOnce'
    BY <1>1, <2>3, <2>4, SenderMoves
  <2>6. CallOf(d) = CallOf(senders[s])
    BY <1>1, <2>4 DEF CallOf
  <2>7. PICK c \in DeliveryClients : callBar[c] = CallOf(senders[s]) /\ callBar' = [callBar EXCEPT ![c] = CallOf(d)]
    BY <1>1, <2>2, <2>3, SenderBar
  <2>8. callBar' = callBar
    BY <2>6, <2>7, BarStays
  <2> QED
    BY <1>1, <2>5, <2>8 DEF InboxKept
<1> QED
  BY <1>2, <1>3 DEF Receive

LEMMA WebhookAnswers ==
  ASSUME InboxInv, NEW s \in Senders, MaterializeWebhook(s) \/ MaterializeFails(s)
  PROVE  InboxKept
<1> DEFINE d == senders[s]
<1> DEFINE known == Existing(d.hook, d.key, d.payload)
<1>1. d.phase = "command" /\ publishers' = publishers
  BY DEF MaterializeWebhook, MaterializeFails
<1>2. ASSUME NEW reply \in Replies \ {"none"}, Replied(s, reply), DeliveryDecided(d.hook, d.key, d.payload, Meaning(reply))
      PROVE  InboxKept
  <2>1. Inbox!Next
    BY <1>1, <1>2, SenderAnswers
  <2> QED
    BY <1>1, <1>2, <2>1, ReplyRests DEF InboxKept
<1>3. ASSUME NEW reply \in {"unauthenticated", "disabled", "temporarily_unavailable", "capacity_exceeded"},
             Replied(s, reply), Keep
      PROVE  InboxKept
  <2>1. Meaning(reply) = "refused" /\ reply \in Replies \ {"none"}
    BY <1>3 DEF Meaning, Replies
  <2>2. DeliveryDecided(d.hook, d.key, d.payload, Meaning(reply))
    BY <1>3, <2>1 DEF DeliveryDecided, Keep
  <2> QED
    BY <1>2, <1>3, <2>1, <2>2
<1>4. CASE Keep /\ known # {} /\
           Replied(s, IF \E i \in known : occurrences[i].payload = d.payload THEN "duplicate" ELSE "conflict")
  <2>1. PICK reply \in {"duplicate", "conflict"} :
           reply = IF \E i \in known : occurrences[i].payload = d.payload THEN "duplicate" ELSE "conflict"
    OBVIOUS
  <2>2. Meaning(reply) = reply /\ reply \in Replies \ {"none"}
    BY DEF Meaning, Replies
  <2>3. DeliveryDecided(d.hook, d.key, d.payload, reply)
    BY <1>4, <2>1 DEF DeliveryDecided, Keep
  <2>4. Replied(s, reply)
    BY <1>4, <2>1
  <2> QED
    BY <1>2, <2>2, <2>3, <2>4
<1>5. CASE /\ known = {} /\ Record(d.hook, d.key, d.payload, Status(d.payload))
           /\ Replied(s, IF Status(d.payload) = "skipped" THEN "skipped" ELSE "materialized")
  <2>1. PICK reply \in {"skipped", "materialized"} : reply = IF Status(d.payload) = "skipped" THEN "skipped" ELSE "materialized"
    OBVIOUS
  <2>2. PICK status \in {"skipped", "run_created"} : status = Status(d.payload)
    BY DEF Status
  <2>3. Meaning(reply) = status /\ reply \in Replies \ {"none"}
    BY <2>1, <2>2 DEF Meaning, Replies
  <2>4. DeliveryDecided(d.hook, d.key, d.payload, status)
    BY <1>5, <2>2 DEF DeliveryDecided, Record
  <2>5. Replied(s, reply)
    BY <1>5, <2>1
  <2> QED
    BY <1>2, <2>3, <2>4, <2>5
<1> HIDE DEF d, known
<1> QED
  BY <1>3, <1>4, <1>5 DEF MaterializeWebhook, MaterializeFails, d, known

LEMMA EventAnswers ==
  ASSUME InboxInv, NEW p \in PublishCalls, MaterializeEvent(p)
  PROVE  InboxKept
<1> DEFINE q == publishers[p]
<1> DEFINE t == First(p)
<1> DEFINE known == Existing(t, q.event, q.payload)
<1>1. q.phase = "publishing" /\ q.todo # {} /\ senders' = senders
  BY DEF MaterializeEvent
<1>2. ASSUME NEW kind \in Kinds, DeliveryOutcome(p, kind), DeliveryDecided(t, q.event, q.payload, Meaning(kind))
      PROVE  InboxKept
  <2>1. Inbox!Next
    BY <1>1, <1>2, PublisherAnswers
  <2> QED
    BY <1>1, <1>2, <2>1, OutcomeRests DEF InboxKept
<1>3. ASSUME NEW kind \in {"stale", "capacity_deferred"}, DeliveryOutcome(p, kind), Keep PROVE InboxKept
  <2>1. Meaning(kind) = "refused" /\ kind \in Kinds
    BY <1>3 DEF Meaning, Kinds
  <2>2. DeliveryDecided(t, q.event, q.payload, Meaning(kind))
    BY <1>3, <2>1 DEF DeliveryDecided, Keep
  <2> QED
    BY <1>2, <1>3, <2>1, <2>2
<1>4. CASE /\ known # {} /\ Keep
           /\ DeliveryOutcome(p, IF \E i \in known : SameEvent(i, q.payload) THEN "duplicate" ELSE "event_id_conflict")
  <2>1. PICK kind \in {"duplicate", "event_id_conflict"} :
           kind = IF \E i \in known : SameEvent(i, q.payload) THEN "duplicate" ELSE "event_id_conflict"
    OBVIOUS
  <2>2. PICK answer \in {"duplicate", "conflict"} :
           answer = IF \E i \in known : SameEvent(i, q.payload) THEN "duplicate" ELSE "conflict"
    OBVIOUS
  <2>3. Meaning(kind) = answer /\ kind \in Kinds
    BY <2>1, <2>2 DEF Meaning, Kinds
  <2>4. DeliveryDecided(t, q.event, q.payload, answer)
    BY <1>4, <2>2 DEF DeliveryDecided, Keep, SameEvent
  <2>5. DeliveryOutcome(p, kind)
    BY <1>4, <2>1
  <2> QED
    BY <1>2, <2>3, <2>4, <2>5
<1>5. CASE known = {} /\ Record(t, q.event, q.payload, Status(q.payload)) /\ DeliveryOutcome(p, Status(q.payload))
  <2>1. PICK kind \in {"skipped", "run_created"} : kind = Status(q.payload)
    BY DEF Status
  <2>2. Meaning(kind) = kind /\ kind \in Kinds
    BY DEF Meaning, Kinds
  <2>3. DeliveryDecided(t, q.event, q.payload, kind)
    BY <1>5, <2>1 DEF DeliveryDecided, Record
  <2>4. DeliveryOutcome(p, kind)
    BY <1>5, <2>1
  <2> QED
    BY <1>2, <2>2, <2>3, <2>4
<1>6. CASE publishers' = [publishers EXCEPT ![p] = NoPublication] /\ Keep
  BY <1>1, <1>6, PublisherForgets DEF Keep
<1> HIDE DEF q, t, known
<1> QED
  BY <1>3, <1>4, <1>5, <1>6 DEF MaterializeEvent, q, t, known

LEMMA CompletionRests ==
  ASSUME InboxInv, NEW p \in PublishCalls, CompletePublication(p)
  PROVE  InboxKept
<1>1. PICK q : q = [publishers[p] EXCEPT !.phase = "complete"]
  OBVIOUS
<1>2. publishers[p] \in Publication /\ DeliveryShapes /\ publishers \in [PublishCalls -> Publication]
  BY DEF InboxInv, DInv, DeliveryShapes
<1>3. publishers' = [publishers EXCEPT ![p] = q] /\ senders' = senders /\ occurrences' = occurrences
  BY <1>1, <1>2 DEF CompletePublication
<1>4. /\ q.phase = "complete" /\ q.event = publishers[p].event /\ q.payload = publishers[p].payload
      /\ q.todo = publishers[p].todo /\ q.outcomes = publishers[p].outcomes
  BY <1>1, <1>2 DEF Publication
<1>5. ForgetsAtRest' /\ TriedOnce'
  <2>1. \A o \in q.outcomes : o.trigger \notin q.todo
    BY <1>4 DEF InboxInv, TriedOnce
  <2> QED
    BY <1>3, <1>4, <2>1, PublisherMoves
<1>6. PublicationOf(q) = PublicationOf(publishers[p])
  BY <1>4 DEF PublicationOf
<1>7. PICK c \in DeliveryClients : callBar[c] = PublicationOf(publishers[p]) /\ callBar' = [callBar EXCEPT ![c] = PublicationOf(q)]
  BY <1>2, <1>3, PublisherBar
<1>8. callBar' = callBar
  BY <1>6, <1>7, BarStays
<1> QED
  BY <1>3, <1>5, <1>8 DEF InboxKept

\* What the owner and the engine do, and nothing at all, no client sees.
LEMMA ClientsUntouched ==
  ASSUME InboxInv, UNCHANGED <<occurrences, senders, publishers>>
  PROVE  InboxKept
<1>1. callBar' = callBar
  BY ClientsRest
<1> QED
  BY <1>1 DEF InboxInv, ForgetsAtRest, TriedOnce, InboxKept

\* Every step of Deliveries keeps the invariant and is a step of the promise or none.
LEMMA InboxStep == InboxInv /\ [DeliveryNext]_deliveryVars => InboxInv' /\ [Inbox!Next]_<<occurrences, callBar>>
<1> SUFFICES ASSUME InboxInv, [DeliveryNext]_deliveryVars PROVE InboxKept
  BY DeliveryStepInv DEF InboxInv, InboxKept
<1>1. ASSUME NEW s \in Senders, Delivering(s) PROVE InboxKept
  <2>1. CASE EndCall(s)
    BY <2>1, SenderForgets DEF EndCall
  <2> QED
    BY <1>1, <2>1, ReceiveAnswers, WebhookAnswers DEF Delivering
<1>2. ASSUME NEW p \in PublishCalls, Publishing(p) PROVE InboxKept
  <2>1. CASE EndPublication(p)
    BY <2>1, PublisherForgets DEF EndPublication
  <2> QED
    BY <1>2, <2>1, EventAnswers, CompletionRests DEF Publishing
<1>3. ASSUME NEW t \in Hooks \union Listeners, RotateSecret(t) \/ ToggleTrigger(t) \/ DeleteTrigger(t) PROVE InboxKept
  BY <1>3, ClientsUntouched DEF RotateSecret, ToggleTrigger, DeleteTrigger, clients
<1>4. CASE ToggleTarget \/ RebindTarget \/ SettleJob
  BY <1>4, ClientsUntouched DEF ToggleTarget, RebindTarget, SettleJob, clients
<1>5. CASE UNCHANGED deliveryVars
  BY <1>5, ClientsUntouched DEF deliveryVars
<1>6. ASSUME NEW s \in Senders, NEW t \in Hooks, NEW secret \in 1..MaxSecret, NEW key \in EventKeys \union {NoKey},
             NEW payload \in Payloads, Call(s, t, secret, key, payload)
      PROVE  InboxKept
  BY <1>6, CallAsks
<1>7. ASSUME NEW p \in PublishCalls, NEW event \in EventKeys, NEW payload \in Payloads, Publish(p, event, payload)
      PROVE  InboxKept
  BY <1>7, PublishAsks
<1> QED
  BY <1>1, <1>2, <1>3, <1>4, <1>5, <1>6, <1>7 DEF DeliveryNext

LEMMA InboxStarts == DeliveryInit => Inbox!Init
<1> SUFFICES ASSUME DeliveryInit PROVE Inbox!Init
  OBVIOUS
<1>1. CallOf(NoDelivery) = Inbox!Idle /\ PublicationOf(NoPublication) = Inbox!Idle
  BY DEF CallOf, NoDelivery, PublicationOf, NoPublication, Inbox!Idle
<1>2. ASSUME NEW c \in DeliveryClients
      PROVE  (IF c[1] = "sender" THEN CallOf(senders[c[2]]) ELSE PublicationOf(publishers[c[2]])) = Inbox!Idle
  <2>1. CASE c[1] = "sender"
    <3>1. senders[c[2]] = NoDelivery
      BY <2>1 DEF DeliveryInit, DeliveryClients
    <3> QED
      BY <1>1, <2>1, <3>1
  <2>2. CASE c[1] # "sender"
    <3>1. publishers[c[2]] = NoPublication
      BY <2>2 DEF DeliveryInit, DeliveryClients
    <3> QED
      BY <1>1, <2>2, <3>1
  <2> QED
    BY <2>1, <2>2
<1>3. callBar = [c \in DeliveryClients |-> Inbox!Idle]
  BY <1>2 DEF callBar
<1> QED
  BY <1>3 DEF DeliveryInit, Inbox!Init

\* A client of the triggers, a webhook call or a publication, gets what
\* DeliveryInbox promises it: each trigger answers it once, at one moment at
\* which it took the delivery or did nothing, and under a key it took only one.
\* The authentication, the parsing and the reads before the transaction, the
\* owner, the secrets and the queue change nothing a client could tell.
THEOREM ImplementsInboxHolds == DeliverySpec => ImplementsInbox
BY InboxInitial, InboxStarts, InboxStep, PTL DEF DeliverySpec, ImplementsInbox, Inbox!Spec, Inbox!inboxVars
=============================================================================
