--------------------------- MODULE DeliveryInbox ---------------------------
(***************************************************************************)
(* What a client of the triggers is promised, with no secrets, bindings,   *)
(* queue or transactions: it asks to deliver one payload under one key to  *)
(* some triggers, and each trigger answers it once, at one moment at       *)
(* which it either takes the delivery or does nothing.  A trigger takes    *)
(* one delivery per key, so a client that lost its answer may ask again.   *)
(***************************************************************************)
EXTENDS Sequences

CONSTANTS
  Clients, Triggers, Keys, Payloads,
  NoKey,     \* the key of a delivery that may be repeated
  Outcomes   \* what is recorded of a delivery

VARIABLES
  inbox,     \* the deliveries taken, in order
  call       \* client -> what it asks, and the answers it has

inboxVars == <<inbox, call>>

Idle == [to |-> {}, key |-> NoKey, payload |-> 0, answers |-> {}]

Init == inbox = <<>> /\ call = [c \in Clients |-> Idle]

Ask(c, to, key, payload) ==
  /\ call[c] = Idle
  /\ call' = [call EXCEPT ![c] = [to |-> to, key |-> key, payload |-> payload, answers |-> {}]]
  /\ UNCHANGED inbox

Waiting(c, t) == t \in call[c].to /\ \A a \in call[c].answers : a.trigger # t
Answer(c, t, kind) ==
  /\ Waiting(c, t)
  /\ call' = [call EXCEPT ![c].answers = @ \union {[trigger |-> t, kind |-> kind]}]

\* The payloads a trigger took under a key.
Held(t, key) ==
  {inbox[i].payload : i \in {j \in DOMAIN inbox : key # NoKey /\ inbox[j].trigger = t /\ inbox[j].key = key}}

Take(c, t, status) ==
  /\ Held(t, call[c].key) = {} /\ Answer(c, t, status)
  /\ inbox' = Append(inbox, [trigger |-> t, key |-> call[c].key, payload |-> call[c].payload, status |-> status])
Recognise(c, t) ==
  call[c].payload \in Held(t, call[c].key) /\ Answer(c, t, "duplicate") /\ UNCHANGED inbox
Contradict(c, t) ==
  /\ Held(t, call[c].key) # {} /\ call[c].payload \notin Held(t, call[c].key)
  /\ Answer(c, t, "conflict") /\ UNCHANGED inbox
Refuse(c, t) == Answer(c, t, "refused") /\ UNCHANGED inbox

\* The client has its answers, or gives up, or they are lost.
Forget(c) == call' = [call EXCEPT ![c] = Idle] /\ UNCHANGED inbox

Step(c) ==
  \/ \E to \in SUBSET Triggers, key \in Keys \union {NoKey}, payload \in Payloads : Ask(c, to, key, payload)
  \/ \E t \in call[c].to :
       Recognise(c, t) \/ Contradict(c, t) \/ Refuse(c, t) \/ \E status \in Outcomes : Take(c, t, status)
  \/ Forget(c)

\* Every step is one client's.
Next == \E c \in Clients : call'[c] # call[c] /\ Step(c)

Spec == Init /\ [][Next]_inboxVars
=============================================================================
