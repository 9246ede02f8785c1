------------------------------ MODULE Gateway ------------------------------
(***************************************************************************)
(* The Worker's MCP gateway: the client sessions it caches, one per        *)
(* connection, the creation several callers share, and the teardown.       *)
(*                                                                         *)
(* asyncio runs one coroutine at a time, from one await to the next; an    *)
(* action is such a stretch.  The creation lock is held over no await, so  *)
(* the decision to join or to create is one action.  A task that is        *)
(* cancelled cancels the future it awaits: that is asyncio's rule, and the *)
(* creation's future is awaited by every caller that joined it.            *)
(***************************************************************************)
EXTENDS Naturals, Sequences, FiniteSets, SequencesExt

CONSTANTS
    Peers,        \* connection ids
    Callers,      \* tool calls of the Worker's Attempts, each made once
    MaxSessions   \* bound: sessions ever created

ASSUME GatewayAssumption == MaxSessions \in Nat \ {0}

VARIABLES
    enabled,      \* the durable rows: connection -> may be called
    cache,        \* _sessions: sessions in insertion order
    pending,      \* _pending: connection -> the session being created, 0 for none
    sessions,     \* every session ever created: its connection, its owner, its future
    callers       \* caller -> phase, connection, session, outcome

gatewayVars == <<enabled, cache, pending, sessions, callers>>

CallPhase == {"idle", "joining", "calling", "invalidating", "done"}
Outcome == {"none", "answered", "failed", "unknown", "cancelled"}
Ids == 1..Len(sessions)
Of(c) == {i \in DOMAIN cache : sessions[cache[i]].peer = c}
Cached(c) == IF Of(c) = {} THEN 0 ELSE cache[CHOOSE i \in Of(c) : TRUE]
SetCaller(a, new) == callers' = [callers EXCEPT ![a] = new]

Fresh == [phase |-> "idle", peer |-> 0, session |-> 0, closing |-> 0, then |-> "none", outcome |-> "none"]
Returned(outcome) == [Fresh EXCEPT !.phase = "done", !.outcome = outcome]
Done(a, outcome) == SetCaller(a, Returned(outcome))

GatewayInit ==
    /\ enabled = [c \in Peers |-> TRUE]
    /\ cache = <<>> /\ pending = [c \in Peers |-> 0] /\ sessions = <<>>
    /\ callers = [a \in Callers |-> Fresh]

-----------------------------------------------------------------------------
\* call_tool up to its first await.

\* Mutant: the owner starts before its future exists.
SessionWithoutFuture(c) == [peer |-> c, owner |-> "opening", old |-> FALSE, ready |-> "none"]
NewSession(c) == [peer |-> c, owner |-> "opening", old |-> FALSE, ready |-> "waiting"]

\* Mutant: the creation under way is not looked up.
AlwaysCreate(a, c, caller) ==
    \/ /\ Cached(c) # 0
       /\ SetCaller(a, [caller EXCEPT !.phase = "calling", !.session = Cached(c)])
       /\ UNCHANGED <<sessions, pending>>
    \/ /\ Cached(c) = 0 /\ Len(sessions) < MaxSessions
       /\ sessions' = Append(sessions, NewSession(c))
       /\ pending' = [pending EXCEPT ![c] = Len(sessions')]
       /\ SetCaller(a, [caller EXCEPT !.phase = "joining", !.session = Len(sessions')])
\* _create_session: a live session, else the creation under way, else a new one.
JoinOrCreate(a, c, caller) ==
    \/ /\ Cached(c) # 0
       /\ SetCaller(a, [caller EXCEPT !.phase = "calling", !.session = Cached(c)])
       /\ sessions' = [sessions EXCEPT ![Cached(c)].old = FALSE]
       /\ UNCHANGED pending
    \/ /\ Cached(c) = 0 /\ pending[c] # 0
       /\ SetCaller(a, [caller EXCEPT !.phase = "joining", !.session = pending[c]])
       /\ UNCHANGED <<sessions, pending>>
    \/ /\ Cached(c) = 0 /\ pending[c] = 0 /\ Len(sessions) < MaxSessions
       /\ sessions' = Append(sessions, NewSession(c))
       /\ pending' = [pending EXCEPT ![c] = Len(sessions')]
       /\ SetCaller(a, [caller EXCEPT !.phase = "joining", !.session = Len(sessions')])


\* The newest session leaves the cache before its owner is asked to close.
PopNewest(a, caller) ==
    LET s == Last(cache) IN
    /\ cache' = Front(cache)
    /\ sessions' = [sessions EXCEPT ![s] = [sessions[s] EXCEPT !.owner = "closing", !.old = FALSE]]
    /\ SetCaller(a, [caller EXCEPT !.phase = "invalidating", !.closing = s])

CallTool(a, c) ==
    LET caller == [callers[a] EXCEPT !.peer = c] IN
    /\ callers[a].phase = "idle"
    /\ \/ /\ ~enabled[c]
          /\ Done(a, "failed")
          /\ UNCHANGED <<cache, pending, sessions>>
       \/ /\ enabled[c] /\ Cached(c) # 0 /\ sessions[Cached(c)].old
          /\ PopNewest(a, [caller EXCEPT !.then = "create"]) /\ UNCHANGED pending
       \/ /\ enabled[c] /\ ~(Cached(c) # 0 /\ sessions[Cached(c)].old)
          /\ JoinOrCreate(a, c, caller) /\ UNCHANGED cache
    /\ UNCHANGED enabled

-----------------------------------------------------------------------------
\* The owner task of a session.

OpenClient(s) ==
    /\ sessions[s].owner = "opening"
    /\ sessions' = [sessions EXCEPT ![s] =
          [sessions[s] EXCEPT !.owner = "live", !.ready = IF sessions[s].ready = "waiting" THEN "set" ELSE sessions[s].ready]]
    /\ cache' = Append(cache, s)
    /\ pending' = [pending EXCEPT ![sessions[s].peer] = 0]
    /\ UNCHANGED <<enabled, callers>>

\* Mutant: a failed opening is logged and its future left alone.
FailSilently(s) ==
    /\ sessions[s].owner = "opening"
    /\ sessions' = [sessions EXCEPT ![s].owner = "closed"]
    /\ pending' = [pending EXCEPT ![sessions[s].peer] = 0]
    /\ UNCHANGED <<enabled, cache, callers>>
FailToOpen(s) ==
    /\ sessions[s].owner = "opening"
    /\ sessions' = [sessions EXCEPT ![s] =
          [sessions[s] EXCEPT !.owner = "closed", !.ready = IF sessions[s].ready = "waiting" THEN "failed" ELSE sessions[s].ready]]
    /\ pending' = [pending EXCEPT ![sessions[s].peer] = 0]
    /\ UNCHANGED <<enabled, cache, callers>>

\* Asked to close, it leaves the cache if it is still there, then its context.
CloseClient(s) ==
    /\ sessions[s].owner = "closing"
    /\ sessions' = [sessions EXCEPT ![s].owner = "closed"]
    /\ cache' = IF s \in Range(cache) THEN SelectSeq(cache, LAMBDA x : x # s) ELSE cache
    /\ UNCHANGED <<enabled, pending, callers>>

\* IDLE_EXPIRY_SECONDS pass since a call last began on it.
GrowOld(s) ==
    /\ sessions[s].owner = "live" /\ ~sessions[s].old
    /\ sessions' = [sessions EXCEPT ![s].old = TRUE]
    /\ UNCHANGED <<enabled, cache, pending, callers>>

-----------------------------------------------------------------------------
\* The callers after their awaits.

JoinReturns(a) ==
    LET r == sessions[callers[a].session].ready IN
    /\ callers[a].phase = "joining" /\ r # "waiting"
    /\ \/ r = "set" /\ SetCaller(a, [callers[a] EXCEPT !.phase = "calling"])
       \/ r = "failed" /\ Done(a, "failed")
       \/ r = "cancelled" /\ Done(a, "cancelled")
    /\ UNCHANGED <<enabled, cache, pending, sessions>>

Answer(a) ==
    /\ callers[a].phase = "calling" /\ sessions[callers[a].session].owner = "live"
    /\ Done(a, "answered")
    /\ UNCHANGED <<enabled, cache, pending, sessions>>

\* An exception in the call, whether the server's or of a client closed under it.
CallRaises(a) ==
    LET caller == [callers[a] EXCEPT !.then = "unknown"] IN
    /\ callers[a].phase = "calling"
    /\ \/ Of(caller.peer) = {} /\ Done(a, "unknown") /\ UNCHANGED <<cache, sessions>>
       \/ Of(caller.peer) # {} /\ PopNewest(a, caller)
    /\ UNCHANGED <<enabled, pending>>

\* invalidate resumes when the owner it awaits has closed: on to the next newest, until it has
\* closed the one it was asked for or nothing is left.  A cancelled caller goes no further.
Invalidated(a) == sessions[callers[a].closing].peer = callers[a].peer \/ cache = <<>>
InvalidateReturns(a) ==
    LET caller == callers[a] IN
    /\ caller.phase = "invalidating" /\ sessions[caller.closing].owner = "closed"
    /\ \/ /\ caller.then = "told" /\ SetCaller(a, [Returned("cancelled") EXCEPT !.then = "told"])
          /\ UNCHANGED <<cache, pending, sessions>>
       \/ caller.then # "told" /\ ~Invalidated(a) /\ PopNewest(a, caller) /\ UNCHANGED pending
       \/ /\ Invalidated(a) /\ caller.then = "unknown"
          /\ Done(a, "unknown") /\ UNCHANGED <<cache, pending, sessions>>
       \/ /\ Invalidated(a) /\ caller.then = "create"
          /\ JoinOrCreate(a, caller.peer, [caller EXCEPT !.closing = 0, !.then = "none"]) /\ UNCHANGED cache
    /\ UNCHANGED enabled

\* The tool timeout, the deadline or a cancellation ends the caller's task where it awaits.  Awaiting
\* an owner it cancels that task too, which still leaves its context, and ends when the owner has.
CancelCaller(a) ==
    LET caller == callers[a] IN
    /\ \/ /\ caller.phase \in {"joining", "calling"}
          /\ sessions' = IF caller.phase = "joining" /\ sessions[caller.session].ready = "waiting"
                         THEN [sessions EXCEPT ![caller.session].ready = "cancelled"] ELSE sessions
          /\ SetCaller(a, [Returned("cancelled") EXCEPT !.then = "told"])
       \/ /\ caller.phase = "invalidating" /\ caller.then # "told"
          /\ SetCaller(a, [caller EXCEPT !.then = "told"])
          /\ UNCHANGED sessions
    /\ UNCHANGED <<enabled, cache, pending>>

\* The owner disables the connection: the cache is not told.
DisablePeer(c) ==
    /\ enabled[c] /\ enabled' = [enabled EXCEPT ![c] = FALSE]
    /\ UNCHANGED <<cache, pending, sessions, callers>>

GatewayNext ==
    \/ \E a \in Callers, c \in Peers : CallTool(a, c)
    \/ \E s \in Ids : OpenClient(s) \/ FailToOpen(s) \/ CloseClient(s) \/ GrowOld(s)
    \/ \E a \in Callers : JoinReturns(a) \/ Answer(a) \/ CallRaises(a) \/ InvalidateReturns(a) \/ CancelCaller(a)
    \/ \E c \in Peers : DisablePeer(c)

\* The event loop runs what is ready; a server that is asked answers, refuses or fails.
Loop ==
    \/ \E s \in Ids : OpenClient(s) \/ FailToOpen(s) \/ CloseClient(s)
    \/ \E a \in Callers : JoinReturns(a) \/ Answer(a) \/ CallRaises(a) \/ InvalidateReturns(a)
GatewaySpec == GatewayInit /\ [][GatewayNext]_gatewayVars /\ WF_gatewayVars(Loop)

-----------------------------------------------------------------------------
GatewayTypeOK ==
    /\ \A s \in Ids : /\ sessions[s].owner \in {"opening", "live", "closing", "closed"}
                      /\ sessions[s].ready \in {"waiting", "set", "failed", "cancelled"}
    /\ \A c \in Peers : pending[c] \in Ids \cup {0}
    /\ \A a \in Callers : /\ callers[a].phase \in CallPhase /\ callers[a].outcome \in Outcome
                          /\ callers[a].session \in Ids \cup {0}

\* "Exactly one per connection, whatever the race": a connection has at most one session that is
\* being opened or may be handed out, and the cache never holds one that is being torn down.
OneUsableSession ==
    /\ \A c \in Peers : Cardinality({s \in Ids : sessions[s].peer = c /\ sessions[s].owner \in {"opening", "live"}}) <= 1
    /\ \A i \in DOMAIN cache : sessions[cache[i]].owner = "live"

\* No caller hangs: one that joined a creation, waits for a teardown or for its answer gets an end,
\* whoever else was cancelled, failed or tore the session down meanwhile.
CallersServed == \A a \in Callers : callers[a].phase \in {"idle", "done"}
CallsEnd == []<>CallersServed

\* The parts together.
GatewaySound == GatewayTypeOK /\ OneUsableSession
=============================================================================
