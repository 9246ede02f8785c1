---------------------------- MODULE PackageHost -----------------------------
(***************************************************************************)
(* One Attempt of a package Run: the Worker's adapter, the host process it *)
(* launches, and the two pipes between them.                               *)
(*                                                                         *)
(* The adapter is a coroutine that may be cancelled at every await, those  *)
(* of its own clean-up included.  The host runs the package's code and is  *)
(* not trusted: it writes frames whenever it likes, reads what it is sent  *)
(* or not, and may exit with any code at any moment.  So a pipe is counted *)
(* in frames, and what a frame of the host says is decided when it is      *)
(* read: any type with any request id may stand anywhere.                  *)
(***************************************************************************)
EXTENDS Naturals, Sequences

CONSTANTS
    RequestIds,    \* protocol request ids the host uses
    MaxHostModels, \* RunLimits.max_model_calls
    MaxHostTools,  \* RunLimits.max_tool_calls
    OutputBudget,  \* MAX_TOTAL_OUTPUT_BYTES, in frames
    PipeRoom       \* frames a pipe and its buffers hold

ASSUME HostAssumption == MaxHostModels \in Nat /\ MaxHostTools \in Nat /\ OutputBudget \in Nat /\ PipeRoom \in Nat

VARIABLES
    adapter,       \* phase, what follows a write, outcome, what was left behind
    proc,          \* the child: alive, exit code, contained
    scratch,       \* the Attempt's scratch directory exists
    toHost,        \* frames written to its stdin and not read
    fromHost,      \* frames it has written and the adapter has not read
    session        \* request ids seen, calls served, how many answered, output used

hostVars == <<adapter, proc, scratch, toHost, fromHost, session>>

NoProc == [state |-> "none", code |-> 0, contained |-> FALSE]
Alive == proc.state = "alive"
Exited(code) == [proc EXCEPT !.state = "exited", !.code = code]
Killed == IF Alive THEN Exited(9) ELSE proc
NewHostSession == [seen |-> <<>>, models |-> 0, tools |-> 0, answered |-> 0, used |-> 0]

HostInit ==
    /\ adapter = [phase |-> "idle", then |-> "listening", outcome |-> "none", left |-> "nothing"]
    /\ proc = NoProc /\ scratch = FALSE
    /\ toHost = 0 /\ fromHost = 0 /\ session = NewHostSession

HostAt(phase) == adapter.phase = phase
HostGo(phase) == adapter' = [adapter EXCEPT !.phase = phase]
HostEndsAs(phase, outcome) == adapter' = [adapter EXCEPT !.phase = phase, !.outcome = outcome]
\* An exception on its way out of the session: a cancellation and a protocol
\* error ("error") are caught and ask the host to stop, any other ("raised"), a
\* ModelProviderError or a frame cut short, goes straight to the finally clause.
UnwindHost(outcome) == HostEndsAs(IF outcome = "raised" THEN "cleanup" ELSE "cancelling", outcome)
pipes == <<toHost, fromHost, session>>

-----------------------------------------------------------------------------
\* Launch.

SpawnHost ==
    /\ HostAt("idle") /\ scratch' = TRUE
    /\ \/ proc' = [NoProc EXCEPT !.state = "alive"] /\ HostGo("spawned")
       \/ UNCHANGED proc /\ \E outcome \in {"error", "cancelled"} : HostEndsAs("unspawned", outcome)
    /\ UNCHANGED pipes
\* No process: only the directory is to be removed.
SpawnFailed ==
    /\ HostAt("unspawned") /\ scratch' = FALSE /\ HostGo("done")
    /\ UNCHANGED <<proc, pipes>>
\* A child that cannot be contained or verified is killed and refused.  Any other
\* exception leaves the process, its handle and its directory: the try with the
\* finally clause begins after this one.
EstablishContainment ==
    /\ HostAt("spawned")
    /\ \/ proc' = [proc EXCEPT !.contained = TRUE] /\ HostGo("greeting")
       \/ /\ \E held \in BOOLEAN : proc' = [Killed EXCEPT !.contained = held]
          /\ HostEndsAs("refused", "error")
       \/ /\ \E held \in BOOLEAN : proc' = [proc EXCEPT !.contained = held]
          /\ adapter' = [adapter EXCEPT !.phase = "done", !.outcome = "error", !.left = "launched"]
    /\ UNCHANGED <<scratch, pipes>>

-----------------------------------------------------------------------------
\* The session.  Taking a frame charges the output budget.

Reads == fromHost > 0 /\ session.used < OutputBudget
Take == fromHost' = fromHost - 1
Charged == [session EXCEPT !.used = @ + 1]
WithinOutput == session.used <= OutputBudget

\* A frame that is not the one the phase expects ends the session.
Refused == session' = Charged /\ UnwindHost("error")
\* Expecting hello, then ready, under the start timeout.  A hello that lists too
\* few features for the package or for a workflow step is refused too.
Greeting ==
    /\ HostAt("greeting") /\ Reads /\ Take
    /\ \/ session' = Charged /\ adapter' = [adapter EXCEPT !.phase = "writing", !.then = "starting"]
       \/ Refused
    /\ UNCHANGED <<proc, scratch, toHost>>
Starting ==
    /\ HostAt("starting") /\ Reads /\ Take
    /\ \/ session' = Charged /\ adapter' = [adapter EXCEPT !.phase = "writing", !.then = "listening"]
       \/ Refused
    /\ UNCHANGED <<proc, scratch, toHost>>
\* initialize, run_request or a response: the write waits for room, without a
\* timeout of its own.
WriteFrame ==
    /\ HostAt("writing") /\ toHost < PipeRoom
    /\ toHost' = toHost + 1 /\ HostGo(adapter.then)
    /\ UNCHANGED <<proc, scratch, fromHost, session>>
StartTimesOut ==
    /\ adapter.phase \in {"greeting", "starting", "awaiting_exit"} /\ UnwindHost("error")
    /\ UNCHANGED <<proc, scratch, pipes>>

FreshRequest(id) == \A k \in DOMAIN session.seen : session.seen[k] # id
Within(calls, max) == calls < max
Noting(id) == [Charged EXCEPT !.seen = Append(@, id)]
\* A request id that was used before, for a call of either kind.
ReusedRequest ==
    /\ HostAt("listening") /\ Reads /\ Take /\ (\E id \in RequestIds : ~FreshRequest(id)) /\ Refused
    /\ UNCHANGED <<proc, scratch, toHost>>
ModelRequest ==
    /\ HostAt("listening") /\ Reads /\ Take
    /\ \E id \in RequestIds :
          /\ FreshRequest(id)
          /\ \/ /\ Within(session.models, MaxHostModels)
                /\ session' = [Noting(id) EXCEPT !.models = @ + 1] /\ HostGo("serving")
             \/ ~Within(session.models, MaxHostModels) /\ session' = Noting(id) /\ UnwindHost("raised")
    /\ UNCHANGED <<proc, scratch, toHost>>
\* A tool that is undeclared, unbound or gone is answered and not counted.
ToolRequest ==
    /\ HostAt("listening") /\ Reads /\ Take
    /\ \E id \in RequestIds :
          /\ FreshRequest(id)
          /\ \/ /\ Within(session.tools, MaxHostTools)
                /\ session' = [Noting(id) EXCEPT !.tools = @ + 1] /\ HostGo("serving")
             \/ ~Within(session.tools, MaxHostTools) /\ session' = Noting(id) /\ UnwindHost("raised")
             \/ session' = Noting(id) /\ HostGo("serving")
    /\ UNCHANGED <<proc, scratch, toHost>>
\* The model or the mediator returns; the response names the request last seen.
Serve ==
    /\ HostAt("serving") /\ adapter' = [adapter EXCEPT !.phase = "writing", !.then = "listening"]
    /\ session' = [session EXCEPT !.answered = @ + 1]
    /\ UNCHANGED <<proc, scratch, toHost, fromHost>>
\* A malformed request, or a failing provider, goes through the adapter.
ServeRaises ==
    /\ HostAt("serving") /\ \E outcome \in {"raised", "error"} : UnwindHost(outcome)
    /\ UNCHANGED <<proc, scratch, pipes>>
\* run_result, or a frame that is neither a request nor a result.
RunResult ==
    /\ HostAt("listening") /\ Reads /\ Take
    /\ \/ session' = Charged /\ HostGo("awaiting_exit")
       \/ Refused
    /\ UNCHANGED <<proc, scratch, toHost>>
CleanExit == proc.state = "exited" /\ proc.code = 0
\* Nothing more is read from stdout.  The result itself may still be refused.
HostExited ==
    /\ HostAt("awaiting_exit") /\ proc.state = "exited"
    /\ \/ CleanExit /\ WithinOutput /\ HostEndsAs("cleanup", "success")
       \/ \E outcome \in {"error", "raised"} : UnwindHost(outcome)
    /\ UNCHANGED <<proc, scratch, pipes>>
\* End of file or a broken frame; the exhausted budget; a write to a dead host.
SessionBreaks ==
    /\ \/ adapter.phase \in {"greeting", "starting", "listening"} /\ (fromHost > 0 \/ ~Alive)
       \/ HostAt("writing") /\ ~Alive
    /\ \E outcome \in {"error", "raised"} : UnwindHost(outcome)
    /\ UNCHANGED <<proc, scratch, pipes>>
InSession == adapter.phase \in {"greeting", "starting", "writing", "listening", "serving", "awaiting_exit"}
\* The stderr task shares the budget and kills the host that exhausts it.
DiscardStderr ==
    /\ (InSession \/ adapter.phase \in {"cancelling", "grace", "sigterm"}) /\ session.used <= OutputBudget
    /\ session' = Charged
    /\ proc' = IF session.used = OutputBudget THEN Killed ELSE proc
    /\ UNCHANGED <<adapter, scratch, toHost, fromHost>>
\* The executor cancels the coroutine: the Run's deadline, its cancellation, a
\* lost lease.
CancelAdapter ==
    /\ InSession /\ UnwindHost("cancelled")
    /\ UNCHANGED <<proc, scratch, pipes>>

-----------------------------------------------------------------------------
\* _cancel, then the finally clause.

\* The cancel frame waits for room like every other, and has no timeout either;
\* a write to a dead host fails and the call goes on.
AskToStop ==
    /\ HostAt("cancelling")
    /\ \/ toHost < PipeRoom /\ toHost' = toHost + 1 /\ HostGo("grace")
       \/ ~Alive /\ UNCHANGED toHost /\ HostGo("terminating")
    /\ UNCHANGED <<proc, scratch, fromHost, session>>
\* The first grace ends, with the host gone or SIGTERM sent to it.
Grace ==
    /\ HostAt("grace")
    /\ \/ ~Alive /\ HostGo("terminating")
       \/ Alive /\ HostGo("sigterm")
    /\ UNCHANGED <<proc, scratch, pipes>>
\* The second ends: a host that ignored SIGTERM is killed.
TermThenKill ==
    /\ HostAt("sigterm") /\ HostGo("terminating") /\ proc' = Killed
    /\ UNCHANGED <<scratch, pipes>>
\* SIGTERM or SIGKILL to a host whose exit was just noticed raises out of _cancel.
SignalFails ==
    /\ adapter.phase \in {"grace", "sigterm"} /\ ~Alive /\ HostEndsAs("cleanup", "error")
    /\ UNCHANGED <<proc, scratch, pipes>>
TerminateContainment ==
    /\ HostAt("terminating") /\ HostGo("cleanup")
    /\ proc' = [Killed EXCEPT !.contained = FALSE]
    /\ UNCHANGED <<scratch, pipes>>
\* The finally clause; with a host still alive it is killed and awaited first.
Cleanup ==
    /\ HostAt("cleanup")
    /\ IF Alive THEN HostGo("reaping") /\ proc' = [Killed EXCEPT !.contained = FALSE] /\ UNCHANGED scratch
       ELSE HostGo("done") /\ scratch' = FALSE /\ proc' = [proc EXCEPT !.contained = FALSE]
    /\ UNCHANGED pipes
\* The killed host's exit is seen, in the finally clause or in the refusal.
Reap ==
    /\ adapter.phase \in {"reaping", "refused"} /\ HostGo("done")
    /\ scratch' = FALSE /\ proc' = [proc EXCEPT !.contained = FALSE]
    /\ UNCHANGED pipes
\* A second cancellation lands in the clean-up itself.  In _cancel it leads to the
\* finally clause; in the two waits for a killed host it skips what follows them.
\* (The last await, of the stderr task, swallows it.)
CancelCleanup ==
    /\ \/ adapter.phase \in {"cancelling", "grace", "sigterm"} /\ HostEndsAs("cleanup", "cancelled")
       \/ /\ adapter.phase \in {"reaping", "refused"}
          /\ adapter' = [adapter EXCEPT !.phase = "done", !.outcome = "cancelled", !.left = "killed"]
    /\ UNCHANGED <<proc, scratch, pipes>>

Adapter ==
    \/ SpawnHost \/ SpawnFailed \/ EstablishContainment
    \/ Greeting \/ Starting \/ WriteFrame \/ StartTimesOut \/ ReusedRequest \/ ModelRequest \/ ToolRequest
    \/ Serve \/ ServeRaises \/ RunResult \/ HostExited \/ SessionBreaks
    \/ AskToStop \/ Grace \/ TermThenKill \/ SignalFails \/ TerminateContainment \/ Cleanup \/ Reap

-----------------------------------------------------------------------------
\* The host process: the package's code decides what it does.

HostSays ==
    /\ Alive /\ fromHost < PipeRoom /\ fromHost' = fromHost + 1
    /\ UNCHANGED <<adapter, proc, scratch, toHost, session>>
HostReads ==
    /\ Alive /\ toHost > 0 /\ toHost' = toHost - 1
    /\ UNCHANGED <<adapter, proc, scratch, fromHost, session>>
HostEnds ==
    /\ Alive /\ \E code \in {0, 1} : proc' = Exited(code)
    /\ UNCHANGED <<adapter, scratch, pipes>>
Host == HostSays \/ HostReads \/ HostEnds

HostNext == Adapter \/ DiscardStderr \/ CancelAdapter \/ CancelCleanup \/ Host
\* The adapter's coroutine is scheduled and its timeouts fire; the Run's
\* deadline cancels it in the end; nothing is assumed of the host.
HostSpec == HostInit /\ [][HostNext]_hostVars /\ WF_hostVars(Adapter) /\ WF_hostVars(CancelAdapter)

-----------------------------------------------------------------------------
\* Properties.

\* When run returns or raises, no process of the Attempt runs, unless its launch
\* raised something else than ContainmentUnavailable; no containment handle and no
\* scratch directory is left, unless that or a cancellation caught in the wait for
\* the killed process; and a success ended cleanly within its output.
HostReaped ==
    HostAt("done") =>
        /\ Alive => adapter.left = "launched"
        /\ proc.contained \/ scratch => adapter.left # "nothing"
        /\ adapter.outcome = "success" =>
              proc.state = "exited" /\ proc.code = 0 /\ session.used <= OutputBudget /\ ~scratch

\* The limits hold whatever the package sends, one request is in service at a
\* time, and no request id is answered twice.
HostBounded ==
    /\ session.models <= MaxHostModels /\ session.tools <= MaxHostTools
    /\ Len(session.seen) - session.answered \in {0, 1}
    /\ \A j, k \in 1..session.answered : session.seen[j] = session.seen[k] => j = k

\* The two together.
HostSound == HostReaped /\ HostBounded

\* A host that hangs, ignores cancel or ignores SIGTERM does not hold the session
\* for ever; one that stops reading its stdin does, from the moment it is full.
Unwritable == HostAt("cancelling") /\ Alive /\ toHost = PipeRoom
SessionOver == HostAt("idle") \/ HostAt("done") \/ Unwritable
SessionEnds == []<>SessionOver
=============================================================================
