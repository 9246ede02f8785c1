------------------------------ MODULE Platform ------------------------------
(***************************************************************************)
(* The parts around the job engine together: tool access, the MCP gateway, *)
(* the tool loop, packages and their hosts, deliveries, accounts, the      *)
(* marketplace and its installations, signing in, the Worker process.      *)
(* They share no row in these models; what several of them promise is      *)
(* stated here.                                                            *)
(***************************************************************************)
EXTENDS ToolAccess, Gateway, ToolLoop, Packages, PackageHost, Deliveries,
        Accounts, Marketplace, WorkerService, Acquisition, SignIn

\* What a tool call goes through on its way out: one usable session per MCP
\* connection, and a loop whose limits, transcript and usage are exact.
CallPathSound == GatewaySound /\ LoopSound

\* What is installed is complete, pinned by what uses it, handed to the installer
\* once per marketplace ticket, and run in a host that is bounded and does not outlive its Attempt.
InstalledSound == PackageSound /\ AcquisitionSound /\ HostSound

\* Credentials are spent once and never outlive what they rest on: of connected
\* accounts (Accounts), of the local administrator and of a marketplace sign-in.
CredentialsSound == AccountSound /\ SignInSound

\* What was decided stays decided: an approval (ToolAccess), a version's content
\* (Packages), an occurrence (Deliveries), a disconnection (Accounts), a release
\* (Marketplace), a disabled account (SignIn) and a stopped Worker's row
\* (WorkerService), whatever arrives late.
DecidedStays ==
    /\ DecisionFinal /\ PackagePinned /\ DeliveryFenced
    /\ DisconnectFinal /\ ReleaseFixed /\ DisabledStaysOut /\ BeatMonotone
=============================================================================
