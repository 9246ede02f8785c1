---------------------------- MODULE Acquisition -----------------------------
(***************************************************************************)
(* Installing one marketplace release: MarketplaceInstallService.  A       *)
(* ticket keeps what the owner saw; preparing downloads and verifies the   *)
(* archive, installing compares the release again and hands the file to    *)
(* the package installer.  Each UPDATE is one transaction that names the   *)
(* states it accepts; between them the service awaits the marketplace, a   *)
(* thread or the installer, and other requests run.                        *)
(*                                                                         *)
(* The release is what its status says (Marketplace models who writes it), *)
(* the local version is the status of its row (Packages).  A revoked       *)
(* release is refused, a yanked one was acknowledged.  Every ticket is for *)
(* the same release, so its digests are one archive.                       *)
(***************************************************************************)
EXTENDS Naturals, FiniteSets

CONSTANTS
    Tickets,         \* marketplace_install_requests ids
    Requests,        \* API requests in progress
    Files,           \* names of temporary files
    MaxOpenTickets,  \* tickets created, downloaded or approved at once
    MaxStatusChange  \* bound: status_revision of the release

ASSUME AcquisitionAssumption == MaxOpenTickets \in Nat

VARIABLES
    offer,           \* the hosted release: distribution_state, status_revision
    localVersion,    \* installed_package_versions status of the release's version
    ticket,          \* ticket -> row, and whether its hour is over
    spool,           \* files in temporary_root: absent, fresh, old
    request          \* request -> phase, ticket, what it read

acquisitionVars == <<offer, localVersion, ticket, spool, request>>

NoFile == "no file"
NoTicket == [state |-> "absent", dist |-> "available", revision |-> 0, path |-> NoFile, aged |-> FALSE]
NoRequest == [phase |-> "idle", ticket |-> "none", seen |-> "absent", dist |-> "available", revision |-> 0, file |-> NoFile]

AcquisitionInit ==
    /\ offer = [dist |-> "available", revision |-> 1] /\ localVersion = "none"
    /\ ticket = [t \in Tickets |-> NoTicket]
    /\ spool = [f \in Files |-> "absent"]
    /\ request = [r \in Requests |-> NoRequest]

OpenTickets == {t \in Tickets : ticket[t].state \in {"created", "downloaded", "approved"}}
PhaseOf(r) == request[r].phase
TicketOf(r) == request[r].ticket
Moves(r, phase) == request' = [request EXCEPT ![r].phase = phase]
Answered(r) == request' = [request EXCEPT ![r] = NoRequest]
\* _mark_failed: only from the state the caller expects; the path stays.
MarkTicketFailed(t, expected) ==
    ticket' = IF ticket[t].state = expected THEN [ticket EXCEPT ![t].state = "failed"] ELSE ticket
\* The request ends by deleting the file it knows of, if any.
ThenUnlink(r) == IF request[r].file = NoFile THEN Answered(r) ELSE Moves(r, "unlinking")
Unlink(r) ==
    /\ PhaseOf(r) = "unlinking" /\ spool' = [spool EXCEPT ![request[r].file] = "absent"] /\ Answered(r)
    /\ UNCHANGED <<offer, localVersion, ticket>>

-----------------------------------------------------------------------------
\* create: expired tickets go first, then the release is read, then inserted.

Lapsed == {t \in Tickets : ticket[t].state \in {"created", "downloaded"} /\ ticket[t].aged}
Withdrawn == [t \in Tickets |-> IF t \in Lapsed THEN [ticket[t] EXCEPT !.state = "failed", !.path = NoFile] ELSE ticket[t]]
BeginTicket(r) ==
    /\ PhaseOf(r) = "idle" /\ offer.dist # "revoked"
    /\ ticket' = Withdrawn
    /\ spool' = IF Lapsed = {} THEN spool
                ELSE [f \in Files |-> IF spool[f] = "old" /\ \A t \in Tickets : Withdrawn[t].path # f THEN "absent" ELSE spool[f]]
    /\ request' = [request EXCEPT ![r] = [NoRequest EXCEPT !.phase = "admitting", !.dist = offer.dist, !.revision = offer.revision]]
    /\ UNCHANGED <<offer, localVersion>>
\* Mutant: a ticket handed to the installer no longer counts.
RoomBesideApproved == Cardinality({t \in OpenTickets : ticket[t].state # "approved"}) < MaxOpenTickets
HasTicketRoom == Cardinality(OpenTickets) < MaxOpenTickets
InsertTicket(r, t) ==
    /\ PhaseOf(r) = "admitting" /\ ticket[t].state = "absent" /\ Answered(r)
    /\ ticket' = IF HasTicketRoom
                 THEN [ticket EXCEPT ![t] = [NoTicket EXCEPT !.state = "created", !.dist = request[r].dist, !.revision = request[r].revision]]
                 ELSE ticket
    /\ UNCHANGED <<offer, localVersion, spool>>

\* cancel: the path was read before the UPDATE.
BeginCancel(r, t) ==
    /\ PhaseOf(r) = "idle" /\ ticket[t].state # "absent"
    /\ request' = [request EXCEPT ![r] = [NoRequest EXCEPT !.phase = "cancelling", !.ticket = t, !.file = ticket[t].path]]
    /\ UNCHANGED <<offer, localVersion, ticket, spool>>
CommitCancel(r) ==
    /\ PhaseOf(r) = "cancelling"
    /\ \/ /\ ticket[TicketOf(r)].state \in {"created", "downloaded", "failed"} /\ ThenUnlink(r)
          /\ ticket' = [ticket EXCEPT ![TicketOf(r)] = [ticket[TicketOf(r)] EXCEPT !.state = "failed", !.path = NoFile]]
       \/ /\ ticket[TicketOf(r)].state \notin {"created", "downloaded", "failed"} /\ Answered(r) /\ UNCHANGED ticket
    /\ UNCHANGED <<offer, localVersion, spool>>

-----------------------------------------------------------------------------
\* prepare.

Reading(r, t, phase) ==
    request' = [request EXCEPT ![r] = [NoRequest EXCEPT !.phase = phase, !.ticket = t, !.seen = ticket[t].state, !.file = ticket[t].path]]
\* _require_unexpired comes before the state is looked at.
BeginPrepare(r, t) ==
    /\ PhaseOf(r) = "idle" /\ ticket[t].state # "absent"
    /\ \/ ticket[t].aged /\ Reading(r, t, "expiring")
       \/ ~ticket[t].aged /\ ticket[t].state = "created" /\ Reading(r, t, "downloading")
    /\ UNCHANGED <<offer, localVersion, ticket, spool>>
ExpireTicket(r) ==
    /\ PhaseOf(r) = "expiring" /\ MarkTicketFailed(TicketOf(r), request[r].seen) /\ ThenUnlink(r)
    /\ UNCHANGED <<offer, localVersion, spool>>
DownloadFails(r) ==
    /\ PhaseOf(r) = "downloading" /\ MarkTicketFailed(TicketOf(r), "created") /\ Answered(r)
    /\ UNCHANGED <<offer, localVersion, spool>>
Download(r, f) ==
    /\ PhaseOf(r) = "downloading" /\ spool[f] = "absent" /\ \A t \in Tickets : ticket[t].path # f
    /\ \A q \in Requests : request[q].file # f
    /\ spool' = [spool EXCEPT ![f] = "fresh"]
    /\ request' = [request EXCEPT ![r] = [request[r] EXCEPT !.phase = "verifying", !.file = f]]
    /\ UNCHANGED <<offer, localVersion, ticket>>
VerifyLocally(r) ==
    /\ PhaseOf(r) = "verifying"
    /\ \/ Moves(r, "storing") /\ UNCHANGED <<ticket, spool>>
       \/ /\ spool' = [spool EXCEPT ![request[r].file] = "absent"]
          /\ MarkTicketFailed(TicketOf(r), "created") /\ Answered(r)
    /\ UNCHANGED <<offer, localVersion>>
RecordDownload(r) ==
    /\ PhaseOf(r) = "storing"
    /\ \/ /\ ticket[TicketOf(r)].state = "created" /\ Answered(r)
          /\ ticket' = [ticket EXCEPT ![TicketOf(r)] = [ticket[TicketOf(r)] EXCEPT !.state = "downloaded", !.path = request[r].file]]
       \/ /\ ticket[TicketOf(r)].state # "created" /\ Moves(r, "unlinking") /\ UNCHANGED ticket
    /\ UNCHANGED <<offer, localVersion, spool>>

-----------------------------------------------------------------------------
\* install.

\* Mutant: an approved ticket is taken for an installed one.
SettlesAnyway == TRUE
LocallyActive == localVersion = "active"
BeginHandOff(r, t) ==
    /\ PhaseOf(r) = "idle"
    /\ \/ ticket[t].state = "approved" /\ LocallyActive /\ Reading(r, t, "settling")
       \/ ticket[t].state \in {"created", "downloaded", "failed"} /\ ticket[t].aged /\ Reading(r, t, "expiring")
       \/ ticket[t].state = "downloaded" /\ ~ticket[t].aged /\ ticket[t].path # NoFile /\ Reading(r, t, "asking")
    /\ UNCHANGED <<offer, localVersion, ticket, spool>>
\* A crash after the installer committed: no second installation.
SettleApproved(r) ==
    /\ PhaseOf(r) = "settling" /\ ThenUnlink(r)
    /\ ticket' = IF ticket[TicketOf(r)].state = "approved" THEN [ticket EXCEPT ![TicketOf(r)] = [ticket[TicketOf(r)] EXCEPT !.state = "installed", !.path = NoFile]] ELSE ticket
    /\ UNCHANGED <<offer, localVersion, spool>>
Unchanged(t) == offer = [dist |-> ticket[t].dist, revision |-> ticket[t].revision]
AskAgain(r) ==
    /\ PhaseOf(r) = "asking"
    /\ \/ Unchanged(TicketOf(r)) /\ Moves(r, "approving") /\ UNCHANGED ticket
       \/ ~Unchanged(TicketOf(r)) /\ MarkTicketFailed(TicketOf(r), "downloaded") /\ Moves(r, "unlinking")
    /\ UNCHANGED <<offer, localVersion, spool>>
\* Mutant: the UPDATE names no state.
ApprovableAgain(t) == ticket[t].state \in {"downloaded", "approved"}
Approvable(t) == ticket[t].state = "downloaded"
Approve(r) ==
    /\ PhaseOf(r) = "approving"
    /\ \/ Approvable(TicketOf(r)) /\ ticket' = [ticket EXCEPT ![TicketOf(r)].state = "approved"] /\ Moves(r, "installing")
       \/ ~Approvable(TicketOf(r)) /\ Answered(r) /\ UNCHANGED ticket
    /\ UNCHANGED <<offer, localVersion, spool>>
\* packages.install: the file is copied, the row begun or found.
CallInstaller(r) ==
    /\ PhaseOf(r) = "installing"
    /\ \/ spool[request[r].file] # "absent" /\ localVersion \in {"none", "failed"} /\ localVersion' = "installing" /\ Moves(r, "building")
       \/ spool[request[r].file] # "absent" /\ localVersion \in {"installed", "active"} /\ Moves(r, "closing") /\ UNCHANGED localVersion
       \/ spool[request[r].file] = "absent" /\ Moves(r, "failing") /\ UNCHANGED localVersion
       \/ localVersion = "installing" /\ Moves(r, "failing") /\ UNCHANGED localVersion
    /\ UNCHANGED <<offer, ticket, spool>>
InstallerWorks(r) ==
    /\ PhaseOf(r) = "building"
    /\ \/ localVersion = "installing" /\ localVersion' = "installed" /\ UNCHANGED request
       \/ localVersion = "installed" /\ localVersion' = "active" /\ Moves(r, "closing")
       \/ localVersion' = "failed" /\ Moves(r, "failing")
    /\ UNCHANGED <<offer, ticket, spool>>
FailHandOff(r) ==
    /\ PhaseOf(r) = "failing" /\ MarkTicketFailed(TicketOf(r), "approved") /\ Answered(r)
    /\ spool' = [spool EXCEPT ![request[r].file] = "absent"]
    /\ UNCHANGED <<offer, localVersion>>
\* The last UPDATE names no state.
CloseHandOff(r) ==
    /\ PhaseOf(r) = "closing" /\ Moves(r, "unlinking")
    /\ ticket' = [ticket EXCEPT ![TicketOf(r)] = [ticket[TicketOf(r)] EXCEPT !.state = "installed", !.path = NoFile]]
    /\ UNCHANGED <<offer, localVersion, spool>>

\* The API process ends; rows and files stay.
CrashApiProcess ==
    /\ request # [r \in Requests |-> NoRequest] /\ request' = [r \in Requests |-> NoRequest]
    /\ UNCHANGED <<offer, localVersion, ticket, spool>>
HourPasses(t) ==
    /\ ticket[t].state # "absent" /\ ~ticket[t].aged /\ ticket' = [ticket EXCEPT ![t].aged = TRUE]
    /\ UNCHANGED <<offer, localVersion, spool, request>>
FileAges(f) ==
    /\ spool[f] = "fresh" /\ (\A r \in Requests : request[r].file # f) /\ spool' = [spool EXCEPT ![f] = "old"]
    /\ UNCHANGED <<offer, localVersion, ticket, request>>
ReleaseChanges(dist) ==
    /\ offer.dist # "revoked" /\ offer.revision < MaxStatusChange
    /\ offer' = [dist |-> dist, revision |-> offer.revision + 1]
    /\ UNCHANGED <<localVersion, ticket, spool, request>>

Preparing(r) ==
    \/ \E t \in Tickets : BeginPrepare(r, t)
    \/ ExpireTicket(r) \/ DownloadFails(r) \/ VerifyLocally(r) \/ RecordDownload(r) \/ Unlink(r)
    \/ \E f \in Files : Download(r, f)
HandingOff(r) ==
    \/ \E t \in Tickets : BeginHandOff(r, t)
    \/ SettleApproved(r) \/ AskAgain(r) \/ Approve(r) \/ CallInstaller(r) \/ InstallerWorks(r) \/ FailHandOff(r) \/ CloseHandOff(r)
AcquisitionNext ==
    \/ \E r \in Requests : Preparing(r) \/ HandingOff(r) \/ BeginTicket(r) \/ CommitCancel(r)
    \/ \E r \in Requests, t \in Tickets : InsertTicket(r, t) \/ BeginCancel(r, t)
    \/ CrashApiProcess \/ (\E t \in Tickets : HourPasses(t)) \/ (\E f \in Files : FileAges(f))
    \/ \E dist \in {"available", "yanked", "revoked"} : ReleaseChanges(dist)
AcquisitionSpec == AcquisitionInit /\ [][AcquisitionNext]_acquisitionVars

-----------------------------------------------------------------------------
\* Properties.

AcquisitionTypeOK ==
    /\ localVersion \in {"none", "installing", "installed", "active", "failed"}
    /\ \A t \in Tickets : ticket[t].state \in {"absent", "created", "downloaded", "approved", "installed", "failed"}
    /\ \A f \in Files : spool[f] \in {"absent", "fresh", "old"}

\* However many requests install one ticket, and however often they are
\* repeated, at most one of them has it with the installer.
HandedOver(r) == PhaseOf(r) \in {"installing", "building", "failing", "closing"}
OneHandOff == \A r, q \in Requests : HandedOver(r) /\ HandedOver(q) /\ TicketOf(r) = TicketOf(q) => r = q

\* The tickets that hold disk space stay within their bound, although the
\* release is read before the row is inserted.
TicketsBounded == Cardinality(OpenTickets) <= MaxOpenTickets

\* A ticket that says installed has an installed version behind it, also when a
\* crash left it approved. (The installer answers a row that another ticket's
\* installation left INSTALLED as a success: that installation may still fail.)
\* And a request is with the installer only for a
\* ticket no cancellation took back: approved, already settled by a repeat of
\* the request, or (prepare looks at the age before the state) expired.
InstalledIsReal ==
    /\ \A t \in Tickets : ticket[t].state = "installed" =>
        \/ localVersion \in {"installed", "active"}
        \/ localVersion # "none" /\ \E u \in Tickets \ {t} : ticket[u].state # "absent"
    /\ \A r \in Requests : HandedOver(r) => ticket[TicketOf(r)].state \in {"approved", "installed"} \/ ticket[TicketOf(r)].aged

\* The parts together.
AcquisitionSound == AcquisitionTypeOK /\ OneHandOff /\ TicketsBounded /\ InstalledIsReal
=============================================================================
