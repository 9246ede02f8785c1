---------------------------- MODULE Marketplace -----------------------------
(***************************************************************************)
(* The hosted marketplace: who owns a package project and which keys may   *)
(* sign for it, and how an uploaded archive becomes a published release.   *)
(* One project is modelled.  A transaction locks the account, publisher    *)
(* and project rows it checks, so it is one step; receiving an upload and  *)
(* verifying it span several, under a token and a lease.                   *)
(*                                                                         *)
(* An archive stands for its digest; what is read out of it is given by    *)
(* VersionOf, SignerOf and Defective.  An account may belong to several    *)
(* publishers; credentials, assurance and the text of a listing are not    *)
(* told apart, nor is which owner asked for the challenge that proves a    *)
(* key.                                                                    *)
(***************************************************************************)
EXTENDS Naturals, FiniteSets

CONSTANTS
    Publishers,      \* publishers
    People,          \* marketplace accounts
    Operator,        \* an account with an operator grant
    Keys,            \* signing keys, by fingerprint
    Archives,        \* archives that may be uploaded
    VersionOf,       \* archive -> exact_version in its manifest
    SignerOf,        \* archive -> key that signed it
    Defective,       \* archives the static verifier refuses
    Uploads,         \* upload_operations ids
    Transfers,       \* project_transfers ids
    Receivers,       \* requests in receive
    Verifiers,       \* requests in verify_upload
    MaxAttempts,     \* verification attempts of an upload
    MaxUploads,      \* account_uploads: live uploads of an account
    MaxOwnership,    \* bound: ownership revisions
    MaxStatus        \* bound: status revisions of a release

None == "none"

ASSUME MarketplaceAssumption ==
    /\ Defective \subseteq Archives /\ Operator \in People
    /\ VersionOf \in [Archives -> Nat] /\ SignerOf \in [Archives -> Keys]
    /\ None \notin Archives \union Uploads \union Receivers \union Verifiers
    /\ MaxAttempts \in Nat /\ MaxOwnership \in Nat \ {0}

VARIABLES
    standing,        \* publisher or account -> active or suspended
    member,          \* publisher -> account -> role
    project,         \* owner, ownership revision, visibility
    signing,         \* publisher -> key -> state
    grant,           \* publisher -> key -> project_key_authorizations row
    transfer,        \* project_transfers
    upload,          \* upload_operations
    gate,            \* verification_admission, the one row
    shelf,           \* objects in storage: quarantined uploads, final archives
    release,         \* version -> package_releases row
    receiver,        \* receiver -> the receive it is in
    verifier         \* verifier -> the verification it is in

ownershipVars == <<standing, member, project, signing, grant, transfer>>
publicationVars == <<upload, gate, shelf, release, receiver, verifier>>
marketplaceVars == <<ownershipVars, publicationVars>>

ReleaseVersions == {VersionOf[a] : a \in Archives}
NoUpload == [state |-> "absent", actor |-> None, publisher |-> None, revision |-> 0, archive |-> None, token |-> None, receiving |-> FALSE,
             generation |-> 0, lease |-> None, live |-> FALSE, attempts |-> 0, expired |-> FALSE]
NoRelease == [publication |-> "absent", distribution |-> "available", archive |-> None, publisher |-> None, status |-> 0]
NoTransfer == [state |-> "absent", source |-> None, target |-> None, revision |-> 0]
FreeGate == [upload |-> None, generation |-> 0, live |-> FALSE]
IdleVerifier == [phase |-> "idle", upload |-> None, generation |-> 0]
IdleReceiver == [phase |-> "idle", upload |-> None]

-----------------------------------------------------------------------------
\* Authorization.

Owns(a, p) == member[p][a] = "owner"
Belongs(a, p) == member[p][a] \in {"owner", "maintainer", "publisher"}
\* authority.publisher and authority.project: an active account, its role, and
\* an active publisher.
InGoodStanding(a, p) == standing[a] = "active" /\ standing[p] = "active"
MayManage(a, p) == Owns(a, p) /\ InGoodStanding(a, p)
MayMaintain(a) == member[project.owner][a] \in {"owner", "maintainer"} /\ InGoodStanding(a, project.owner)
MayPublish(a) == Belongs(a, project.owner) /\ InGoodStanding(a, project.owner)
\* signer: an active key of the owner, authorized under this ownership.
MaySign(k) ==
    /\ signing[project.owner][k] = "active" /\ grant[project.owner][k].state = "active"
    /\ grant[project.owner][k].revision = project.revision

-----------------------------------------------------------------------------
\* PublisherManagement.

\* Mutant: only a removal is checked.
LastOwnerRemoved(p, a, role) == Owns(a, p) /\ role = "removed" /\ \A b \in People \ {a} : ~Owns(b, p)
LastOwner(p, a, role) == Owns(a, p) /\ role # "owner" /\ \A b \in People \ {a} : ~Owns(b, p)
Membership(actor, p, a, role) ==
    /\ MayManage(actor, p) /\ ~LastOwner(p, a, role)
    /\ member' = [member EXCEPT ![p][a] = role]
    /\ UNCHANGED <<standing, project, signing, grant, transfer, publicationVars>>
\* moderate: every project of the publisher is hidden or shown with it.
Moderate(p, state) ==
    /\ standing' = [standing EXCEPT ![p] = state]
    /\ project' = IF project.owner = p THEN [project EXCEPT !.visible = (state = "active")] ELSE project
    /\ UNCHANGED <<member, signing, grant, transfer, publicationVars>>
DisableAccount(a) ==
    /\ standing' = [standing EXCEPT ![a] = "disabled"]
    /\ UNCHANGED <<member, project, signing, grant, transfer, publicationVars>>
Challenge(actor, p, k) ==
    /\ MayManage(actor, p) /\ signing[p][k] = "absent"
    /\ signing' = [signing EXCEPT ![p][k] = "challenged"]
    /\ UNCHANGED <<standing, member, project, grant, transfer, publicationVars>>
Prove(actor, p, k) ==
    /\ MayManage(actor, p) /\ signing[p][k] = "challenged"
    /\ signing' = [signing EXCEPT ![p][k] = "active"]
    /\ UNCHANGED <<standing, member, project, grant, transfer, publicationVars>>
KeyState(actor, p, k, state) ==
    /\ MayManage(actor, p) /\ signing[p][k] \in {"active", "retired"} /\ signing[p][k] # state
    /\ signing' = [signing EXCEPT ![p][k] = state]
    /\ UNCHANGED <<standing, member, project, grant, transfer, publicationVars>>
AuthorizeKey(actor, k) ==
    LET p == project.owner IN
    /\ MayManage(actor, p) /\ signing[p][k] = "active" /\ grant[p][k].state = "none"
    /\ grant' = [grant EXCEPT ![p][k] = [state |-> "active", revision |-> project.revision]]
    /\ UNCHANGED <<standing, member, project, signing, transfer, publicationVars>>
RequestTransfer(actor, t, target) ==
    /\ transfer[t].state = "absent" /\ MayManage(actor, project.owner) /\ target # project.owner /\ standing[target] = "active"
    /\ transfer' = [transfer EXCEPT ![t] = [state |-> "pending", source |-> project.owner, target |-> target,
                                            revision |-> project.revision]]
    /\ UNCHANGED <<standing, member, project, signing, grant, publicationVars>>
StillOffered(t) == project.owner = transfer[t].source /\ project.revision = transfer[t].revision
\* Mutant: the keys of the old owner stay authorized.
GrantsKept == grant
GrantsRevoked == [p \in Publishers |-> [k \in Keys |-> IF grant[p][k].state = "active"
                     THEN [grant[p][k] EXCEPT !.state = "revoked"] ELSE grant[p][k]]]
AcceptTransfer(actor, t) ==
    /\ transfer[t].state = "pending" /\ MayManage(actor, transfer[t].target) /\ StillOffered(t) /\ project.revision < MaxOwnership
    /\ project' = [project EXCEPT !.owner = transfer[t].target, !.revision = @ + 1]
    /\ grant' = GrantsRevoked
    /\ transfer' = [transfer EXCEPT ![t].state = "accepted"]
    /\ UNCHANGED <<standing, member, signing, publicationVars>>
CancelTransfer(actor, t) ==
    /\ transfer[t].state = "pending" /\ MayManage(actor, transfer[t].source) /\ StillOffered(t)
    /\ transfer' = [transfer EXCEPT ![t].state = "cancelled"]
    /\ UNCHANGED <<standing, member, project, signing, grant, publicationVars>>
ExpireTransfer(t) ==
    /\ transfer[t].state = "pending" /\ transfer' = [transfer EXCEPT ![t].state = "expired"]
    /\ UNCHANGED <<standing, member, project, signing, grant, publicationVars>>

-----------------------------------------------------------------------------
\* PublicationService: uploads.

SetUpload(u, row) == upload' = [upload EXCEPT ![u] = row]
LiveUploads(a) == {u \in Uploads : upload[u].actor = a /\ upload[u].state \in {"uploading", "uploaded", "verifying"} /\ ~upload[u].expired}
\* _operation: the actor may still publish for the ownership the upload was
\* admitted under.
Operation(a, u) == upload[u].actor = a /\ MayPublish(a) /\ project.revision = upload[u].revision /\ ~upload[u].expired

CreateUpload(a, u, archive) ==
    /\ upload[u].state = "absent" /\ MayPublish(a) /\ Cardinality(LiveUploads(a)) < MaxUploads
    /\ SetUpload(u, [NoUpload EXCEPT !.state = "uploading", !.actor = a, !.publisher = project.owner,
                                     !.revision = project.revision, !.archive = archive])
    /\ UNCHANGED <<ownershipVars, gate, shelf, release, receiver, verifier>>
ExpireUpload(u) ==
    /\ upload[u].state \in {"uploading", "uploaded", "verifying"} /\ ~upload[u].expired
    /\ SetUpload(u, [upload[u] EXCEPT !.expired = TRUE])
    /\ UNCHANGED <<ownershipVars, gate, shelf, release, receiver, verifier>>
BeginReceive(r, u) ==
    /\ receiver[r].phase = "idle" /\ upload[u].state = "uploading" /\ ~upload[u].receiving /\ Operation(upload[u].actor, u)
    /\ SetUpload(u, [upload[u] EXCEPT !.token = r, !.receiving = TRUE])
    /\ receiver' = [receiver EXCEPT ![r] = [phase |-> "streaming", upload |-> u]]
    /\ UNCHANGED <<ownershipVars, gate, shelf, release, verifier>>
\* upload_expires_at passes while the stream is still going: another may begin.
UploadTokenExpires(u) ==
    /\ upload[u].receiving /\ SetUpload(u, [upload[u] EXCEPT !.receiving = FALSE])
    /\ UNCHANGED <<ownershipVars, gate, shelf, release, receiver, verifier>>
Quarantine(r) ==
    /\ receiver[r].phase = "streaming" /\ receiver' = [receiver EXCEPT ![r].phase = "stored"]
    /\ shelf' = [shelf EXCEPT !.quarantined = @ \union {receiver[r].upload}]
    /\ UNCHANGED <<ownershipVars, upload, gate, release, verifier>>
HoldsToken(r) == upload[receiver[r].upload].token = r
GiveBack(r) ==
    LET u == receiver[r].upload IN
    SetUpload(u, IF HoldsToken(r) THEN [upload[u] EXCEPT !.token = None, !.receiving = FALSE] ELSE upload[u])
FinishReceive(r) ==
    LET u == receiver[r].upload IN
    /\ receiver[r].phase = "stored" /\ receiver' = [receiver EXCEPT ![r] = IdleReceiver]
    /\ IF HoldsToken(r) /\ Operation(upload[u].actor, u)
       THEN SetUpload(u, [upload[u] EXCEPT !.state = "uploaded", !.token = None, !.receiving = FALSE])
       ELSE GiveBack(r)
    /\ UNCHANGED <<ownershipVars, gate, shelf, release, verifier>>
\* The stream breaks: the token is given back if it is still this one; a crash
\* leaves it to its expiry.
BreakReceive(r) ==
    /\ receiver[r].phase # "idle" /\ receiver' = [receiver EXCEPT ![r] = IdleReceiver]
    /\ GiveBack(r) \/ UNCHANGED upload
    /\ UNCHANGED <<ownershipVars, gate, shelf, release, verifier>>

-----------------------------------------------------------------------------
\* PublicationService: verification under the admission gate and a lease.

GateFree == gate.upload = None \/ ~gate.live
Verifiable(u) == upload[u].state = "uploaded" \/ (upload[u].state = "verifying" /\ ~upload[u].live)
BeginVerify(v, u) ==
    LET n == upload[u].generation + 1 IN
    /\ verifier[v].phase = "idle" /\ Verifiable(u) /\ Operation(upload[u].actor, u) /\ GateFree /\ upload[u].attempts < MaxAttempts
    /\ SetUpload(u, [upload[u] EXCEPT !.state = "verifying", !.generation = n, !.lease = v, !.live = TRUE, !.attempts = @ + 1])
    /\ gate' = [upload |-> u, generation |-> n, live |-> TRUE]
    /\ verifier' = [verifier EXCEPT ![v] = [phase |-> "verifying", upload |-> u, generation |-> n]]
    /\ UNCHANGED <<ownershipVars, shelf, release, receiver>>
Holds(v) == upload[verifier[v].upload].lease = v /\ upload[verifier[v].upload].generation = verifier[v].generation
\* Mutant: whoever finishes opens the gate.
OpensGate(v) == TRUE
HoldsGate(v) == gate.upload = verifier[v].upload /\ gate.generation = verifier[v].generation
\* The lease and the gate are written with one expiry; the clock passes it.
LeaseExpires(u) ==
    /\ upload[u].live /\ SetUpload(u, [upload[u] EXCEPT !.live = FALSE])
    /\ gate' = IF gate.upload = u /\ gate.generation = upload[u].generation THEN [gate EXCEPT !.live = FALSE] ELSE gate
    /\ UNCHANGED <<ownershipVars, shelf, release, receiver, verifier>>
Heartbeat(v) ==
    LET u == verifier[v].upload IN
    /\ verifier[v].phase \in {"verifying", "finalized", "reserved"} /\ Holds(v) /\ HoldsGate(v)
    /\ SetUpload(u, [upload[u] EXCEPT !.live = TRUE]) /\ gate' = [gate EXCEPT !.live = TRUE]
    /\ UNCHANGED <<ownershipVars, shelf, release, receiver, verifier>>
VerifierAt(v, phase) == verifier' = [verifier EXCEPT ![v].phase = phase]
\* retrieve, the static verifier, and the conditional creation of the final object.
FinalizeArtifact(v) ==
    LET u == verifier[v].upload IN
    /\ verifier[v].phase = "verifying"
    /\ \/ /\ u \in shelf.quarantined /\ upload[u].archive \notin Defective
          /\ shelf' = [shelf EXCEPT !.final = @ \union {upload[u].archive}] /\ VerifierAt(v, "finalized")
       \/ VerifierAt(v, "failing") /\ UNCHANGED shelf
    /\ UNCHANGED <<ownershipVars, upload, gate, release, receiver>>
\* Mutant: the lease is compared, its expiry and generation are not.
LeaseNamed(v) == upload[verifier[v].upload].state = "verifying"
LeaseHeld(v) == upload[verifier[v].upload].state = "verifying" /\ Holds(v) /\ upload[verifier[v].upload].live
\* Mutant: a version is free until it is published.
SameOrUnpublished(a) == release[VersionOf[a]].publication # "published" \/ release[VersionOf[a]].archive = a
VersionFits(a) == release[VersionOf[a]].publication = "absent" \/ release[VersionOf[a]].archive = a
Reserve(v) ==
    LET u == verifier[v].upload  a == upload[u].archive  n == VersionOf[a] IN
    /\ verifier[v].phase = "finalized"
    /\ \/ /\ LeaseHeld(v) /\ Operation(upload[u].actor, u) /\ MaySign(SignerOf[a]) /\ VersionFits(a)
          /\ release' = IF release[n].archive = a THEN release
                        ELSE [release EXCEPT ![n] = [NoRelease EXCEPT !.publication = "ready", !.archive = a,
                                                     !.publisher = project.owner, !.status = 1]]
          /\ SetUpload(u, [upload[u] EXCEPT !.state = "verified"]) /\ VerifierAt(v, "reserved")
       \/ /\ ~(LeaseHeld(v) /\ Operation(upload[u].actor, u) /\ MaySign(SignerOf[a]) /\ VersionFits(a))
          /\ VerifierAt(v, "failing") /\ UNCHANGED <<upload, release>>
    /\ UNCHANGED <<ownershipVars, gate, shelf, receiver>>
DeleteQuarantine(v) ==
    /\ verifier[v].phase = "reserved" /\ VerifierAt(v, "closing")
    /\ shelf' = [shelf EXCEPT !.quarantined = @ \ {verifier[v].upload}]
    /\ UNCHANGED <<ownershipVars, upload, gate, release, receiver>>
FailsOwn(v) == upload[verifier[v].upload].state = "verifying" /\ upload[verifier[v].upload].lease = v
FailVerify(v) ==
    LET u == verifier[v].upload IN
    /\ verifier[v].phase = "failing" /\ VerifierAt(v, "closing")
    /\ SetUpload(u, IF FailsOwn(v) THEN [upload[u] EXCEPT !.state = "uploaded", !.lease = None, !.live = FALSE] ELSE upload[u])
    /\ UNCHANGED <<ownershipVars, gate, shelf, release, receiver>>
ReleaseGate(v) ==
    /\ verifier[v].phase = "closing" /\ verifier' = [verifier EXCEPT ![v] = IdleVerifier]
    /\ gate' = IF HoldsGate(v) THEN FreeGate ELSE gate
    /\ UNCHANGED <<ownershipVars, upload, shelf, release, receiver>>
\* A cancelled request skips the failure branch, and a failed deletion finds
\* the upload verified: both only close the gate.
AbandonVerify(v) ==
    /\ verifier[v].phase \in {"verifying", "finalized", "reserved"} /\ VerifierAt(v, "closing")
    /\ UNCHANGED <<ownershipVars, upload, gate, shelf, release, receiver>>
CrashVerifier(v) ==
    /\ verifier[v].phase # "idle" /\ verifier' = [verifier EXCEPT ![v] = IdleVerifier]
    /\ UNCHANGED <<ownershipVars, upload, gate, shelf, release, receiver>>

-----------------------------------------------------------------------------
\* PublicationService: releases.

PublishRelease(a, n) ==
    /\ release[n].publication = "ready" /\ MayPublish(a) /\ release[n].archive \in shelf.final
    /\ MaySign(SignerOf[release[n].archive]) /\ release[n].publisher = project.owner
    /\ release' = [release EXCEPT ![n].publication = "published"]
    /\ UNCHANGED <<ownershipVars, upload, gate, shelf, receiver, verifier>>
Distribution(a, n, state) ==
    /\ release[n].publication = "published" /\ release[n].distribution # "revoked" /\ release[n].status < MaxStatus
    /\ IF state = "revoked" THEN MayManage(a, project.owner) \/ (a = Operator /\ standing[a] = "active") ELSE MayMaintain(a)
    /\ release' = [release EXCEPT ![n].distribution = state, ![n].status = @ + 1]
    /\ UNCHANGED <<ownershipVars, upload, gate, shelf, receiver, verifier>>

Managing ==
    \/ \E p \in Publishers, actor \in People, a \in People, role \in {"owner", "maintainer", "publisher", "removed"} : Membership(actor, p, a, role)
    \/ \E p \in Publishers, state \in {"active", "suspended"} : Moderate(p, state)
    \/ \E a \in People : DisableAccount(a)
    \/ \E p \in Publishers, actor \in People, k \in Keys :
          Challenge(actor, p, k) \/ Prove(actor, p, k) \/ \E state \in {"retired", "revoked"} : KeyState(actor, p, k, state)
    \/ \E actor \in People, k \in Keys : AuthorizeKey(actor, k)
    \/ \E actor \in People, t \in Transfers :
          AcceptTransfer(actor, t) \/ CancelTransfer(actor, t) \/ \E p \in Publishers : RequestTransfer(actor, t, p)
    \/ \E t \in Transfers : ExpireTransfer(t)
Receiving ==
    \/ \E a \in People, u \in Uploads, archive \in Archives : CreateUpload(a, u, archive)
    \/ \E u \in Uploads : ExpireUpload(u) \/ UploadTokenExpires(u) \/ LeaseExpires(u)
    \/ \E r \in Receivers : Quarantine(r) \/ FinishReceive(r) \/ BreakReceive(r) \/ \E u \in Uploads : BeginReceive(r, u)
Verifying(v) ==
    \/ \E u \in Uploads : BeginVerify(v, u)
    \/ Heartbeat(v) \/ FinalizeArtifact(v) \/ Reserve(v) \/ DeleteQuarantine(v) \/ FailVerify(v) \/ ReleaseGate(v) \/ AbandonVerify(v)
    \/ CrashVerifier(v)
Releasing ==
    \E a \in People, n \in ReleaseVersions : PublishRelease(a, n) \/ \E state \in {"available", "yanked", "revoked"} : Distribution(a, n, state)

\* A publisher's first owner, and the project it claimed.
MarketplaceInit ==
    /\ standing = [x \in Publishers \union People |-> "active"]
    /\ member \in [Publishers -> [People -> {"none", "owner"}]] /\ \A p \in Publishers : \E a \in People : Owns(a, p)
    /\ project \in [owner : Publishers, revision : {1}, visible : {TRUE}]
    /\ signing = [p \in Publishers |-> [k \in Keys |-> "absent"]]
    /\ grant = [p \in Publishers |-> [k \in Keys |-> [state |-> "none", revision |-> 0]]]
    /\ transfer = [t \in Transfers |-> NoTransfer]
    /\ upload = [u \in Uploads |-> NoUpload]
    /\ gate = FreeGate
    /\ shelf = [quarantined |-> {}, final |-> {}]
    /\ release = [n \in ReleaseVersions |-> NoRelease]
    /\ receiver = [r \in Receivers |-> IdleReceiver]
    /\ verifier = [v \in Verifiers |-> IdleVerifier]
MarketplaceNext == Managing \/ Receiving \/ (\E v \in Verifiers : Verifying(v)) \/ Releasing
MarketplaceSpec == MarketplaceInit /\ [][MarketplaceNext]_marketplaceVars

-----------------------------------------------------------------------------
\* Properties.

MarketplaceTypeOK ==
    /\ \A u \in Uploads : upload[u].state \in {"absent", "uploading", "uploaded", "verifying", "verified"} /\ upload[u].attempts \in 0..MaxAttempts
    /\ project.owner \in Publishers /\ project.revision \in 1..MaxOwnership
    /\ \A u \in Uploads : upload[u].live => upload[u].lease # None

\* Ownership is never left without an owner, and every key that may sign for
\* the project was authorized by its present owner under this ownership: a
\* transfer leaves no key of the publisher it took the project from.
OwnershipSound ==
    /\ \A p \in Publishers : \E a \in People : Owns(a, p)
    /\ \A p \in Publishers, k \in Keys : grant[p][k].state = "active" => p = project.owner /\ grant[p][k].revision = project.revision

\* What is served was verified: a release that is ready or published has its
\* final object; a verified upload's version holds exactly its archive; and an
\* upload that still has to be verified still has its quarantined object.
ReleaseBacked ==
    /\ \A n \in ReleaseVersions : release[n].publication # "absent" => release[n].archive \in shelf.final \ Defective
    /\ \A u \in Uploads : upload[u].state = "verified" => release[VersionOf[upload[u].archive]].archive = upload[u].archive
    /\ \A u \in Uploads : upload[u].state \in {"uploaded", "verifying"} => u \in shelf.quarantined

\* One archive is parsed at a time: of the requests that verify, at most one
\* holds a lease that has not expired, and the gate names its upload and
\* generation, however late the others beat, fail or finish.
Working(v) ==
    /\ verifier[v].phase \in {"verifying", "finalized"} /\ Holds(v)
    /\ upload[verifier[v].upload].state = "verifying" /\ upload[verifier[v].upload].live
OneVerifier ==
    /\ \A v, w \in Verifiers : Working(v) /\ Working(w) => v = w
    /\ \A v \in Verifiers : Working(v) => gate.upload = verifier[v].upload /\ gate.generation = verifier[v].generation

\* The parts together.
MarketplaceSound == MarketplaceTypeOK /\ OwnershipSound /\ ReleaseBacked /\ OneVerifier

\* A version is never given other bytes or taken back, a revoked release stays
\* revoked, and the project changes hands only by an offer made under its
\* present ownership; no upload admitted under an earlier ownership is verified.
ReleaseFixed == [][
    /\ \A n \in ReleaseVersions : release[n].publication # "absent" =>
          release'[n].archive = release[n].archive /\ release'[n].publisher = release[n].publisher /\ release'[n].publication # "absent"
    /\ \A n \in ReleaseVersions : release[n].distribution = "revoked" => release'[n].distribution = "revoked"
    /\ \A t \in Transfers : transfer'[t].state = "accepted" /\ transfer[t].state # "accepted" => transfer[t].revision = project.revision
    /\ \A u \in Uploads : upload'[u].state = "verified" /\ upload[u].state # "verified" =>
          upload[u].revision = project.revision /\ \E v \in Verifiers : verifier[v].upload = u /\ verifier[v].generation = upload[u].generation
                                                                         /\ verifier'[v].phase = "reserved"
  ]_marketplaceVars
=============================================================================
