------------------------------ MODULE Packages ------------------------------
(***************************************************************************)
(* Installed agent packages: the installation pipeline over the registry   *)
(* rows and the two directories it publishes, removal, the binding of an   *)
(* AgentInstance to a version and a configuration, and the Runs that pin   *)
(* both.  One package, several versions of it.                             *)
(*                                                                         *)
(* A registry call is one transaction and one action; so is each directory *)
(* that is published or deleted.  What a call read before its transaction  *)
(* (a plan, a schema, the current configuration) is in the record of the   *)
(* thread that read it.  An environment's identity holds the content       *)
(* digest, so an environment belongs to one version.  A configuration is   *)
(* what its schema says of it: which versions accept it, and the value of  *)
(* the field a schema may declare immutable.                               *)
(***************************************************************************)
EXTENDS Naturals, Sequences, FiniteSets

CONSTANTS
    Versions,      \* versions of the package
    Contents,      \* content digests an archive of a version may have
    Configs,       \* effective configurations
    Accepts,       \* version -> the configurations its schema accepts
    Immutable,     \* versions whose schema declares the field immutable
    Fixed,         \* configuration -> the field's value
    Installers,    \* API threads in install
    Removers,      \* API threads in remove_package
    Editors,       \* clients that change the instance's configuration
    MaxPackageRuns,\* bound: Runs of the instance
    MaxRevision    \* bound: config_revision

\* 0 stands for no version and no digest; the first configuration has revision 1.
ASSUME PackageAssumption == 0 \notin Versions \union Contents /\ MaxRevision \in Nat \ {0}

VARIABLES
    pkg,           \* installed_package_versions: version -> row
    payloads,      \* versions with a published payload directory
    venvs,         \* versions with a published environment directory
    envRows,       \* package_environments: version -> status
    install,       \* installer -> phase, version, content
    removal,       \* remover -> phase, versions finalized, their environments to delete
    binding,       \* the instance's package binding, version 0 before it is created
    edits,         \* editor -> phase and what it has read
    packageRuns,   \* the instance's Runs with their executable snapshots
    revoked        \* content digests whose signer the owner revoked

packageVars == <<pkg, payloads, venvs, envRows, install, removal, binding, edits, packageRuns, revoked>>
files == <<payloads, venvs>>
people == <<binding, edits, packageRuns, revoked>>

InstallStatus == {"none", "installing", "installed", "active", "failed", "pending_removal", "removed"}
InstallPhase == {"idle", "staged", "begun", "published", "marked", "built", "recorded", "ready",
                 "attached", "checked", "failing"}
NoRow == [status |-> "none", content |-> 0, stored |-> FALSE, env |-> FALSE]
NoInstall == [phase |-> "idle", version |-> 0, content |-> 0]
NoRemoval == [phase |-> "idle", versions |-> {}, envs |-> {}]
NoEdit == [phase |-> "idle", target |-> 0, expected |-> 0, seen |-> 0, config |-> 0]

PackageInit ==
    /\ pkg = [v \in Versions |-> NoRow]
    /\ payloads = {} /\ venvs = {} /\ envRows = [v \in Versions |-> "none"]
    /\ install = [i \in Installers |-> NoInstall]
    /\ removal = [d \in Removers |-> NoRemoval]
    /\ binding = [version |-> 0, config |-> 0, revision |-> 0]
    /\ edits = [u \in Editors |-> NoEdit]
    /\ packageRuns = <<>> /\ revoked = {}

Live == {r \in DOMAIN packageRuns : packageRuns[r].status # "ended"}
LiveOf(v) == {r \in Live : packageRuns[r].version = v}
Bound(v) == binding.version = v
SetStatus(v, status) == pkg' = [pkg EXCEPT ![v].status = status]

-----------------------------------------------------------------------------
\* PackageApplicationService.install.

Reaches(i, phase) == install' = [install EXCEPT ![i].phase = phase]
Leaves(i) == install' = [install EXCEPT ![i] = NoInstall]
\* The archive is copied, verified and authorized; a revoked signer is refused.
Stage(i, v, c) ==
    /\ install[i].phase = "idle" /\ c \notin revoked
    /\ install' = [install EXCEPT ![i] = [phase |-> "staged", version |-> v, content |-> c]]
    /\ UNCHANGED <<pkg, envRows, files, removal, people>>

\* Mutant: a removed version may be installed again.
RestartableRemoved(v) == pkg[v].status \in {"failed", "removed"} /\ ~Bound(v)
Restartable(v) == pkg[v].status = "failed" /\ ~Bound(v)
\* Mutant: a failed row takes the content of the archive at hand.
SameOrFailed(v, c) == pkg[v].content = c \/ pkg[v].status = "failed"
SameIdentity(v, c) == pkg[v].content = c

BeginInstall(i) ==
    LET v == install[i].version  c == install[i].content IN
    /\ install[i].phase = "staged"
    /\ \/ /\ pkg[v].status = "none"
          /\ pkg' = [pkg EXCEPT ![v] = [NoRow EXCEPT !.status = "installing", !.content = c]]
          /\ Reaches(i, "begun")
       \/ /\ pkg[v].status # "none" /\ SameIdentity(v, c) /\ Restartable(v)
          /\ pkg' = [pkg EXCEPT ![v] = [pkg[v] EXCEPT !.status = "installing", !.content = c]]
          /\ Reaches(i, "begun")
       \/ /\ pkg[v].status # "none" /\ ~(SameIdentity(v, c) /\ Restartable(v))
          /\ Leaves(i) /\ UNCHANGED pkg
    /\ UNCHANGED <<envRows, files, removal, people>>

\* Materialized in staging, then moved; an existing directory is verified.
PublishPayload(i) ==
    /\ install[i].phase = "begun"
    /\ payloads' = payloads \union {install[i].version} /\ Reaches(i, "published")
    /\ UNCHANGED <<pkg, envRows, venvs, removal, people>>

\* A registry step that finds another status raises, and the failure is recorded.
Guarded(i, ok, next) == IF ok THEN Reaches(i, next) ELSE Reaches(i, "failing")
MarkInstalled(i) ==
    LET v == install[i].version  ok == pkg[v].status = "installing" IN
    /\ install[i].phase = "published" /\ Guarded(i, ok, "marked")
    /\ pkg' = IF ok THEN [pkg EXCEPT ![v] = [pkg[v] EXCEPT !.status = "installed", !.stored = TRUE]] ELSE pkg
    /\ UNCHANGED <<envRows, files, removal, people>>

\* The wheels come from the payload directory; a finished environment is reused.
BuildEnvironment(i) ==
    LET v == install[i].version  ok == v \in venvs \/ v \in payloads IN
    /\ install[i].phase = "marked" /\ Guarded(i, ok, "built")
    /\ venvs' = IF ok THEN venvs \union {v} ELSE venvs
    /\ UNCHANGED <<pkg, envRows, payloads, removal, people>>
CreateOrGetEnvironment(i) ==
    LET v == install[i].version IN
    /\ install[i].phase = "built" /\ Reaches(i, "recorded")
    /\ envRows' = [envRows EXCEPT ![v] = IF envRows[v] = "none" THEN "preparing" ELSE envRows[v]]
    /\ UNCHANGED <<pkg, files, removal, people>>
MarkEnvironmentReady(i) ==
    /\ install[i].phase = "recorded" /\ Reaches(i, "ready")
    /\ envRows' = [envRows EXCEPT ![install[i].version] = "ready"]
    /\ UNCHANGED <<pkg, files, removal, people>>
AttachEnvironment(i) ==
    LET v == install[i].version  ok == pkg[v].status = "installed" IN
    /\ install[i].phase = "ready" /\ Guarded(i, ok, "attached")
    /\ pkg' = IF ok THEN [pkg EXCEPT ![v].env = TRUE] ELSE pkg
    /\ UNCHANGED <<envRows, files, removal, people>>
HealthCheck(i) ==
    /\ install[i].phase = "attached"
    /\ Guarded(i, install[i].version \in venvs, "checked")
    /\ UNCHANGED <<pkg, envRows, files, removal, people>>
\* Mutant: the status is not compared again.
MarkActiveAnyway(v) == pkg[v].env /\ envRows[v] = "ready"
MayActivate(v) == pkg[v].status = "installed" /\ pkg[v].env /\ envRows[v] = "ready"
MarkActive(i) ==
    LET v == install[i].version IN
    /\ install[i].phase = "checked"
    /\ \/ MayActivate(v) /\ SetStatus(v, "active") /\ Leaves(i)
       \/ ~MayActivate(v) /\ Reaches(i, "failing") /\ UNCHANGED pkg
    /\ UNCHANGED <<envRows, files, removal, people>>

\* Any step may raise once the row exists: a full disk, pip, a failing host.
StepRaises(i) ==
    /\ install[i].phase \notin {"idle", "staged", "failing"} /\ Reaches(i, "failing")
    /\ UNCHANGED <<pkg, envRows, files, removal, people>>
MarkFailed(i) ==
    LET v == install[i].version IN
    /\ install[i].phase = "failing" /\ Leaves(i)
    /\ pkg' = [pkg EXCEPT ![v].status = IF pkg[v].status \in {"installing", "installed"} THEN "failed" ELSE pkg[v].status]
    /\ UNCHANGED <<envRows, files, removal, people>>

Installing(i) ==
    \/ BeginInstall(i) \/ PublishPayload(i) \/ MarkInstalled(i) \/ BuildEnvironment(i)
    \/ CreateOrGetEnvironment(i) \/ MarkEnvironmentReady(i) \/ AttachEnvironment(i)
    \/ HealthCheck(i) \/ MarkActive(i) \/ StepRaises(i) \/ MarkFailed(i)

-----------------------------------------------------------------------------
\* remove_package: a plan, then one of two transactions, then the directories.

Unfinished(d) == removal[d].phase = "idle"
PlanRemoval(d, v) ==
    /\ Unfinished(d) /\ pkg[v].status # "none" /\ ~Bound(v)
    /\ removal' = [removal EXCEPT ![d] =
          [phase |-> IF LiveOf(v) # {} THEN "draining" ELSE "finalizing", versions |-> {v}, envs |-> {}]]
    /\ UNCHANGED <<pkg, envRows, files, install, people>>
MarkPendingRemoval(d) ==
    /\ removal[d].phase = "draining"
    /\ pkg' = [v \in Versions |->
          IF v \in removal[d].versions /\ pkg[v].status \in {"active", "installed", "failed"}
            THEN [pkg[v] EXCEPT !.status = "pending_removal"] ELSE pkg[v]]
    /\ removal' = [removal EXCEPT ![d] = NoRemoval]
    /\ UNCHANGED <<envRows, files, install, people>>

\* Mutant: the plan's answer is trusted.
PlannedOnly(v) == TRUE
Removable(v) == ~Bound(v) /\ LiveOf(v) = {}
Referenced(v) == \E r \in DOMAIN packageRuns : packageRuns[r].version = v
\* The rows of vs become removed; the directories follow the commit.
MarkRemoved(d, vs) ==
    /\ pkg' = [v \in Versions |-> IF v \in vs THEN [pkg[v] EXCEPT !.status = "removed"] ELSE pkg[v]]
    /\ removal' = [removal EXCEPT ![d] =
          [phase |-> "deleting", versions |-> {v \in vs : pkg[v].stored},
           envs |-> {v \in vs : pkg[v].env /\ ~Referenced(v)}]]
    /\ UNCHANGED <<envRows, files, install, people>>
FinalizeRemoval(d) ==
    /\ removal[d].phase = "finalizing"
    /\ \/ (\A v \in removal[d].versions : Removable(v)) /\ MarkRemoved(d, removal[d].versions)
       \/ /\ \E v \in removal[d].versions : ~Removable(v)
          /\ removal' = [removal EXCEPT ![d] = NoRemoval]
          /\ UNCHANGED <<pkg, envRows, files, install, people>>
ReconcilePendingRemovals(d) ==
    LET vs == {v \in Versions : pkg[v].status = "pending_removal" /\ Removable(v)} IN
    Unfinished(d) /\ vs # {} /\ MarkRemoved(d, vs)
RemovePayload(d) ==
    /\ removal[d].phase = "deleting" /\ payloads' = payloads \ removal[d].versions
    /\ removal' = [removal EXCEPT ![d].phase = "emptying"]
    /\ UNCHANGED <<pkg, envRows, venvs, install, people>>
RemoveEnvironment(d) ==
    /\ removal[d].phase = "emptying" /\ venvs' = venvs \ removal[d].envs
    /\ removal' = [removal EXCEPT ![d] = NoRemoval]
    /\ UNCHANGED <<pkg, envRows, payloads, install, people>>
Removing(d) ==
    \/ \E v \in Versions : PlanRemoval(d, v)
    \/ MarkPendingRemoval(d) \/ FinalizeRemoval(d) \/ ReconcilePendingRemovals(d)
    \/ RemovePayload(d) \/ RemoveEnvironment(d)

\* The API process: its threads are gone, rows and directories stay.
CrashApi ==
    /\ install' = [i \in Installers |-> NoInstall] /\ removal' = [d \in Removers |-> NoRemoval]
    /\ edits' = [u \in Editors |-> IF edits[u].phase = "opened" THEN edits[u] ELSE NoEdit]
    /\ UNCHANGED <<pkg, envRows, files, binding, packageRuns, revoked>>

-----------------------------------------------------------------------------
\* The instance: created bound, then reconfigured or rebound.

rest == <<pkg, envRows, files, install, removal, revoked>>

\* validate_config: defaults, types, constraints and formats, once per schema.
Valid(c, v) == c \in Accepts[v]
\* The schema is read before the transaction that finds the version active:
\* a version's schema never changes.
CreatePackageInstance(v, c) ==
    /\ binding.version = 0 /\ pkg[v].status = "active" /\ Valid(c, v)
    /\ binding' = [version |-> v, config |-> c, revision |-> 1]
    /\ UNCHANGED <<edits, packageRuns, rest>>

\* The client has the revision it was shown; target 0 keeps the version.
OpenEditor(u, v) ==
    /\ edits[u].phase = "idle" /\ binding.version # 0 /\ v # binding.version
    /\ edits' = [edits EXCEPT ![u] = [NoEdit EXCEPT !.phase = "opened", !.target = v, !.expected = binding.revision]]
    /\ UNCHANGED <<binding, packageRuns, rest>>
\* The schema the new configuration is held to: the target's, or the one in force.
ReadSchema(u) ==
    LET v == IF edits[u].target = 0 THEN binding.version ELSE edits[u].target
        ok == edits[u].target # 0 => pkg[v].status = "active" /\ pkg[v].content \notin revoked IN
    /\ edits[u].phase = "opened"
    /\ edits' = [edits EXCEPT ![u] = IF ok THEN [edits[u] EXCEPT !.phase = "reading", !.seen = v] ELSE NoEdit]
    /\ UNCHANGED <<binding, packageRuns, rest>>
\* Mutant: the immutable fields are those of the version in force.
KeepsFixedOfCurrent(u, c) == binding.version \in Immutable => Fixed[c] = Fixed[binding.config]
KeepsFixed(u, c) == edits[u].seen \in Immutable => Fixed[c] = Fixed[binding.config]
\* validate_config and check_immutable_fields; a carried-forward configuration
\* is the current one.
ValidateConfig(u, c) ==
    /\ edits[u].phase = "reading"
    /\ LET ok == Valid(c, edits[u].seen) /\ KeepsFixed(u, c) IN
       edits' = [edits EXCEPT ![u] = IF ok THEN [edits[u] EXCEPT !.phase = "checked", !.config = c] ELSE NoEdit]
    /\ UNCHANGED <<binding, packageRuns, rest>>

\* Mutant: the last writer wins.
AnyRevision(u) == TRUE
CurrentRevision(u) == binding.revision = edits[u].expected
Rewrite(u, v) ==
    /\ binding' = [version |-> v, config |-> edits[u].config, revision |-> edits[u].expected + 1]
    /\ edits' = [edits EXCEPT ![u] = NoEdit]
UpdateInstanceConfig(u) ==
    /\ edits[u].phase = "checked" /\ edits[u].target = 0
    /\ \/ CurrentRevision(u) /\ binding.revision < MaxRevision /\ Rewrite(u, binding.version)
       \/ ~CurrentRevision(u) /\ edits' = [edits EXCEPT ![u] = NoEdit] /\ UNCHANGED binding
    /\ UNCHANGED <<packageRuns, rest>>
RebindInstance(u) ==
    LET v == edits[u].target  ok == CurrentRevision(u) /\ pkg[v].status = "active" IN
    /\ edits[u].phase = "checked" /\ v # 0
    /\ \/ ok /\ binding.revision < MaxRevision /\ Rewrite(u, v)
       \/ ~ok /\ edits' = [edits EXCEPT ![u] = NoEdit] /\ UNCHANGED binding
    /\ UNCHANGED <<packageRuns, rest>>
Configuring(u) ==
    \/ \E v \in Versions \union {0} : OpenEditor(u, v)
    \/ ReadSchema(u) \/ (\E c \in Configs : ValidateConfig(u, c))
    \/ UpdateInstanceConfig(u) \/ RebindInstance(u)

-----------------------------------------------------------------------------
\* Runs pin the version and the configuration they were submitted under.

SubmitPackageRun ==
    LET v == binding.version IN
    /\ v # 0 /\ pkg[v].status = "active" /\ envRows[v] = "ready" /\ Len(packageRuns) < MaxPackageRuns
    /\ packageRuns' = Append(packageRuns, [version |-> v, config |-> binding.config, status |-> "queued"])
    /\ UNCHANGED <<binding, edits, rest>>
\* The claim boundary: a revoked signer, or a missing interpreter, fails the Run.
LaunchPackageRun(r) ==
    LET v == packageRuns[r].version IN
    /\ packageRuns[r].status = "queued"
    /\ packageRuns' = [packageRuns EXCEPT ![r].status =
          IF pkg[v].content \in revoked \/ v \notin venvs THEN "ended" ELSE "running"]
    /\ UNCHANGED <<binding, edits, rest>>
EndPackageRun(r) ==
    /\ packageRuns[r].status \in {"queued", "running"}
    /\ packageRuns' = [packageRuns EXCEPT ![r].status = "ended"]
    /\ UNCHANGED <<binding, edits, rest>>
DecideTrust(c, revoke) ==
    /\ revoked' = IF revoke THEN revoked \union {c} ELSE revoked \ {c}
    /\ UNCHANGED <<pkg, envRows, files, install, removal, binding, edits, packageRuns>>

PackageNext ==
    \/ \E i \in Installers : Installing(i) \/ \E v \in Versions, c \in Contents : Stage(i, v, c)
    \/ \E d \in Removers : Removing(d)
    \/ \E u \in Editors : Configuring(u)
    \/ \E v \in Versions, c \in Configs : CreatePackageInstance(v, c)
    \/ SubmitPackageRun \/ \E r \in DOMAIN packageRuns : LaunchPackageRun(r) \/ EndPackageRun(r)
    \/ \E c \in Contents, revoke \in BOOLEAN : DecideTrust(c, revoke)
    \/ CrashApi
PackageSpec == PackageInit /\ [][PackageNext]_packageVars

-----------------------------------------------------------------------------
\* Properties.

PackageTypeOK ==
    /\ pkg \in [Versions -> [status : InstallStatus, content : Contents \union {0}, stored : BOOLEAN, env : BOOLEAN]]
    /\ payloads \subseteq Versions /\ venvs \subseteq Versions
    /\ envRows \in [Versions -> {"none", "preparing", "ready"}]
    /\ install \in [Installers -> [phase : InstallPhase, version : Versions \union {0}, content : Contents \union {0}]]
    /\ removal \in [Removers -> [phase : {"idle", "draining", "finalizing", "deleting", "emptying"},
                                 versions : SUBSET Versions, envs : SUBSET Versions]]
    /\ binding \in [version : Versions \union {0}, config : Configs \union {0}, revision : 0..MaxRevision]
    /\ edits \in [Editors -> [phase : {"idle", "opened", "reading", "checked"}, target : Versions \union {0},
                              expected : 0..MaxRevision, seen : Versions \union {0}, config : Configs \union {0}]]
    /\ \A r \in DOMAIN packageRuns :
          packageRuns[r] \in [version : Versions, config : Configs, status : {"queued", "running", "ended"}]
    /\ revoked \subseteq Contents

\* An active version is complete on disk and in the registry, whatever other
\* installation, removal or deletion of it is still under way.
ActiveIsComplete ==
    \A v \in Versions : pkg[v].status = "active" =>
        v \in payloads /\ v \in venvs /\ envRows[v] = "ready" /\ pkg[v].env

\* A Run that has not ended can still be executed, and an instance keeps its
\* version: a removal decided on an older plan, in any order with creating,
\* submitting and rebinding, never takes the row or the environment away.
RunsCanExecute ==
    /\ \A r \in Live : LET v == packageRuns[r].version IN
          v \in venvs /\ envRows[v] = "ready" /\ pkg[v].status # "removed"
    /\ binding.version # 0 => pkg[binding.version].status # "removed"

\* The configuration in force is one the bound version's schema accepts, and so
\* is the one a Run pinned, although it was validated in an earlier transaction.
ConfigFits ==
    /\ binding.version # 0 => binding.config \in Accepts[binding.version]
    /\ \A r \in DOMAIN packageRuns : packageRuns[r].config \in Accepts[packageRuns[r].version]

\* The parts together: what a package owner relies on.
PackageSound == PackageTypeOK /\ ActiveIsComplete /\ RunsCanExecute /\ ConfigFits

\* A version's content never changes once its row exists, and a field that the
\* schema in force declares immutable keeps its value.
PackagePinned == [][
    /\ \A v \in Versions : pkg[v].content # 0 => pkg'[v].content = pkg[v].content
    /\ binding.version # 0 /\ binding'.version \in Immutable => Fixed[binding'.config] = Fixed[binding.config]
  ]_packageVars
=============================================================================
