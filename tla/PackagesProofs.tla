--------------------------- MODULE PackagesProofs ---------------------------
(***************************************************************************)
(* Proofs about packages, from their publication to a Run: the versions    *)
(* installed and their directories (Packages), one Attempt's host process  *)
(* (PackageHost), the tickets that lead to an installation (Acquisition)   *)
(* and the releases they are for (Marketplace), for any number of          *)
(* versions, installers, requests, frames, uploads and verifiers.          *)
(***************************************************************************)
EXTENDS Packages, PackageHost, Acquisition, Marketplace, FiniteSetTheorems, SequenceTheorems, TLAPS

(* Packages.  The directories of a version are taken away only once its    *)
(* row is removed, which is final and needs that nothing uses the version. *)
(* Until then an installer finds what it published, and it is alone: the   *)
(* row of a version is started again only after its installer gave up.     *)

PackageRow == [status : InstallStatus, content : Contents \union {0}, stored : BOOLEAN, env : BOOLEAN]
InstallRow == [phase : InstallPhase, version : Versions \union {0}, content : Contents \union {0}]
RemovalRow == [phase : {"idle", "draining", "finalizing", "deleting", "emptying"}, versions : SUBSET Versions, envs : SUBSET Versions]
BindingRow == [version : Versions \union {0}, config : Configs \union {0}, revision : 0..MaxRevision]
EditRow == [phase : {"idle", "opened", "reading", "checked"}, target : Versions \union {0}, expected : 0..MaxRevision,
            seen : Versions \union {0}, config : Configs \union {0}]
PackageRun == [version : Versions, config : Configs, status : {"queued", "running", "ended"}]

BegunPhase == InstallPhase \ {"idle", "staged"}
PayloadOut == BegunPhase \ {"begun", "failing"}
VenvOut == PayloadOut \ {"published", "marked"}

Complete(v) == v \in payloads /\ v \in venvs /\ envRows[v] = "ready" /\ pkg[v].env
RowFits(v) ==
  /\ pkg[v].status = "none" => pkg[v].content = 0
  /\ pkg[v].status = "active" => Complete(v)
\* An installer past its first transaction holds the row, and what it published is there.
StepFits(entry, rows, stored, built) ==
  /\ entry \in InstallRow
  /\ entry.phase # "idle" => entry.version \in Versions /\ entry.content \in Contents
  /\ entry.phase \in BegunPhase => rows[entry.version].status \notin {"none", "failed"}
  /\ entry.phase \in PayloadOut => entry.version \in stored \/ rows[entry.version].status = "removed"
  /\ entry.phase \in VenvOut => entry.version \in built \/ rows[entry.version].status = "removed"
HoldsRow(i, v) == install[i].phase \in BegunPhase /\ install[i].version = v
OneInstaller == \A i, j \in Installers : install[j].phase \in BegunPhase /\ HoldsRow(i, install[j].version) => i = j
\* What a remover deletes belongs to removed versions.
RemovalFits(entry, rows) ==
  /\ entry \in RemovalRow
  /\ entry.phase \in {"deleting", "emptying"} => \A v \in entry.versions \union entry.envs : rows[v].status = "removed"

BindingFits ==
  /\ binding \in BindingRow /\ (binding.version = 0 => binding.revision = 0)
  /\ binding.version # 0 => /\ binding.config \in Configs /\ binding.config \in Accepts[binding.version]
                            /\ pkg[binding.version].status # "removed"
\* An editor whose revision is still current read the binding in force.
EditFits(entry, bind) ==
  /\ entry \in EditRow
  /\ entry.phase # "idle" => bind.version # 0 /\ entry.expected <= bind.revision
  /\ entry.phase \in {"reading", "checked"} =>
        /\ entry.seen \in Versions /\ (entry.target # 0 => entry.seen = entry.target)
        /\ entry.target = 0 /\ entry.expected = bind.revision => entry.seen = bind.version
  /\ entry.phase = "checked" =>
        /\ entry.config \in Configs /\ entry.config \in Accepts[entry.seen]
        /\ entry.expected = bind.revision /\ entry.seen \in Immutable => Fixed[entry.config] = Fixed[bind.config]
RunFits(entry) ==
  /\ entry.config \in Accepts[entry.version]
  /\ entry.status # "ended" => /\ entry.version \in venvs /\ envRows[entry.version] = "ready"
                               /\ pkg[entry.version].status # "removed"

RegistryTypes ==
  /\ pkg \in [Versions -> PackageRow] /\ payloads \subseteq Versions /\ venvs \subseteq Versions
  /\ envRows \in [Versions -> {"none", "preparing", "ready"}] /\ revoked \subseteq Contents
RegistryInv ==
  /\ RegistryTypes /\ \A v \in Versions : RowFits(v)
  /\ install \in [Installers -> InstallRow] /\ (\A i \in Installers : StepFits(install[i], pkg, payloads, venvs)) /\ OneInstaller
  /\ removal \in [Removers -> RemovalRow] /\ \A d \in Removers : RemovalFits(removal[d], pkg)
UseInv ==
  /\ BindingFits
  /\ edits \in [Editors -> EditRow] /\ (\A u \in Editors : EditFits(edits[u], binding))
  /\ packageRuns \in Seq(PackageRun) /\ \A r \in DOMAIN packageRuns : RunFits(packageRuns[r])
PackageInv == RegistryInv /\ UseInv

LEMMA PackageInitial == PackageInit => PackageInv
<1> SUFFICES ASSUME PackageInit PROVE PackageInv
  OBVIOUS
<1>1. NoRow \in PackageRow /\ NoRow.status = "none" /\ NoRow.content = 0
  BY DEF NoRow, PackageRow, InstallStatus
<1>2. NoInstall \in InstallRow /\ NoInstall.phase = "idle"
  BY DEF NoInstall, InstallRow, InstallPhase
<1>3. NoRemoval \in RemovalRow /\ NoRemoval.phase = "idle"
  BY DEF NoRemoval, RemovalRow
<1>4. NoEdit \in EditRow /\ NoEdit.phase = "idle"
  BY PackageAssumption DEF NoEdit, EditRow
<1>5. binding \in BindingRow /\ binding.version = 0 /\ binding.revision = 0
  BY PackageAssumption DEF PackageInit, BindingRow
<1>6. pkg \in [Versions -> PackageRow] /\ \A v \in Versions : pkg[v] = NoRow
  BY <1>1 DEF PackageInit
<1>7. RegistryTypes /\ \A v \in Versions : RowFits(v)
  BY <1>1, <1>6 DEF PackageInit, RegistryTypes, RowFits
<1>8. StepFits(NoInstall, pkg, payloads, venvs) /\ RemovalFits(NoRemoval, pkg) /\ EditFits(NoEdit, binding)
  BY <1>2, <1>3, <1>4 DEF StepFits, RemovalFits, EditFits, BegunPhase, PayloadOut, VenvOut
<1>9. install \in [Installers -> InstallRow] /\ (\A i \in Installers : install[i] = NoInstall) /\ OneInstaller
  BY <1>2 DEF PackageInit, OneInstaller, HoldsRow, BegunPhase
<1>10. RegistryInv
  BY <1>2, <1>3, <1>7, <1>8, <1>9 DEF PackageInit, RegistryInv
<1>11. packageRuns \in Seq(PackageRun) /\ DOMAIN packageRuns = {}
  BY DEF PackageInit
<1>12. UseInv
  BY <1>4, <1>5, <1>8, <1>11 DEF PackageInit, UseInv, BindingFits
<1> QED
  BY <1>10, <1>12 DEF PackageInv

\* What the registry and the directories may become under those who use a version.
Sparing ==
  /\ UNCHANGED <<binding, edits, packageRuns>>
  /\ \A v \in Versions : pkg'[v].status = "removed" => pkg[v].status = "removed" \/ Removable(v)
  /\ \A v \in Versions : v \in venvs /\ v \notin venvs' => pkg[v].status = "removed"
  /\ \A v \in Versions : envRows[v] = "ready" => envRows'[v] = "ready"
LEMMA UsersKeep == ASSUME PackageInv, Sparing PROVE UseInv'
<1>1. UNCHANGED <<binding, edits, packageRuns>>
  BY DEF Sparing
<1>2. BindingFits'
  <2>1. binding.version # 0 => binding.version \in Versions
    BY DEF PackageInv, UseInv, BindingFits, BindingRow
  <2> QED
    BY <1>1, <2>1 DEF PackageInv, UseInv, BindingFits, Sparing, Removable, Bound
<1>3. ASSUME NEW u \in Editors PROVE EditFits(edits'[u], binding')
  BY <1>1 DEF PackageInv, UseInv, EditFits
<1>4. ASSUME NEW r \in DOMAIN packageRuns PROVE RunFits(packageRuns[r])'
  <2> DEFINE v == packageRuns[r].version
  <2>1. packageRuns[r] \in PackageRun /\ RunFits(packageRuns[r])
    BY DEF PackageInv, UseInv
  <2>2. v \in Versions
    BY <2>1 DEF PackageRun
  <2>3. packageRuns[r].status # "ended" => ~Removable(v)
    BY DEF Removable, LiveOf, Live
  <2> QED
    BY <1>1, <2>1, <2>2, <2>3 DEF RunFits, Sparing
<1> QED
  BY <1>1, <1>2, <1>3, <1>4 DEF PackageInv, UseInv

\* A step of one installer: it may write the row of its version and add directories.
InstallStep(i, v, row, entry) ==
  /\ v \in Versions /\ row \in PackageRow /\ StepFits(entry, pkg', payloads', venvs') /\ UNCHANGED <<removal, people>>
  /\ install' = [install EXCEPT ![i] = entry] /\ pkg' = [pkg EXCEPT ![v] = row]
  /\ payloads \subseteq payloads' /\ payloads' \subseteq Versions /\ venvs \subseteq venvs' /\ venvs' \subseteq Versions
  /\ envRows' \in [Versions -> {"none", "preparing", "ready"}]
  /\ \A w \in Versions : envRows[w] = "ready" => envRows'[w] = "ready"
VersionMoves(i, v, row, entry) ==
  /\ row.status = "removed" <=> pkg[v].status = "removed"
  /\ row.status = "none" => row.content = 0
  /\ row.status = "active" => v \in payloads' /\ v \in venvs' /\ envRows'[v] = "ready" /\ row.env
  /\ pkg[v].status \in {"none", "failed"} \/ HoldsRow(i, v) \/ row.status \notin {"none", "failed"}
  /\ entry.phase \in BegunPhase => entry.version = v /\ (HoldsRow(i, v) \/ pkg[v].status \in {"none", "failed"})
LEMMA InstallerMoves ==
  ASSUME PackageInv, NEW i \in Installers, NEW v, NEW row, NEW entry, InstallStep(i, v, row, entry), VersionMoves(i, v, row, entry)
  PROVE  PackageInv'
<1>1. pkg \in [Versions -> PackageRow] /\ v \in Versions /\ pkg' = [pkg EXCEPT ![v] = row] /\ row \in PackageRow
  BY DEF PackageInv, RegistryInv, RegistryTypes, InstallStep
<1>2. pkg'[v] = row /\ (\A w \in Versions : w # v => pkg'[w] = pkg[w]) /\ pkg' \in [Versions -> PackageRow]
  BY <1>1
<1>3. install' \in [Installers -> InstallRow] /\ install'[i] = entry /\ \A j \in Installers : j # i => install'[j] = install[j]
  <2>1. entry \in InstallRow
    BY DEF InstallStep, StepFits
  <2> QED
    BY <2>1 DEF PackageInv, RegistryInv, InstallStep
<1>4. RegistryTypes'
  BY <1>2 DEF PackageInv, RegistryInv, RegistryTypes, InstallStep, people
<1>5. ASSUME NEW w \in Versions PROVE RowFits(w)'
  <2>1. RowFits(w)
    BY DEF PackageInv, RegistryInv
  <2>2. CASE w = v
    BY <1>2, <2>2 DEF RowFits, VersionMoves, Complete
  <2>3. CASE w # v
    BY <1>2, <2>1, <2>3 DEF RowFits, InstallStep, Complete
  <2> QED
    BY <2>2, <2>3
<1>6. ASSUME NEW j \in Installers, j # i PROVE StepFits(install'[j], pkg', payloads', venvs')
  <2> DEFINE e == install[j]
  <2>1. StepFits(e, pkg, payloads, venvs) /\ install'[j] = e
    BY <1>3, <1>6 DEF PackageInv, RegistryInv
  <2>2. e.phase \in BegunPhase => e.version \in Versions
    BY <2>1 DEF StepFits, BegunPhase
  <2>3. e.phase \in BegunPhase => pkg'[e.version].status \notin {"none", "failed"}
    <3>1. CASE e.version # v
      BY <1>2, <2>1, <2>2, <3>1 DEF StepFits
    <3>2. CASE e.version = v /\ e.phase \in BegunPhase
      <4>1. pkg[v].status \notin {"none", "failed"}
        BY <2>1, <3>2 DEF StepFits
      <4>2. ~HoldsRow(i, v)
        BY <1>6, <3>2 DEF PackageInv, RegistryInv, OneInstaller
      <4> QED
        BY <1>2, <3>2, <4>1, <4>2 DEF VersionMoves
    <3> QED
      BY <3>1, <3>2
  <2>4. e.phase \in BegunPhase /\ pkg[e.version].status = "removed" => pkg'[e.version].status = "removed"
    BY <1>2, <2>2 DEF VersionMoves
  <2>5. PayloadOut \subseteq BegunPhase /\ VenvOut \subseteq BegunPhase
    BY DEF PayloadOut, VenvOut
  <2> QED
    BY <2>1, <2>3, <2>4, <2>5 DEF StepFits, InstallStep
<1>7. OneInstaller'
  <2>1. ASSUME NEW j \in Installers, j # i, entry.phase \in BegunPhase, install[j].phase \in BegunPhase PROVE install[j].version # entry.version
    <3>1. StepFits(install[j], pkg, payloads, venvs) /\ entry.version = v
      BY <2>1 DEF PackageInv, RegistryInv, VersionMoves
    <3> QED
      BY <2>1, <3>1 DEF PackageInv, RegistryInv, OneInstaller, VersionMoves, StepFits, HoldsRow
  <2> QED
    BY <1>3, <2>1 DEF PackageInv, RegistryInv, OneInstaller, HoldsRow
<1>8. removal' \in [Removers -> RemovalRow] /\ \A d \in Removers : RemovalFits(removal'[d], pkg')
  <2>1. removal' = removal
    BY DEF InstallStep
  <2>2. \A w \in Versions : pkg[w].status = "removed" => pkg'[w].status = "removed"
    BY <1>2 DEF VersionMoves
  <2>3. ASSUME NEW d \in Removers PROVE RemovalFits(removal'[d], pkg')
    <3>1. RemovalFits(removal[d], pkg)
      BY DEF PackageInv, RegistryInv
    <3>2. removal[d].versions \subseteq Versions /\ removal[d].envs \subseteq Versions
      BY <3>1 DEF RemovalFits, RemovalRow
    <3> QED
      BY <2>1, <2>2, <3>1, <3>2 DEF RemovalFits
  <2> QED
    BY <2>1, <2>3 DEF PackageInv, RegistryInv
<1>9. RegistryInv'
  BY <1>3, <1>4, <1>5, <1>6, <1>7, <1>8 DEF RegistryInv, InstallStep
<1>10. Sparing
  BY <1>2 DEF Sparing, InstallStep, VersionMoves, people
<1> QED
  BY <1>9, <1>10, UsersKeep DEF PackageInv

\* A step of one remover: rows may go, nobody uses the removed ones, and only
\* what belonged to a removed version is deleted.
RemoverStep(d, entry) ==
  /\ RemovalFits(entry, pkg') /\ UNCHANGED <<envRows, install, people>>
  /\ removal' = [removal EXCEPT ![d] = entry] /\ pkg' \in [Versions -> PackageRow]
  /\ payloads' \subseteq payloads /\ venvs' \subseteq venvs
  /\ \A v \in Versions : (v \in payloads /\ v \notin payloads') \/ (v \in venvs /\ v \notin venvs') => pkg[v].status = "removed"
RowGoes(v) ==
  \/ pkg'[v] = pkg[v]
  \/ pkg'[v].status = "pending_removal" /\ pkg[v].status # "removed"
  \/ pkg'[v].status = "removed" /\ (Removable(v) \/ pkg[v].status = "removed")
LEMMA RemoverMoves ==
  ASSUME PackageInv, NEW d \in Removers, NEW entry, RemoverStep(d, entry), \A v \in Versions : RowGoes(v)
  PROVE  PackageInv'
<1>1. removal' \in [Removers -> RemovalRow] /\ removal'[d] = entry /\ \A c \in Removers : c # d => removal'[c] = removal[c]
  <2>1. entry \in RemovalRow
    BY DEF RemoverStep, RemovalFits
  <2> QED
    BY <2>1 DEF PackageInv, RegistryInv, RemoverStep
<1>2. RegistryTypes'
  BY DEF PackageInv, RegistryInv, RegistryTypes, RemoverStep, people
<1>3. ASSUME NEW v \in Versions PROVE RowFits(v)'
  <2>1. RowFits(v) /\ RowGoes(v)
    BY DEF PackageInv, RegistryInv
  <2> QED
    BY <2>1 DEF RowFits, RowGoes, Complete, RemoverStep
<1>4. \A v \in Versions : pkg[v].status = "removed" => pkg'[v].status = "removed"
  BY DEF RowGoes
<1>5. ASSUME NEW j \in Installers PROVE StepFits(install'[j], pkg', payloads', venvs')
  <2> DEFINE e == install[j]
  <2>1. StepFits(e, pkg, payloads, venvs) /\ install' = install
    BY DEF PackageInv, RegistryInv, RemoverStep
  <2>2. e.phase \in BegunPhase => e.version \in Versions
    BY <2>1 DEF StepFits, BegunPhase
  <2>3. e.phase \in BegunPhase => pkg'[e.version].status \notin {"none", "failed"}
    BY <2>1, <2>2 DEF StepFits, RowGoes
  <2>4. PayloadOut \subseteq BegunPhase /\ VenvOut \subseteq BegunPhase
    BY DEF PayloadOut, VenvOut
  <2> QED
    BY <1>4, <2>1, <2>2, <2>3, <2>4 DEF StepFits, RemoverStep
<1>6. ASSUME NEW c \in Removers PROVE RemovalFits(removal'[c], pkg')
  <2>1. RemovalFits(removal[c], pkg)
    BY DEF PackageInv, RegistryInv
  <2>2. removal[c].versions \subseteq Versions /\ removal[c].envs \subseteq Versions
    BY <2>1 DEF RemovalFits, RemovalRow
  <2>3. CASE c = d
    BY <1>1, <2>3 DEF RemoverStep
  <2>4. CASE c # d
    BY <1>1, <1>4, <2>1, <2>2, <2>4 DEF RemovalFits
  <2> QED
    BY <2>3, <2>4
<1>7. RegistryInv'
  BY <1>1, <1>2, <1>3, <1>5, <1>6 DEF PackageInv, RegistryInv, RemoverStep, OneInstaller, HoldsRow
<1>8. Sparing
  BY DEF Sparing, RemoverStep, RowGoes, people
<1> QED
  BY <1>7, <1>8, UsersKeep DEF PackageInv

\* What an installer finds: its version's row, and its own.
LEMMA InstallerFacts ==
  ASSUME PackageInv, NEW i \in Installers
  PROVE  /\ install[i] \in InstallRow /\ StepFits(install[i], pkg, payloads, venvs)
         /\ install[i].phase # "idle" => install[i].version \in Versions /\ pkg[install[i].version] \in PackageRow
         /\ pkg \in [Versions -> PackageRow] /\ install \in [Installers -> InstallRow]
BY DEF PackageInv, RegistryInv, RegistryTypes, StepFits

\* An installer that leaves, or moves on to a phase the same directories are enough for.
LEMMA LeavingFits == StepFits(NoInstall, pkg', payloads', venvs')
BY DEF StepFits, NoInstall, InstallRow, InstallPhase, BegunPhase, PayloadOut, VenvOut
LEMMA MovedOn ==
  ASSUME NEW e \in InstallRow, NEW phase \in InstallPhase
  PROVE  LET n == [e EXCEPT !.phase = phase] IN n \in InstallRow /\ n.phase = phase /\ n.version = e.version /\ n.content = e.content
BY DEF InstallRow

LEMMA StageKeeps == ASSUME PackageInv, NEW i \in Installers, NEW v \in Versions, NEW c \in Contents, Stage(i, v, c) PROVE PackageInv'
<1> DEFINE entry == [phase |-> "staged", version |-> v, content |-> c]
<1>1. entry \in InstallRow /\ entry.phase = "staged" /\ entry.version = v /\ entry.content = c
  BY DEF InstallRow, InstallPhase
<1>2. install' = [install EXCEPT ![i] = entry] /\ UNCHANGED <<pkg, envRows, files, removal, people>>
  BY DEF Stage
<1> HIDE DEF entry
<1>3. StepFits(entry, pkg', payloads', venvs')
  BY <1>1 DEF StepFits, BegunPhase, PayloadOut, VenvOut
<1>4. pkg[v] \in PackageRow /\ pkg' = [pkg EXCEPT ![v] = pkg[v]]
  BY <1>2, InstallerFacts
<1>5. InstallStep(i, v, pkg[v], entry)
  BY <1>2, <1>3, <1>4 DEF InstallStep, files, PackageInv, RegistryInv, RegistryTypes
<1>6. VersionMoves(i, v, pkg[v], entry)
  BY <1>1, <1>2 DEF VersionMoves, PackageInv, RegistryInv, RowFits, Complete, files, BegunPhase
<1> QED
  BY <1>5, <1>6, InstallerMoves

\* One case of a registry step: the row it writes and what becomes of the installer.
LEMMA RowWritten ==
  ASSUME PackageInv, NEW i \in Installers, install[i].phase \in BegunPhase \union {"staged"}, NEW row \in PackageRow, NEW entry,
         pkg' = [pkg EXCEPT ![install[i].version] = row], install' = [install EXCEPT ![i] = entry],
         UNCHANGED <<envRows, files, removal, people>>, StepFits(entry, pkg', payloads', venvs'), VersionMoves(i, install[i].version, row, entry)
  PROVE  PackageInv'
<1>1. install[i].version \in Versions
  BY InstallerFacts DEF BegunPhase
<1>2. InstallStep(i, install[i].version, row, entry)
  BY <1>1 DEF InstallStep, files, PackageInv, RegistryInv, RegistryTypes
<1> QED
  BY <1>2, InstallerMoves

\* The installer alone moves, and the directories its phase needs are there.
LEMMA OnlyInstaller ==
  ASSUME PackageInv, NEW i \in Installers, NEW entry,
         install' = [install EXCEPT ![i] = entry], UNCHANGED <<pkg, envRows, files, removal, people>>,
         StepFits(entry, pkg', payloads', venvs'), install[i].phase # "idle",
         entry.phase \in BegunPhase => entry.version = install[i].version /\ install[i].phase \in BegunPhase
  PROVE  PackageInv'
<1> DEFINE v == install[i].version
<1>1. v \in Versions /\ pkg[v] \in PackageRow /\ pkg' = [pkg EXCEPT ![v] = pkg[v]]
  BY InstallerFacts
<1>2. InstallStep(i, v, pkg[v], entry)
  BY <1>1 DEF InstallStep, files, PackageInv, RegistryInv, RegistryTypes
<1>3. VersionMoves(i, v, pkg[v], entry)
  BY <1>1 DEF VersionMoves, PackageInv, RegistryInv, RowFits, Complete, files, HoldsRow
<1> QED
  BY <1>2, <1>3, InstallerMoves

LEMMA BeginInstallKeeps == ASSUME PackageInv, NEW i \in Installers, BeginInstall(i) PROVE PackageInv'
<1> DEFINE e == install[i]
           v == e.version
           c == e.content
           entry == [e EXCEPT !.phase = "begun"]
<1>1. e \in InstallRow /\ e.phase = "staged" /\ v \in Versions /\ c \in Contents /\ pkg[v] \in PackageRow
  BY InstallerFacts DEF BeginInstall, StepFits
<1>2. entry \in InstallRow /\ entry.phase = "begun" /\ entry.version = v /\ entry.content = c
  BY <1>1, MovedOn DEF InstallPhase
<1>3. ASSUME pkg'[v].status = "installing" PROVE StepFits(entry, pkg', payloads', venvs')
  BY <1>1, <1>2, <1>3 DEF StepFits, BegunPhase, PayloadOut, VenvOut
<1>4. ASSUME NEW row \in PackageRow, row.status = "installing", pkg' = [pkg EXCEPT ![v] = row], Reaches(i, "begun"),
             UNCHANGED <<envRows, files, removal, people>>, pkg[v].status \in {"none", "failed"}
      PROVE  PackageInv'
  <2>1. install' = [install EXCEPT ![i] = entry]
    BY <1>4 DEF Reaches
  <2>2. pkg'[v] = row
    BY <1>1, <1>4, InstallerFacts
  <2>3. StepFits(entry, pkg', payloads', venvs')
    BY <1>3, <1>4, <2>2
  <2>4. VersionMoves(i, v, row, entry)
    BY <1>2, <1>4 DEF VersionMoves
  <2> HIDE DEF entry
  <2> QED
    BY <1>1, <1>4, <2>1, <2>3, <2>4, RowWritten
<1>5. CASE pkg[v].status = "none" /\ pkg' = [pkg EXCEPT ![v] = [NoRow EXCEPT !.status = "installing", !.content = c]] /\ Reaches(i, "begun")
  <2>1. [NoRow EXCEPT !.status = "installing", !.content = c] \in PackageRow
    BY <1>1 DEF NoRow, PackageRow, InstallStatus
  <2>2. [NoRow EXCEPT !.status = "installing", !.content = c].status = "installing"
    BY DEF NoRow
  <2> QED
    BY <1>4, <1>5, <2>1, <2>2 DEF BeginInstall
<1>6. CASE pkg[v].status # "none" /\ SameIdentity(v, c) /\ Restartable(v) /\ Reaches(i, "begun")
           /\ pkg' = [pkg EXCEPT ![v] = [pkg[v] EXCEPT !.status = "installing", !.content = c]]
  <2>1. [pkg[v] EXCEPT !.status = "installing", !.content = c] \in PackageRow
    BY <1>1 DEF PackageRow, InstallStatus
  <2>2. [pkg[v] EXCEPT !.status = "installing", !.content = c].status = "installing"
    BY <1>1 DEF PackageRow
  <2>3. pkg[v].status = "failed"
    BY <1>6 DEF Restartable
  <2> QED
    BY <1>4, <1>6, <2>1, <2>2, <2>3 DEF BeginInstall
<1>7. CASE Leaves(i) /\ UNCHANGED pkg
  <2>1. NoInstall.phase = "idle" /\ StepFits(NoInstall, pkg', payloads', venvs')
    BY LeavingFits DEF NoInstall
  <2>2. install' = [install EXCEPT ![i] = NoInstall] /\ UNCHANGED <<pkg, envRows, files, removal, people>>
    BY <1>7 DEF Leaves, BeginInstall
  <2>3. NoInstall.phase \notin BegunPhase
    BY <2>1 DEF BegunPhase
  <2> QED
    BY <1>1, <2>1, <2>2, <2>3, OnlyInstaller
<1> QED
  BY <1>5, <1>6, <1>7 DEF BeginInstall

\* An installer that goes on with its version, adding to the directories or not.
Goes(i, phase, row) ==
  /\ install[i].phase \in BegunPhase /\ phase \in BegunPhase /\ Reaches(i, phase) /\ row \in PackageRow
  /\ pkg' = [pkg EXCEPT ![install[i].version] = row] /\ UNCHANGED <<removal, people>>
  /\ payloads \subseteq payloads' /\ payloads' \subseteq Versions /\ venvs \subseteq venvs' /\ venvs' \subseteq Versions
  /\ envRows' \in [Versions -> {"none", "preparing", "ready"}]
  /\ \A w \in Versions : envRows[w] = "ready" => envRows'[w] = "ready"
Finds(v, phase, row) ==
  /\ phase \in PayloadOut => v \in payloads' \/ row.status = "removed"
  /\ phase \in VenvOut => v \in venvs' \/ row.status = "removed"
  /\ row.status = pkg[v].status \/ (pkg[v].status = "installing" /\ row.status = "installed")
  /\ pkg[v].env => row.env
LEMMA GoesKeeps == ASSUME PackageInv, NEW i \in Installers, NEW phase, NEW row, Goes(i, phase, row), Finds(install[i].version, phase, row) PROVE PackageInv'
<1> DEFINE v == install[i].version
<1>1. install[i] \in InstallRow /\ StepFits(install[i], pkg, payloads, venvs) /\ v \in Versions /\ install[i].content \in Contents
      /\ install[i].phase \in BegunPhase
  BY InstallerFacts DEF Goes, StepFits, BegunPhase
<1>2. PICK entry : entry = [install[i] EXCEPT !.phase = phase]
  OBVIOUS
<1>3. phase \in InstallPhase /\ phase \in BegunPhase
  BY DEF Goes, BegunPhase
<1>4. entry \in InstallRow /\ entry.phase = phase /\ entry.version = v /\ entry.content = install[i].content
  BY <1>1, <1>2, <1>3, MovedOn
<1>5. install' = [install EXCEPT ![i] = entry]
  BY <1>2 DEF Goes, Reaches
<1>6. pkg'[v] = row /\ pkg[v] \in PackageRow /\ pkg[v].status \notin {"none", "failed"}
  BY <1>1, InstallerFacts DEF Goes, StepFits
<1>7. StepFits(entry, pkg', payloads', venvs')
  BY <1>1, <1>3, <1>4, <1>6 DEF StepFits, Finds
<1>8. InstallStep(i, v, row, entry)
  BY <1>1, <1>5, <1>7 DEF InstallStep, Goes
<1>9. row.status = "active" => v \in payloads' /\ v \in venvs' /\ envRows'[v] = "ready" /\ row.env
  BY <1>1 DEF PackageInv, RegistryInv, RowFits, Complete, Goes, Finds
<1>10. VersionMoves(i, v, row, entry)
  BY <1>1, <1>4, <1>6, <1>9 DEF VersionMoves, HoldsRow, Finds
<1> QED
  BY <1>8, <1>10, InstallerMoves

\* The same, when the row stays as it is.
StepsOn(i, phase) ==
  /\ install[i].phase \in BegunPhase /\ phase \in BegunPhase /\ Reaches(i, phase) /\ UNCHANGED <<pkg, removal, people>>
  /\ payloads \subseteq payloads' /\ payloads' \subseteq Versions /\ venvs \subseteq venvs' /\ venvs' \subseteq Versions
  /\ envRows' \in [Versions -> {"none", "preparing", "ready"}]
  /\ \A w \in Versions : envRows[w] = "ready" => envRows'[w] = "ready"
Stocked(v, phase) ==
  /\ phase \in PayloadOut => v \in payloads' \/ pkg[v].status = "removed"
  /\ phase \in VenvOut => v \in venvs' \/ pkg[v].status = "removed"
LEMMA StepsOnKeep == ASSUME PackageInv, NEW i \in Installers, NEW phase, StepsOn(i, phase), Stocked(install[i].version, phase) PROVE PackageInv'
<1> DEFINE v == install[i].version
<1>1. v \in Versions /\ pkg[v] \in PackageRow /\ pkg' = [pkg EXCEPT ![v] = pkg[v]]
  BY InstallerFacts DEF StepsOn, BegunPhase
<1>2. Goes(i, phase, pkg[v])
  BY <1>1 DEF Goes, StepsOn
<1>3. Finds(v, phase, pkg[v])
  BY DEF Finds, Stocked
<1> QED
  BY <1>2, <1>3, GoesKeeps

LEMMA DirectoriesKeep ==
  ASSUME PackageInv, NEW i \in Installers,
         PublishPayload(i) \/ BuildEnvironment(i) \/ CreateOrGetEnvironment(i) \/ MarkEnvironmentReady(i) \/ HealthCheck(i) \/ StepRaises(i)
  PROVE  PackageInv'
<1> DEFINE v == install[i].version
<1>1. install[i] \in InstallRow /\ StepFits(install[i], pkg, payloads, venvs) /\ RegistryTypes
  BY InstallerFacts DEF PackageInv, RegistryInv
<1>2. install[i].phase # "idle" => v \in Versions
  BY InstallerFacts
<1>3. install[i].phase \in InstallPhase
  BY <1>1 DEF InstallRow
<1>4. CASE PublishPayload(i)
  <2>1. StepsOn(i, "published")
    BY <1>1, <1>2, <1>4 DEF StepsOn, PublishPayload, BegunPhase, InstallPhase, RegistryTypes
  <2>2. Stocked(v, "published")
    BY <1>4 DEF Stocked, PublishPayload, VenvOut, PayloadOut
  <2> QED
    BY <2>1, <2>2, StepsOnKeep
<1>5. CASE BuildEnvironment(i)
  <2>1. v \in payloads \/ pkg[v].status = "removed"
    BY <1>1, <1>5 DEF BuildEnvironment, StepFits, PayloadOut, BegunPhase, InstallPhase
  <2>2. CASE v \in venvs \/ v \in payloads
    <3>1. StepsOn(i, "built")
      BY <1>1, <1>2, <1>5, <2>2 DEF StepsOn, BuildEnvironment, Guarded, BegunPhase, InstallPhase, RegistryTypes
    <3>2. Stocked(v, "built")
      BY <1>5, <2>1, <2>2 DEF Stocked, BuildEnvironment
    <3> QED
      BY <3>1, <3>2, StepsOnKeep
  <2>3. CASE ~(v \in venvs \/ v \in payloads)
    <3>1. StepsOn(i, "failing")
      BY <1>1, <1>2, <1>5, <2>3 DEF StepsOn, BuildEnvironment, Guarded, BegunPhase, InstallPhase, RegistryTypes
    <3>2. Stocked(v, "failing")
      BY DEF Stocked, VenvOut, PayloadOut
    <3> QED
      BY <3>1, <3>2, StepsOnKeep
  <2> QED
    BY <2>2, <2>3
<1>6. CASE CreateOrGetEnvironment(i)
  <2>1. StepsOn(i, "recorded")
    BY <1>1, <1>2, <1>6 DEF StepsOn, CreateOrGetEnvironment, files, BegunPhase, InstallPhase, RegistryTypes
  <2>2. Stocked(v, "recorded")
    BY <1>1, <1>6 DEF Stocked, CreateOrGetEnvironment, files, StepFits, VenvOut, PayloadOut, BegunPhase, InstallPhase
  <2> QED
    BY <2>1, <2>2, StepsOnKeep
<1>7. CASE MarkEnvironmentReady(i)
  <2>1. StepsOn(i, "ready")
    BY <1>1, <1>2, <1>7 DEF StepsOn, MarkEnvironmentReady, files, BegunPhase, InstallPhase, RegistryTypes
  <2>2. Stocked(v, "ready")
    BY <1>1, <1>7 DEF Stocked, MarkEnvironmentReady, files, StepFits, VenvOut, PayloadOut, BegunPhase, InstallPhase
  <2> QED
    BY <2>1, <2>2, StepsOnKeep
<1>8. CASE HealthCheck(i)
  <2>1. install[i].phase = "attached" /\ UNCHANGED <<pkg, envRows, files, removal, people>> /\ (Reaches(i, "checked") \/ Reaches(i, "failing"))
    BY <1>8 DEF HealthCheck, Guarded
  <2>2. StepsOn(i, "checked") \/ StepsOn(i, "failing")
    BY <1>1, <2>1 DEF StepsOn, files, BegunPhase, InstallPhase, RegistryTypes
  <2>3. Stocked(v, "checked") /\ Stocked(v, "failing")
    BY <1>1, <2>1 DEF Stocked, files, StepFits, VenvOut, PayloadOut, BegunPhase, InstallPhase
  <2> QED
    BY <2>2, <2>3, StepsOnKeep
<1>9. CASE StepRaises(i)
  <2>1. StepsOn(i, "failing")
    BY <1>1, <1>3, <1>9 DEF StepsOn, StepRaises, files, BegunPhase, InstallPhase, RegistryTypes
  <2>2. Stocked(v, "failing")
    BY DEF Stocked, VenvOut, PayloadOut
  <2> QED
    BY <2>1, <2>2, StepsOnKeep
<1> QED
  BY <1>4, <1>5, <1>6, <1>7, <1>8, <1>9

LEMMA RowsMarkedKeep == ASSUME PackageInv, NEW i \in Installers, MarkInstalled(i) \/ AttachEnvironment(i) PROVE PackageInv'
<1> DEFINE v == install[i].version
<1>1. StepFits(install[i], pkg, payloads, venvs) /\ RegistryTypes
  BY InstallerFacts DEF PackageInv, RegistryInv
<1>2. install[i].phase \in {"published", "ready"} /\ v \in Versions /\ pkg[v] \in PackageRow /\ UNCHANGED <<envRows, files, removal, people>>
  BY InstallerFacts DEF MarkInstalled, AttachEnvironment
<1>3. v \in payloads \/ pkg[v].status = "removed"
  BY <1>1, <1>2 DEF StepFits, PayloadOut, BegunPhase, InstallPhase
<1>4. CASE Reaches(i, "failing") /\ UNCHANGED pkg
  <2>1. StepsOn(i, "failing")
    BY <1>1, <1>2, <1>4 DEF StepsOn, files, BegunPhase, InstallPhase, RegistryTypes
  <2>2. Stocked(v, "failing")
    BY DEF Stocked, VenvOut, PayloadOut
  <2> QED
    BY <2>1, <2>2, StepsOnKeep
<1>5. CASE MarkInstalled(i) /\ pkg[v].status = "installing"
  <2> DEFINE row == [pkg[v] EXCEPT !.status = "installed", !.stored = TRUE]
  <2>1. row \in PackageRow /\ row.status = "installed" /\ row.env = pkg[v].env
    BY <1>2 DEF PackageRow, InstallStatus
  <2>2. pkg' = [pkg EXCEPT ![v] = row] /\ Reaches(i, "marked")
    BY <1>5 DEF MarkInstalled, Guarded
  <2> HIDE DEF row
  <2>3. Goes(i, "marked", row)
    BY <1>1, <1>2, <2>1, <2>2 DEF Goes, files, BegunPhase, InstallPhase, RegistryTypes
  <2>4. Finds(v, "marked", row)
    BY <1>2, <1>3, <1>5, <2>1 DEF Finds, files, VenvOut
  <2> QED
    BY <2>3, <2>4, GoesKeeps
<1>6. CASE AttachEnvironment(i) /\ pkg[v].status = "installed"
  <2> DEFINE row == [pkg[v] EXCEPT !.env = TRUE]
  <2>1. row \in PackageRow /\ row.status = "installed" /\ row.env
    BY <1>2, <1>6 DEF PackageRow
  <2>2. pkg' = [pkg EXCEPT ![v] = row] /\ Reaches(i, "attached")
    BY <1>6 DEF AttachEnvironment, Guarded
  <2> HIDE DEF row
  <2>3. Goes(i, "attached", row)
    BY <1>1, <1>2, <2>1, <2>2 DEF Goes, files, BegunPhase, InstallPhase, RegistryTypes
  <2>4. v \in venvs
    BY <1>1, <1>6 DEF AttachEnvironment, StepFits, VenvOut, PayloadOut, BegunPhase, InstallPhase
  <2>5. Finds(v, "attached", row)
    BY <1>2, <1>3, <1>6, <2>1, <2>4 DEF Finds, files
  <2> QED
    BY <2>3, <2>5, GoesKeeps
<1>7. (MarkInstalled(i) /\ pkg[v].status = "installing") \/ (AttachEnvironment(i) /\ pkg[v].status = "installed") \/ (Reaches(i, "failing") /\ UNCHANGED pkg)
  BY DEF MarkInstalled, AttachEnvironment, Guarded
<1> QED
  BY <1>4, <1>5, <1>6, <1>7

LEMMA LastStepKeeps == ASSUME PackageInv, NEW i \in Installers, MarkActive(i) \/ MarkFailed(i) PROVE PackageInv'
<1> DEFINE v == install[i].version
<1>1. StepFits(install[i], pkg, payloads, venvs) /\ RegistryTypes
  BY InstallerFacts DEF PackageInv, RegistryInv
<1>2. install[i].phase \in {"checked", "failing"} /\ v \in Versions /\ pkg[v] \in PackageRow /\ UNCHANGED <<envRows, files, removal, people>>
  BY InstallerFacts DEF MarkActive, MarkFailed
<1>3. install[i].phase \in BegunPhase /\ HoldsRow(i, v)
  BY <1>2 DEF BegunPhase, InstallPhase, HoldsRow
<1>4. StepFits(NoInstall, pkg', payloads', venvs') /\ NoInstall.phase \notin BegunPhase
  BY LeavingFits DEF NoInstall, BegunPhase
<1>5. CASE Reaches(i, "failing") /\ UNCHANGED pkg
  <2>1. StepsOn(i, "failing")
    BY <1>1, <1>2, <1>3, <1>5 DEF StepsOn, files, BegunPhase, InstallPhase, RegistryTypes
  <2>2. Stocked(v, "failing")
    BY DEF Stocked, VenvOut, PayloadOut
  <2> QED
    BY <2>1, <2>2, StepsOnKeep
<1>6. CASE MarkActive(i) /\ MayActivate(v) /\ SetStatus(v, "active") /\ Leaves(i)
  <2> DEFINE row == [pkg[v] EXCEPT !.status = "active"]
  <2>1. row \in PackageRow /\ row.status = "active" /\ row.env = pkg[v].env
    BY <1>2 DEF PackageRow, InstallStatus
  <2>2. pkg' = [pkg EXCEPT ![v] = row] /\ install' = [install EXCEPT ![i] = NoInstall]
    BY <1>6 DEF SetStatus, Leaves
  <2>3. v \in payloads /\ v \in venvs
    BY <1>1, <1>6 DEF MarkActive, MayActivate, StepFits, VenvOut, PayloadOut, BegunPhase, InstallPhase
  <2> HIDE DEF row
  <2>4. VersionMoves(i, v, row, NoInstall)
    BY <1>2, <1>4, <1>6, <2>1, <2>3 DEF VersionMoves, MayActivate, files
  <2> QED
    BY <1>2, <1>3, <1>4, <2>1, <2>2, <2>4, RowWritten
<1>7. CASE MarkFailed(i)
  <2> DEFINE row == [pkg[v] EXCEPT !.status = IF pkg[v].status \in {"installing", "installed"} THEN "failed" ELSE pkg[v].status]
  <2>1. row \in PackageRow /\ row.env = pkg[v].env /\ row.content = pkg[v].content
        /\ row.status = IF pkg[v].status \in {"installing", "installed"} THEN "failed" ELSE pkg[v].status
    BY <1>2 DEF PackageRow, InstallStatus
  <2>2. pkg' = [pkg EXCEPT ![v] = row] /\ install' = [install EXCEPT ![i] = NoInstall]
    BY <1>7 DEF MarkFailed, Leaves
  <2> HIDE DEF row
  <2>3. RowFits(v)
    BY <1>2 DEF PackageInv, RegistryInv
  <2>4. VersionMoves(i, v, row, NoInstall)
    BY <1>2, <1>3, <1>4, <2>1, <2>3 DEF VersionMoves, RowFits, Complete, files
  <2> QED
    BY <1>2, <1>3, <1>4, <2>1, <2>2, <2>4, RowWritten
<1> QED
  BY <1>5, <1>6, <1>7 DEF MarkActive

LEMMA InstallingKeeps == ASSUME PackageInv, NEW i \in Installers, Installing(i) PROVE PackageInv'
BY BeginInstallKeeps, DirectoriesKeep, RowsMarkedKeep, LastStepKeeps DEF Installing

\* The rows and directories stay: only the remover's own record changes.
LEMMA OnlyRemover ==
  ASSUME PackageInv, NEW d \in Removers, NEW entry, RemovalFits(entry, pkg),
         removal' = [removal EXCEPT ![d] = entry], UNCHANGED <<pkg, envRows, files, install, people>>
  PROVE  PackageInv'
<1>1. RemoverStep(d, entry)
  BY DEF RemoverStep, files, PackageInv, RegistryInv, RegistryTypes
<1>2. \A v \in Versions : RowGoes(v)
  BY DEF RowGoes
<1> QED
  BY <1>1, <1>2, RemoverMoves

LEMMA IdleRemovalFits == RemovalFits(NoRemoval, pkg) /\ RemovalFits(NoRemoval, pkg')
BY DEF RemovalFits, NoRemoval, RemovalRow

LEMMA PlanRemovalKeeps == ASSUME PackageInv, NEW d \in Removers, NEW v \in Versions, PlanRemoval(d, v) PROVE PackageInv'
<1>1. PICK entry : entry = [phase |-> IF LiveOf(v) # {} THEN "draining" ELSE "finalizing", versions |-> {v}, envs |-> {}]
  OBVIOUS
<1>2. entry \in RemovalRow /\ entry.phase \notin {"deleting", "emptying"}
  BY <1>1 DEF RemovalRow
<1>3. RemovalFits(entry, pkg)
  BY <1>2 DEF RemovalFits
<1> QED
  BY <1>1, <1>3, OnlyRemover DEF PlanRemoval

LEMMA MarkPendingKeeps == ASSUME PackageInv, NEW d \in Removers, MarkPendingRemoval(d) PROVE PackageInv'
<1>1. pkg \in [Versions -> PackageRow] /\ RegistryTypes
  BY DEF PackageInv, RegistryInv, RegistryTypes
<1>2. ASSUME NEW v \in Versions PROVE pkg'[v] \in PackageRow /\ RowGoes(v)
  <2>1. pkg[v] \in PackageRow
    BY <1>1
  <2>2. CASE v \in removal[d].versions /\ pkg[v].status \in {"active", "installed", "failed"}
    <3>1. pkg'[v] = [pkg[v] EXCEPT !.status = "pending_removal"]
      BY <2>2 DEF MarkPendingRemoval
    <3> QED
      BY <2>1, <2>2, <3>1 DEF PackageRow, InstallStatus, RowGoes
  <2>3. CASE ~(v \in removal[d].versions /\ pkg[v].status \in {"active", "installed", "failed"})
    BY <2>1, <2>3 DEF MarkPendingRemoval, RowGoes
  <2> QED
    BY <2>2, <2>3
<1>3. pkg' \in [Versions -> PackageRow]
  BY <1>2 DEF MarkPendingRemoval
<1>4. RemoverStep(d, NoRemoval)
  BY <1>1, <1>3, IdleRemovalFits DEF RemoverStep, MarkPendingRemoval, files
<1> QED
  BY <1>2, <1>4, RemoverMoves

LEMMA MarkRemovedKeeps ==
  ASSUME PackageInv, NEW d \in Removers, NEW vs \in SUBSET Versions, MarkRemoved(d, vs), \A v \in vs : Removable(v)
  PROVE  PackageInv'
<1>1. pkg \in [Versions -> PackageRow] /\ RegistryTypes
  BY DEF PackageInv, RegistryInv, RegistryTypes
<1>2. ASSUME NEW v \in Versions PROVE pkg'[v] \in PackageRow /\ RowGoes(v) /\ (v \in vs => pkg'[v].status = "removed")
  <2>1. pkg[v] \in PackageRow
    BY <1>1
  <2>2. CASE v \in vs
    <3>1. pkg'[v] = [pkg[v] EXCEPT !.status = "removed"]
      BY <2>2 DEF MarkRemoved
    <3> QED
      BY <2>1, <2>2, <3>1 DEF PackageRow, InstallStatus, RowGoes
  <2>3. CASE v \notin vs
    BY <2>1, <2>3 DEF MarkRemoved, RowGoes
  <2> QED
    BY <2>2, <2>3
<1>3. pkg' \in [Versions -> PackageRow]
  BY <1>2 DEF MarkRemoved
<1>4. PICK entry : entry = [phase |-> "deleting", versions |-> {v \in vs : pkg[v].stored}, envs |-> {v \in vs : pkg[v].env /\ ~Referenced(v)}]
  OBVIOUS
<1>5. entry \in RemovalRow /\ entry.versions \subseteq vs /\ entry.envs \subseteq vs
  BY <1>4 DEF RemovalRow
<1>6. RemovalFits(entry, pkg')
  BY <1>2, <1>5 DEF RemovalFits
<1>7. RemoverStep(d, entry)
  BY <1>1, <1>3, <1>4, <1>6 DEF RemoverStep, MarkRemoved, files
<1> QED
  BY <1>2, <1>7, RemoverMoves

LEMMA RemoverFacts ==
  ASSUME PackageInv, NEW d \in Removers
  PROVE  removal[d] \in RemovalRow /\ RemovalFits(removal[d], pkg) /\ removal[d].versions \subseteq Versions /\ removal[d].envs \subseteq Versions
BY DEF PackageInv, RegistryInv, RemovalFits, RemovalRow

LEMMA DeletingKeeps == ASSUME PackageInv, NEW d \in Removers, RemovePayload(d) \/ RemoveEnvironment(d) PROVE PackageInv'
<1>1. RegistryTypes /\ pkg' = pkg /\ removal[d].phase \in {"deleting", "emptying"}
  BY DEF PackageInv, RegistryInv, RemovePayload, RemoveEnvironment
<1>2. \A v \in removal[d].versions \union removal[d].envs : pkg[v].status = "removed"
  BY <1>1, RemoverFacts DEF RemovalFits
<1>3. \A v \in Versions : RowGoes(v)
  BY <1>1 DEF RowGoes
<1>4. CASE RemovePayload(d)
  <2>1. PICK entry : entry = [removal[d] EXCEPT !.phase = "emptying"]
    OBVIOUS
  <2>2. entry \in RemovalRow /\ entry.versions = removal[d].versions /\ entry.envs = removal[d].envs
    BY <2>1, RemoverFacts DEF RemovalRow
  <2>3. RemovalFits(entry, pkg')
    BY <1>1, <1>2, <2>2 DEF RemovalFits
  <2>4. RemoverStep(d, entry)
    BY <1>1, <1>2, <1>4, <2>1, <2>3 DEF RemoverStep, RemovePayload, RegistryTypes
  <2> QED
    BY <1>3, <2>4, RemoverMoves
<1>5. CASE RemoveEnvironment(d)
  <2>1. RemoverStep(d, NoRemoval)
    BY <1>1, <1>2, <1>5, IdleRemovalFits DEF RemoverStep, RemoveEnvironment, RegistryTypes
  <2> QED
    BY <1>3, <2>1, RemoverMoves
<1> QED
  BY <1>4, <1>5

LEMMA RemovingKeeps == ASSUME PackageInv, NEW d \in Removers, Removing(d) PROVE PackageInv'
<1>1. CASE FinalizeRemoval(d)
  <2>1. CASE (\A v \in removal[d].versions : Removable(v)) /\ MarkRemoved(d, removal[d].versions)
    <3>1. removal[d].versions \in SUBSET Versions
      BY RemoverFacts
    <3> QED
      BY <2>1, <3>1, MarkRemovedKeeps
  <2>2. CASE removal' = [removal EXCEPT ![d] = NoRemoval] /\ UNCHANGED <<pkg, envRows, files, install, people>>
    BY <2>2, IdleRemovalFits, OnlyRemover
  <2> QED
    BY <1>1, <2>1, <2>2 DEF FinalizeRemoval
<1>2. CASE ReconcilePendingRemovals(d)
  <2> DEFINE vs == {v \in Versions : pkg[v].status = "pending_removal" /\ Removable(v)}
  <2>1. MarkRemoved(d, vs) /\ vs \in SUBSET Versions /\ \A v \in vs : Removable(v)
    BY <1>2 DEF ReconcilePendingRemovals
  <2> HIDE DEF vs
  <2> QED
    BY <2>1, MarkRemovedKeeps
<1> QED
  BY <1>1, <1>2, PlanRemovalKeeps, MarkPendingKeeps, DeletingKeeps DEF Removing

\* The registry stays; a binding, an editor or a Run changes.
LEMMA RegistryStays ==
  ASSUME PackageInv, UNCHANGED <<pkg, envRows, files, install, removal>>, revoked' \subseteq Contents, UseInv' PROVE PackageInv'
BY DEF PackageInv, RegistryInv, RegistryTypes, RowFits, Complete, OneInstaller, HoldsRow, files

LEMMA TrustKeeps == ASSUME PackageInv, NEW c \in Contents, NEW revoke \in BOOLEAN, DecideTrust(c, revoke) PROVE PackageInv'
<1>1. UNCHANGED <<pkg, envRows, files, install, removal, binding, edits, packageRuns>> /\ revoked' \subseteq Contents
  BY DEF DecideTrust, PackageInv, RegistryInv, RegistryTypes
<1>2. Sparing
  BY <1>1 DEF Sparing, files
<1> QED
  BY <1>1, <1>2, UsersKeep, RegistryStays

LEMMA IdleEditFits == EditFits(NoEdit, binding) /\ EditFits(NoEdit, binding')
BY PackageAssumption DEF EditFits, NoEdit, EditRow

LEMMA CrashKeeps == ASSUME PackageInv, CrashApi PROVE PackageInv'
<1>1. install' \in [Installers -> InstallRow] /\ removal' \in [Removers -> RemovalRow] /\ edits' \in [Editors -> EditRow]
  <2>1. NoInstall \in InstallRow /\ NoRemoval \in RemovalRow /\ NoEdit \in EditRow
    BY LeavingFits, IdleRemovalFits, IdleEditFits DEF StepFits, RemovalFits, EditFits
  <2>2. edits \in [Editors -> EditRow]
    BY DEF PackageInv, UseInv
  <2> QED
    BY <2>1, <2>2 DEF CrashApi
<1>2. StepFits(NoInstall, pkg', payloads', venvs') /\ RemovalFits(NoRemoval, pkg')
  BY LeavingFits, IdleRemovalFits
<1>3. OneInstaller'
  BY DEF CrashApi, OneInstaller, HoldsRow, NoInstall, BegunPhase
<1>4. RegistryTypes' /\ \A v \in Versions : RowFits(v)'
  BY DEF CrashApi, PackageInv, RegistryInv, RegistryTypes, RowFits, Complete, files
<1>5. RegistryInv'
  BY <1>1, <1>2, <1>3, <1>4 DEF CrashApi, RegistryInv
<1>6. EditFits(NoEdit, binding)
  BY PackageAssumption DEF EditFits, NoEdit, EditRow
<1>7. ASSUME NEW u \in Editors PROVE EditFits(edits'[u], binding')
  BY <1>6 DEF CrashApi, PackageInv, UseInv
<1>8. BindingFits' /\ packageRuns' \in Seq(PackageRun) /\ \A r \in DOMAIN packageRuns' : RunFits(packageRuns[r])'
  BY DEF CrashApi, PackageInv, UseInv, BindingFits, RunFits, files
<1> QED
  BY <1>1, <1>5, <1>7, <1>8 DEF PackageInv, UseInv

LEMMA RunsStay ==
  ASSUME PackageInv, UNCHANGED <<packageRuns, pkg, venvs, envRows>>
  PROVE  packageRuns' \in Seq(PackageRun) /\ \A r \in DOMAIN packageRuns' : RunFits(packageRuns[r])'
BY DEF PackageInv, UseInv, RunFits

\* One editor moves: what it has read is still what it says.
LEMMA EditorMoves ==
  ASSUME PackageInv, NEW u \in Editors, NEW entry, EditFits(entry, binding),
         edits' = [edits EXCEPT ![u] = entry], UNCHANGED <<binding, packageRuns, rest>>
  PROVE  PackageInv'
<1>1. edits' \in [Editors -> EditRow] /\ \A w \in Editors : EditFits(edits'[w], binding')
  <2>1. entry \in EditRow
    BY DEF EditFits
  <2> QED
    BY <2>1 DEF PackageInv, UseInv
<1>2. BindingFits'
  BY DEF PackageInv, UseInv, BindingFits, rest
<1>3. UseInv'
  BY <1>1, <1>2, RunsStay DEF UseInv, rest, files
<1>4. revoked' \subseteq Contents
  BY DEF PackageInv, RegistryInv, RegistryTypes, rest
<1> QED
  BY <1>3, <1>4, RegistryStays DEF rest

LEMMA EditorFacts ==
  ASSUME PackageInv, NEW u \in Editors
  PROVE  edits[u] \in EditRow /\ EditFits(edits[u], binding) /\ BindingFits /\ binding \in BindingRow /\ binding.revision \in Nat
<1>1. edits[u] \in EditRow /\ EditFits(edits[u], binding) /\ BindingFits /\ binding \in BindingRow
  BY DEF PackageInv, UseInv, EditFits, BindingFits
<1>2. binding.revision \in 0..MaxRevision
  BY <1>1 DEF BindingRow
<1> QED
  BY <1>1, <1>2, PackageAssumption

LEMMA EditsKeep ==
  ASSUME PackageInv, NEW u \in Editors,
         (\E v \in Versions \union {0} : OpenEditor(u, v)) \/ ReadSchema(u) \/ (\E c \in Configs : ValidateConfig(u, c))
  PROVE  PackageInv'
<1> DEFINE e == edits[u]
<1>1. e \in EditRow /\ EditFits(e, binding) /\ BindingFits /\ binding \in BindingRow /\ binding.revision \in Nat
  BY EditorFacts
<1>2. CASE edits' = [edits EXCEPT ![u] = NoEdit] /\ UNCHANGED <<binding, packageRuns, rest>>
  BY <1>2, IdleEditFits, EditorMoves
<1>3. ASSUME NEW v \in Versions \union {0}, OpenEditor(u, v) PROVE PackageInv'
  <2>1. PICK entry : entry = [NoEdit EXCEPT !.phase = "opened", !.target = v, !.expected = binding.revision]
    OBVIOUS
  <2>2. binding.revision \in 0..MaxRevision
    BY <1>1 DEF BindingRow
  <2>3. entry \in EditRow /\ entry.phase = "opened" /\ entry.expected = binding.revision
    BY <2>1, <2>2 DEF EditRow, NoEdit
  <2>4. binding.version # 0
    BY <1>3 DEF OpenEditor
  <2>5. entry.expected <= binding.revision
    BY <1>1, <2>3
  <2>6. EditFits(entry, binding)
    BY <2>3, <2>4, <2>5 DEF EditFits
  <2> QED
    BY <1>3, <2>1, <2>6, EditorMoves DEF OpenEditor
<1>4. CASE ReadSchema(u)
  <2> DEFINE v == IF e.target = 0 THEN binding.version ELSE e.target
             ok == e.target # 0 => pkg[v].status = "active" /\ pkg[v].content \notin revoked
  <2>1. CASE ok
    <3>1. PICK entry : entry = [edits[u] EXCEPT !.phase = "reading", !.seen = v]
      OBVIOUS
    <3>2. e.phase = "opened" /\ binding.version # 0 /\ e.expected <= binding.revision
      BY <1>1, <1>4 DEF ReadSchema, EditFits
    <3>3. v \in Versions
      BY <1>1, <3>2 DEF EditRow, BindingRow
    <3>4. entry \in EditRow /\ entry.phase = "reading" /\ entry.seen = v /\ entry.target = e.target /\ entry.expected = e.expected
      BY <1>1, <3>1, <3>3 DEF EditRow
    <3>5. EditFits(entry, binding)
      BY <3>2, <3>3, <3>4 DEF EditFits
    <3>6. edits' = [edits EXCEPT ![u] = entry] /\ UNCHANGED <<binding, packageRuns, rest>>
      BY <1>4, <2>1, <3>1 DEF ReadSchema
    <3> QED
      BY <3>5, <3>6, EditorMoves
  <2>2. CASE ~ok
    BY <1>2, <1>4, <2>2 DEF ReadSchema
  <2> QED
    BY <2>1, <2>2
<1>5. ASSUME NEW c \in Configs, ValidateConfig(u, c) PROVE PackageInv'
  <2>1. CASE Valid(c, e.seen) /\ KeepsFixed(u, c)
    <3>1. PICK entry : entry = [edits[u] EXCEPT !.phase = "checked", !.config = c]
      OBVIOUS
    <3>2. e.phase = "reading"
      BY <1>5 DEF ValidateConfig
    <3>3. entry \in EditRow /\ entry.phase = "checked" /\ entry.config = c /\ entry.seen = e.seen /\ entry.target = e.target /\ entry.expected = e.expected
      BY <1>1, <3>1 DEF EditRow
    <3>4. EditFits(entry, binding)
      BY <1>1, <2>1, <3>2, <3>3 DEF EditFits, Valid, KeepsFixed
    <3>5. edits' = [edits EXCEPT ![u] = entry] /\ UNCHANGED <<binding, packageRuns, rest>>
      BY <1>5, <2>1, <3>1 DEF ValidateConfig
    <3> QED
      BY <3>4, <3>5, EditorMoves
  <2>2. CASE ~(Valid(c, e.seen) /\ KeepsFixed(u, c))
    BY <1>2, <1>5, <2>2 DEF ValidateConfig
  <2> QED
    BY <2>1, <2>2
<1> QED
  BY <1>3, <1>4, <1>5

\* A binding is written with a higher revision: whoever read the old one is out of date.
LEMMA BindingMoves ==
  ASSUME PackageInv, NEW bind \in BindingRow, binding' = bind, UNCHANGED <<packageRuns, rest>>,
         bind.version # 0, bind.config \in Configs, bind.config \in Accepts[bind.version], pkg[bind.version].status # "removed",
         bind.revision > binding.revision, edits' \in [Editors -> EditRow], \A u \in Editors : edits'[u] \in {edits[u], NoEdit}
  PROVE  PackageInv'
<1>1. binding \in BindingRow /\ binding.revision \in Nat
  <2>1. binding \in BindingRow
    BY DEF PackageInv, UseInv, BindingFits
  <2> QED
    BY <2>1, PackageAssumption DEF BindingRow
<1>2. bind.revision \in Nat
  BY PackageAssumption DEF BindingRow
<1>3. ASSUME NEW u \in Editors PROVE EditFits(edits'[u], binding')
  <2>1. EditFits(edits[u], binding) /\ edits[u] \in EditRow
    BY DEF PackageInv, UseInv, EditFits
  <2>2. edits[u].expected \in Nat
    BY <2>1, PackageAssumption DEF EditRow
  <2>3. EditFits(edits[u], binding')
    BY <1>1, <1>2, <2>1, <2>2 DEF EditFits
  <2> QED
    BY <2>3, IdleEditFits
<1>4. BindingFits'
  BY DEF BindingFits, rest
<1>5. UseInv'
  BY <1>3, <1>4, RunsStay DEF UseInv, rest, files
<1>6. revoked' \subseteq Contents
  BY DEF PackageInv, RegistryInv, RegistryTypes, rest
<1> QED
  BY <1>5, <1>6, RegistryStays DEF rest

\* What an editor that may write has checked: the schema of the version it writes.
LEMMA RewriteFacts ==
  ASSUME PackageInv, NEW u \in Editors, NEW v, edits[u].phase = "checked", CurrentRevision(u), binding.revision < MaxRevision,
         v = IF edits[u].target = 0 THEN binding.version ELSE edits[u].target, Rewrite(u, v)
  PROVE  /\ v = edits[u].seen /\ v \in Versions /\ binding' \in BindingRow /\ binding'.version = v /\ binding'.config = edits[u].config
         /\ binding'.config \in Configs /\ binding'.config \in Accepts[v] /\ binding'.revision > binding.revision
         /\ v \in Immutable => Fixed[binding'.config] = Fixed[binding.config]
<1>1. edits[u] \in EditRow /\ EditFits(edits[u], binding) /\ binding \in BindingRow /\ binding.revision \in Nat
  BY EditorFacts
<1>2. edits[u].expected = binding.revision /\ edits[u].expected + 1 \in 0..MaxRevision
  BY <1>1, PackageAssumption DEF CurrentRevision
<1>3. v = edits[u].seen /\ v \in Versions
  BY <1>1, <1>2 DEF EditFits
<1>4. binding'.version = v /\ binding'.config = edits[u].config /\ binding'.revision = binding.revision + 1
  BY <1>2 DEF Rewrite
<1>5. binding'.config \in Configs /\ binding'.config \in Accepts[v] /\ (v \in Immutable => Fixed[binding'.config] = Fixed[binding.config])
  BY <1>1, <1>2, <1>3, <1>4 DEF EditFits
<1>6. binding' \in BindingRow
  BY <1>2, <1>3, <1>4, <1>5 DEF BindingRow, Rewrite
<1> QED
  BY <1>1, <1>3, <1>4, <1>5, <1>6

LEMMA RewritesKeep == ASSUME PackageInv, NEW u \in Editors, UpdateInstanceConfig(u) \/ RebindInstance(u) PROVE PackageInv'
<1> DEFINE v == IF edits[u].target = 0 THEN binding.version ELSE edits[u].target
<1>1. CASE edits' = [edits EXCEPT ![u] = NoEdit] /\ UNCHANGED binding
  <2>1. UNCHANGED <<binding, packageRuns, rest>>
    BY <1>1 DEF UpdateInstanceConfig, RebindInstance
  <2> QED
    BY <1>1, <2>1, IdleEditFits, EditorMoves
<1>2. CASE edits[u].phase = "checked" /\ CurrentRevision(u) /\ binding.revision < MaxRevision /\ Rewrite(u, v) /\ (edits[u].target # 0 => pkg[v].status = "active")
  <2>1. PICK bind : bind = binding'
    OBVIOUS
  <2>2. v \in Versions /\ bind \in BindingRow /\ bind.version = v /\ bind.config \in Configs /\ bind.config \in Accepts[v] /\ bind.revision > binding.revision
    BY <1>2, <2>1, RewriteFacts
  <2>3. pkg[v].status # "removed"
    BY <1>2, <2>2, EditorFacts, PackageAssumption DEF BindingFits
  <2>4. edits' \in [Editors -> EditRow] /\ \A w \in Editors : edits'[w] \in {edits[w], NoEdit}
    BY <1>2, IdleEditFits DEF Rewrite, PackageInv, UseInv, EditFits
  <2>5. UNCHANGED <<packageRuns, rest>> /\ bind.version # 0
    BY <2>2, PackageAssumption DEF UpdateInstanceConfig, RebindInstance
  <2> QED
    BY <2>1, <2>2, <2>3, <2>4, <2>5, BindingMoves
<1>3. CASE UpdateInstanceConfig(u)
  BY <1>1, <1>2, <1>3 DEF UpdateInstanceConfig
<1>4. CASE RebindInstance(u)
  BY <1>1, <1>2, <1>4 DEF RebindInstance
<1> QED
  BY <1>3, <1>4

LEMMA CreateKeeps == ASSUME PackageInv, NEW v \in Versions, NEW c \in Configs, CreatePackageInstance(v, c) PROVE PackageInv'
<1>1. PICK bind : bind = [version |-> v, config |-> c, revision |-> 1]
  OBVIOUS
<1>2. bind \in BindingRow /\ bind.version = v /\ bind.config = c /\ bind.revision = 1 /\ v # 0
  BY <1>1, PackageAssumption DEF BindingRow
<1>3. binding' = bind /\ UNCHANGED <<packageRuns, rest>> /\ edits' = edits /\ c \in Accepts[v] /\ pkg[v].status = "active" /\ binding.version = 0
  BY <1>1 DEF CreatePackageInstance, Valid
<1>4. edits' \in [Editors -> EditRow] /\ \A u \in Editors : edits'[u] \in {edits[u], NoEdit}
  BY <1>3 DEF PackageInv, UseInv
<1>5. binding.revision = 0
  BY <1>3 DEF PackageInv, UseInv, BindingFits
<1> QED
  BY <1>2, <1>3, <1>4, <1>5, BindingMoves

\* The instance's Runs: appended with what is bound, then launched and ended.
LEMMA RunsMove ==
  ASSUME PackageInv, UNCHANGED <<binding, edits, rest>>, packageRuns' \in Seq(PackageRun),
         \A r \in DOMAIN packageRuns' : RunFits(packageRuns'[r])
  PROVE  PackageInv'
<1>1. BindingFits' /\ edits' \in [Editors -> EditRow] /\ \A u \in Editors : EditFits(edits'[u], binding')
  BY DEF PackageInv, UseInv, BindingFits, rest
<1>2. \A r \in DOMAIN packageRuns' : RunFits(packageRuns[r])'
  BY DEF RunFits, rest, files
<1>3. revoked' \subseteq Contents
  BY DEF PackageInv, RegistryInv, RegistryTypes, rest
<1> QED
  BY <1>1, <1>2, <1>3, RegistryStays DEF UseInv, rest

LEMMA RunsKeep ==
  ASSUME PackageInv, SubmitPackageRun \/ \E r \in DOMAIN packageRuns : LaunchPackageRun(r) \/ EndPackageRun(r)
  PROVE  PackageInv'
<1>1. packageRuns \in Seq(PackageRun) /\ BindingFits /\ \A r \in DOMAIN packageRuns : RunFits(packageRuns[r])
  BY DEF PackageInv, UseInv
<1>2. CASE SubmitPackageRun
  <2>1. PICK new : new = [version |-> binding.version, config |-> binding.config, status |-> "queued"]
    OBVIOUS
  <2>2. binding.version \in Versions /\ binding.config \in Configs /\ binding.config \in Accepts[binding.version]
        /\ pkg[binding.version].status = "active" /\ packageRuns' = Append(packageRuns, new) /\ UNCHANGED <<binding, edits, rest>>
    BY <1>1, <1>2, <2>1 DEF SubmitPackageRun, BindingFits, BindingRow
  <2>3. new \in PackageRun /\ new.version = binding.version /\ new.config = binding.config
    BY <2>1, <2>2 DEF PackageRun
  <2>4. RowFits(binding.version)
    BY <2>2 DEF PackageInv, RegistryInv
  <2>5. RunFits(new)
    BY <2>2, <2>3, <2>4 DEF RunFits, RowFits, Complete
  <2>6. packageRuns' \in Seq(PackageRun) /\ Len(packageRuns') = Len(packageRuns) + 1
    BY <1>1, <2>2, <2>3
  <2>7. ASSUME NEW r \in DOMAIN packageRuns' PROVE RunFits(packageRuns'[r])
    <3>1. r \in 1..Len(packageRuns) + 1 /\ Len(packageRuns) \in Nat
      BY <1>1, <2>6, <2>7
    <3>2. CASE r = Len(packageRuns) + 1
      BY <1>1, <2>2, <2>5, <3>2
    <3>3. CASE r # Len(packageRuns) + 1
      <4>1. r \in 1..Len(packageRuns)
        BY <3>1, <3>3
      <4>2. packageRuns'[r] = packageRuns[r] /\ r \in DOMAIN packageRuns
        BY <1>1, <2>2, <4>1
      <4> QED
        BY <1>1, <4>2
    <3> QED
      BY <3>2, <3>3
  <2> QED
    BY <2>2, <2>6, <2>7, RunsMove
<1>3. ASSUME NEW r \in DOMAIN packageRuns, LaunchPackageRun(r) \/ EndPackageRun(r) PROVE PackageInv'
  <2> DEFINE old == packageRuns[r]
  <2>1. old \in PackageRun /\ RunFits(old)
    BY <1>1
  <2>2. PICK status \in {"running", "ended"} : packageRuns' = [packageRuns EXCEPT ![r].status = status] /\ (old.status = "ended" => status = "ended")
    BY <1>3 DEF LaunchPackageRun, EndPackageRun
  <2>3. PICK new : new = [packageRuns[r] EXCEPT !.status = status]
    OBVIOUS
  <2>4. new \in PackageRun /\ new.version = old.version /\ new.config = old.config /\ new.status = status
    BY <2>1, <2>3 DEF PackageRun
  <2>5. RunFits(new)
    BY <2>1, <2>2, <2>4 DEF RunFits
  <2>6. packageRuns' = [packageRuns EXCEPT ![r] = new]
    BY <2>2, <2>3
  <2>7. packageRuns' \in Seq(PackageRun) /\ DOMAIN packageRuns' = DOMAIN packageRuns
    BY <1>1, <2>4, <2>6
  <2>8. \A q \in DOMAIN packageRuns' : RunFits(packageRuns'[q])
    BY <1>1, <2>5, <2>6, <2>7
  <2>9. UNCHANGED <<binding, edits, rest>>
    BY <1>3 DEF LaunchPackageRun, EndPackageRun
  <2> QED
    BY <2>7, <2>8, <2>9, RunsMove
<1> QED
  BY <1>2, <1>3

LEMMA PackageStep == ASSUME PackageInv, [PackageNext]_packageVars PROVE PackageInv'
<1>1. CASE UNCHANGED packageVars
  <2>1. UNCHANGED <<pkg, envRows, files, install, removal, binding, edits, packageRuns, revoked>>
    BY <1>1 DEF packageVars, files
  <2>2. Sparing /\ revoked' \subseteq Contents
    BY <2>1 DEF Sparing, files, PackageInv, RegistryInv, RegistryTypes
  <2> QED
    BY <2>1, <2>2, UsersKeep, RegistryStays
<1>2. CASE \E i \in Installers : Installing(i) \/ \E v \in Versions, c \in Contents : Stage(i, v, c)
  BY <1>2, InstallingKeeps, StageKeeps
<1>3. CASE \E d \in Removers : Removing(d)
  BY <1>3, RemovingKeeps
<1>4. CASE \E u \in Editors : Configuring(u)
  BY <1>4, EditsKeep, RewritesKeep DEF Configuring
<1>5. CASE \E v \in Versions, c \in Configs : CreatePackageInstance(v, c)
  BY <1>5, CreateKeeps
<1>6. CASE SubmitPackageRun \/ \E r \in DOMAIN packageRuns : LaunchPackageRun(r) \/ EndPackageRun(r)
  BY <1>6, RunsKeep
<1>7. CASE \E c \in Contents, revoke \in BOOLEAN : DecideTrust(c, revoke)
  BY <1>7, TrustKeeps
<1> QED
  BY <1>1, <1>2, <1>3, <1>4, <1>5, <1>6, <1>7, CrashKeeps DEF PackageNext

\* Who may take a version away, and who would notice.
THEOREM PackageInvariant == PackageSpec => []PackageInv
<1>1. PackageInit => PackageInv
  BY PackageInitial
<1>2. PackageInv /\ [PackageNext]_packageVars => PackageInv'
  BY PackageStep
<1> QED
  BY <1>1, <1>2, PTL DEF PackageSpec

\* An active version is complete, a Run that has not ended can be executed, and
\* the configuration in force fits: whatever installs, removes and edits run at once.
THEOREM PackageSoundHolds == PackageSpec => []PackageSound
<1>1. ASSUME PackageInv PROVE PackageSound
  <2>1. PackageTypeOK
    <3>1. RegistryTypes /\ install \in [Installers -> InstallRow] /\ removal \in [Removers -> RemovalRow] /\ edits \in [Editors -> EditRow]
      BY <1>1 DEF PackageInv, RegistryInv, UseInv
    <3>2. binding \in BindingRow /\ packageRuns \in Seq(PackageRun)
      BY <1>1 DEF PackageInv, UseInv, BindingFits
    <3>3. \A r \in DOMAIN packageRuns : packageRuns[r] \in PackageRun
      BY <3>2
    <3> QED
      BY <3>1, <3>2, <3>3 DEF PackageTypeOK, RegistryTypes, PackageRow, InstallRow, RemovalRow, EditRow, BindingRow, PackageRun
  <2>2. ActiveIsComplete
    BY <1>1 DEF PackageInv, RegistryInv, RowFits, Complete, ActiveIsComplete
  <2>3. RunsCanExecute
    BY <1>1 DEF PackageInv, UseInv, RunFits, BindingFits, RunsCanExecute, Live
  <2>4. ConfigFits
    BY <1>1 DEF PackageInv, UseInv, RunFits, BindingFits, ConfigFits
  <2> QED
    BY <2>1, <2>2, <2>3, <2>4 DEF PackageSound
<1> QED
  BY <1>1, PackageInvariant, PTL

\* What was decided about a version stays: its content, and the value of a field
\* that the schema in force declares immutable.
THEOREM PackagePinnedHolds == PackageSpec => PackagePinned
<1> DEFINE Pinned == /\ \A v \in Versions : pkg[v].content # 0 => pkg'[v].content = pkg[v].content
                     /\ binding.version # 0 /\ binding'.version \in Immutable => Fixed[binding'.config] = Fixed[binding.config]
<1>1. ASSUME PackageInv, PackageNext PROVE Pinned
  <2>1. CASE UNCHANGED <<pkg, binding>>
    BY <2>1
  <2>2. ASSUME NEW i \in Installers, Installing(i) \/ \E v \in Versions, c \in Contents : Stage(i, v, c) PROVE Pinned
    <3>1. \A v \in Versions : pkg[v] \in PackageRow /\ RowFits(v)
      BY <1>1 DEF PackageInv, RegistryInv, RegistryTypes
    <3>2. UNCHANGED binding
      BY <2>2 DEF people, Installing, Stage, BeginInstall, PublishPayload, MarkInstalled, BuildEnvironment, CreateOrGetEnvironment,
                  MarkEnvironmentReady, AttachEnvironment, HealthCheck, MarkActive, StepRaises, MarkFailed
    <3>3. CASE UNCHANGED pkg
      BY <3>2, <3>3
    <3>4. CASE BeginInstall(i) \/ MarkInstalled(i) \/ AttachEnvironment(i) \/ MarkActive(i) \/ MarkFailed(i)
      <4> DEFINE w == install[i].version
      <4>1. w \in Versions /\ install[i].content \in Contents /\ pkg \in [Versions -> PackageRow]
        BY <1>1, <3>4, InstallerFacts DEF StepFits, BeginInstall, MarkInstalled, AttachEnvironment, MarkActive, MarkFailed
      <4>2. pkg[w] \in PackageRow /\ (pkg[w].content # 0 => pkg[w].status # "none")
        BY <3>1, <4>1 DEF RowFits
      <4>3. ASSUME pkg[w].content # 0 PROVE pkg'[w].content = pkg[w].content
        <5>1. CASE BeginInstall(i)
          <6>1. pkg' = pkg \/ (SameIdentity(w, install[i].content) /\ pkg'[w] = [pkg[w] EXCEPT !.status = "installing", !.content = install[i].content])
            BY <4>1, <4>2, <4>3, <5>1 DEF BeginInstall
          <6> QED
            BY <4>2, <6>1 DEF SameIdentity, PackageRow
        <5>2. CASE MarkInstalled(i)
          <6>1. pkg' = pkg \/ pkg'[w] = [pkg[w] EXCEPT !.status = "installed", !.stored = TRUE]
            BY <4>1, <5>2 DEF MarkInstalled
          <6> QED
            BY <4>2, <6>1 DEF PackageRow
        <5>3. CASE AttachEnvironment(i)
          <6>1. pkg' = pkg \/ pkg'[w] = [pkg[w] EXCEPT !.env = TRUE]
            BY <4>1, <5>3 DEF AttachEnvironment
          <6> QED
            BY <4>2, <6>1 DEF PackageRow
        <5>4. CASE MarkActive(i)
          <6>1. pkg' = pkg \/ pkg'[w] = [pkg[w] EXCEPT !.status = "active"]
            BY <4>1, <5>4 DEF MarkActive, SetStatus
          <6> QED
            BY <4>2, <6>1 DEF PackageRow
        <5>5. CASE MarkFailed(i)
          <6>1. PICK status : pkg'[w] = [pkg[w] EXCEPT !.status = status]
            BY <4>1, <5>5 DEF MarkFailed
          <6> QED
            BY <4>2, <6>1 DEF PackageRow
        <5> QED
          BY <3>4, <5>1, <5>2, <5>3, <5>4, <5>5
      <4>4. \A v \in Versions : v # w => pkg'[v] = pkg[v]
        BY <3>4, <4>1 DEF BeginInstall, MarkInstalled, AttachEnvironment, MarkActive, SetStatus, MarkFailed
      <4> QED
        BY <3>2, <4>3, <4>4
    <3> QED
      BY <2>2, <3>3, <3>4 DEF Installing, Stage, PublishPayload, BuildEnvironment, CreateOrGetEnvironment, MarkEnvironmentReady, HealthCheck, StepRaises
  <2>3. ASSUME NEW d \in Removers, Removing(d) PROVE Pinned
    <3>1. UNCHANGED binding
      BY <2>3 DEF Removing, people, PlanRemoval, MarkPendingRemoval, FinalizeRemoval, ReconcilePendingRemovals, MarkRemoved, RemovePayload, RemoveEnvironment
    <3>2. ASSUME NEW v \in Versions PROVE pkg'[v].content = pkg[v].content
      <4>1. pkg[v] \in PackageRow /\ pkg \in [Versions -> PackageRow]
        BY <1>1 DEF PackageInv, RegistryInv, RegistryTypes
      <4>2. pkg'[v] = pkg[v] \/ (\E status \in InstallStatus : pkg'[v] = [pkg[v] EXCEPT !.status = status])
        BY <2>3, <4>1 DEF Removing, PlanRemoval, MarkPendingRemoval, FinalizeRemoval, ReconcilePendingRemovals, MarkRemoved, RemovePayload, RemoveEnvironment, InstallStatus
      <4> QED
        BY <4>1, <4>2 DEF PackageRow
    <3> QED
      BY <3>1, <3>2
  <2>4. ASSUME NEW u \in Editors, UpdateInstanceConfig(u) \/ RebindInstance(u) PROVE Pinned
    <3> DEFINE v == IF edits[u].target = 0 THEN binding.version ELSE edits[u].target
    <3>1. UNCHANGED pkg
      BY <2>4 DEF UpdateInstanceConfig, RebindInstance, rest
    <3>2. CASE UNCHANGED binding
      BY <3>1, <3>2
    <3>3. CASE edits[u].phase = "checked" /\ CurrentRevision(u) /\ binding.revision < MaxRevision /\ Rewrite(u, v)
      <4>1. binding'.version = v /\ (v \in Immutable => Fixed[binding'.config] = Fixed[binding.config])
        BY <1>1, <3>3, RewriteFacts
      <4> QED
        BY <3>1, <4>1
    <3>4. CASE UpdateInstanceConfig(u)
      BY <3>2, <3>3, <3>4 DEF UpdateInstanceConfig
    <3>5. CASE RebindInstance(u)
      BY <3>2, <3>3, <3>5 DEF RebindInstance
    <3> QED
      BY <2>4, <3>4, <3>5
  <2>5. ASSUME NEW v \in Versions, NEW c \in Configs, CreatePackageInstance(v, c) PROVE Pinned
    BY <2>5 DEF CreatePackageInstance, rest
  <2>6. (\E u \in Editors : Configuring(u)) => UNCHANGED <<pkg, binding>> \/ \E u \in Editors : UpdateInstanceConfig(u) \/ RebindInstance(u)
    BY DEF Configuring, OpenEditor, ReadSchema, ValidateConfig, rest
  <2>7. (SubmitPackageRun \/ \E r \in DOMAIN packageRuns : LaunchPackageRun(r) \/ EndPackageRun(r)) => UNCHANGED <<pkg, binding>>
    BY DEF SubmitPackageRun, LaunchPackageRun, EndPackageRun, rest
  <2>8. (CrashApi \/ \E c \in Contents, revoke \in BOOLEAN : DecideTrust(c, revoke)) => UNCHANGED <<pkg, binding>>
    BY DEF CrashApi, DecideTrust
  <2> HIDE DEF Pinned
  <2> QED
    BY <1>1, <2>1, <2>2, <2>3, <2>4, <2>5, <2>6, <2>7, <2>8 DEF PackageNext
<1>2. ASSUME PackageInv, [PackageNext]_packageVars PROVE [Pinned]_packageVars
  BY <1>1, <1>2
<1> QED
  BY <1>2, PackageInvariant, PTL DEF PackageSpec, PackagePinned

-----------------------------------------------------------------------------
(* PackageHost.  Where the adapter stands says what is left of the process *)
(* and how many of the requests it has seen are answered; of the host      *)
(* nothing is assumed.                                                     *)

AdapterPhase == {"idle", "spawned", "unspawned", "refused", "greeting", "starting", "writing", "listening", "serving", "awaiting_exit",
                 "cancelling", "grace", "sigterm", "terminating", "cleanup", "reaping", "done"}
AdapterOutcome == {"none", "error", "raised", "cancelled", "success"}
AdapterRow == [phase : AdapterPhase, then : {"starting", "listening"}, outcome : AdapterOutcome, left : {"nothing", "launched", "killed"}]
ProcRow == [state : {"none", "alive", "exited"}, code : Nat, contained : BOOLEAN]
SessionRow == [seen : Seq(RequestIds), models : Nat, tools : Nat, answered : Nat, used : Nat]

QuietPhase == {"idle", "spawned", "greeting", "starting", "writing", "listening"}

ProcFits(a, p, kept) ==
  /\ a \in AdapterRow /\ p \in ProcRow
  /\ a.phase \in {"idle", "unspawned"} => p.state = "none" /\ ~p.contained
  /\ a.phase \in {"refused", "reaping"} => p.state # "alive"
  /\ a.phase = "done" => (p.state = "alive" => a.left = "launched") /\ (p.contained \/ kept => a.left # "nothing")
  /\ a.outcome = "success" => a.phase \in {"cleanup", "done"} /\ p.state = "exited" /\ p.code = 0 /\ (a.phase = "done" => ~kept)
AllDistinct(s) == \A j, k \in DOMAIN s : s[j] = s[k] => j = k
HostSessionFits(a, x) ==
  /\ x \in SessionRow /\ x.models <= MaxHostModels /\ x.tools <= MaxHostTools
  /\ AllDistinct(x.seen)
  /\ Len(x.seen) = x.answered \/ Len(x.seen) = x.answered + 1
  /\ a.phase \in QuietPhase => Len(x.seen) = x.answered
  /\ a.phase = "serving" => Len(x.seen) = x.answered + 1
  /\ a.outcome = "success" => x.used <= OutputBudget
HostInv == ProcFits(adapter, proc, scratch) /\ HostSessionFits(adapter, session)

LEMMA HostInitial == HostInit => HostInv
<1> SUFFICES ASSUME HostInit PROVE HostInv
  OBVIOUS
<1>1. ProcFits(adapter, proc, scratch)
  BY DEF HostInit, ProcFits, AdapterRow, AdapterPhase, AdapterOutcome, ProcRow, NoProc
<1>2. session \in SessionRow /\ session.seen = <<>> /\ session.answered = 0 /\ session.models = 0 /\ session.tools = 0 /\ session.used = 0
  BY DEF HostInit, NewHostSession, SessionRow
<1>3. adapter.phase = "idle" /\ adapter.outcome = "none" /\ Len(session.seen) = 0 /\ DOMAIN session.seen = {}
  BY <1>2 DEF HostInit
<1>4. HostSessionFits(adapter, session)
  BY <1>2, <1>3, HostAssumption DEF HostSessionFits, AllDistinct
<1> QED
  BY <1>1, <1>4 DEF HostInv

LEMMA HostFacts ==
  ASSUME HostInv
  PROVE  adapter \in AdapterRow /\ proc \in ProcRow /\ session \in SessionRow
BY DEF HostInv, ProcFits, HostSessionFits

LEMMA EndsMoves ==
  ASSUME adapter \in AdapterRow, NEW phase \in AdapterPhase, NEW outcome \in AdapterOutcome, HostEndsAs(phase, outcome)
  PROVE  adapter' \in AdapterRow /\ adapter'.phase = phase /\ adapter'.outcome = outcome
BY DEF HostEndsAs, AdapterRow
LEMMA UnwindMoves ==
  ASSUME adapter \in AdapterRow, NEW outcome \in {"error", "raised", "cancelled"}, UnwindHost(outcome)
  PROVE  adapter' \in AdapterRow /\ adapter'.phase \in {"cancelling", "cleanup"} /\ adapter'.outcome = outcome
BY EndsMoves DEF UnwindHost, AdapterPhase, AdapterOutcome
LEMMA GoMoves ==
  ASSUME adapter \in AdapterRow, NEW phase \in AdapterPhase, HostGo(phase)
  PROVE  adapter' \in AdapterRow /\ adapter'.phase = phase /\ adapter'.outcome = adapter.outcome
BY DEF HostGo, AdapterRow
LEMMA WritingMoves ==
  ASSUME adapter \in AdapterRow, NEW next \in {"starting", "listening"}, adapter' = [adapter EXCEPT !.phase = "writing", !.then = next]
  PROVE  adapter' \in AdapterRow /\ adapter'.phase = "writing" /\ adapter'.outcome = adapter.outcome
BY DEF AdapterRow, AdapterPhase

LEMMA KilledRow ==
  ASSUME proc \in ProcRow
  PROVE  Killed \in ProcRow /\ Killed.state # "alive" /\ Killed.contained = proc.contained /\ (~Alive => Killed = proc)
         /\ (proc.state = "none" => Killed.state = "none")
BY DEF ProcRow, Killed, Exited, Alive
LEMMA HeldRow ==
  ASSUME NEW p \in ProcRow, NEW held \in BOOLEAN
  PROVE  [p EXCEPT !.contained = held] \in ProcRow /\ [p EXCEPT !.contained = held].state = p.state
         /\ [p EXCEPT !.contained = held].code = p.code /\ [p EXCEPT !.contained = held].contained = held
BY DEF ProcRow

\* The phase moves and the session stays, or is one more frame.
LEMMA ChargedFits ==
  ASSUME HostInv
  PROVE  Charged \in SessionRow /\ Charged.seen = session.seen /\ Charged.answered = session.answered
         /\ Charged.models = session.models /\ Charged.tools = session.tools
BY HostFacts DEF Charged, SessionRow
LEMMA SessionWaits ==
  ASSUME HostInv, NEW a, session' = session \/ session' = Charged,
         a.phase \in QuietPhase => adapter.phase \in QuietPhase, a.phase = "serving" => adapter.phase = "serving",
         a.outcome = "success" => session' = session /\ session.used <= OutputBudget
  PROVE  HostSessionFits(a, session')
<1>1. HostSessionFits(adapter, session)
  BY DEF HostInv
<1>2. CASE session' = session
  BY <1>1, <1>2 DEF HostSessionFits
<1>3. CASE session' = Charged
  <2>1. a.outcome = "success" => session'.used <= OutputBudget
    OBVIOUS
  <2> QED
    BY <1>1, <1>3, <2>1, ChargedFits DEF HostSessionFits
<1> QED
  BY <1>2, <1>3

LEMMA HostUnwindKeeps ==
  ASSUME HostInv, NEW outcome \in {"error", "raised", "cancelled"}, UnwindHost(outcome), UNCHANGED <<proc, scratch>>,
         session' = session \/ session' = Charged
  PROVE  HostInv'
<1>1. adapter' \in AdapterRow /\ adapter'.phase \in {"cancelling", "cleanup"} /\ adapter'.outcome # "success"
  BY HostFacts, UnwindMoves
<1>2. ProcFits(adapter', proc', scratch')
  BY <1>1, HostFacts DEF ProcFits
<1>3. HostSessionFits(adapter', session')
  BY <1>1, SessionWaits DEF QuietPhase
<1> QED
  BY <1>2, <1>3 DEF HostInv

LEMMA ReadingKeeps == ASSUME HostInv, Greeting \/ Starting \/ ReusedRequest \/ RunResult PROVE HostInv'
<1>1. UNCHANGED <<proc, scratch>> /\ session' = Charged /\ adapter \in AdapterRow /\ adapter.phase \in {"greeting", "starting", "listening"}
  BY HostFacts DEF Greeting, Starting, ReusedRequest, RunResult, Refused, HostAt
<1>2. CASE UnwindHost("error")
  BY <1>1, <1>2, HostUnwindKeeps
<1>3. CASE HostGo("awaiting_exit") \/ \E next \in {"starting", "listening"} : adapter' = [adapter EXCEPT !.phase = "writing", !.then = next]
  <2>1. adapter' \in AdapterRow /\ adapter'.phase \in {"awaiting_exit", "writing"} /\ adapter'.outcome = adapter.outcome
    BY <1>1, <1>3, GoMoves, WritingMoves DEF AdapterPhase
  <2>2. adapter.outcome # "success"
    BY <1>1 DEF HostInv, ProcFits
  <2>3. ProcFits(adapter', proc', scratch')
    BY <1>1, <2>1, <2>2, HostFacts DEF ProcFits
  <2>4. HostSessionFits(adapter', session')
    BY <1>1, <2>1, <2>2, SessionWaits DEF QuietPhase
  <2> QED
    BY <2>3, <2>4 DEF HostInv
<1> QED
  BY <1>2, <1>3 DEF Greeting, Starting, ReusedRequest, RunResult, Refused

\* A request with a new id is the only one without an answer.
LEMMA AskedFits ==
  ASSUME HostInv, adapter.phase = "listening", NEW id \in RequestIds, FreshRequest(id), NEW x \in SessionRow,
         x.seen = Append(session.seen, id), x.answered = session.answered, x.models <= MaxHostModels, x.tools <= MaxHostTools,
         NEW a, a.phase \notin QuietPhase, a.outcome # "success"
  PROVE  HostSessionFits(a, x)
<1>1. HostSessionFits(adapter, session) /\ session \in SessionRow /\ Len(session.seen) = session.answered
  BY HostFacts DEF HostInv, HostSessionFits, QuietPhase
<1>2. PICK s \in Seq(RequestIds) : s = session.seen
  BY <1>1 DEF SessionRow
<1>3. Len(x.seen) = x.answered + 1
  BY <1>1, <1>2
<1>4. AllDistinct(x.seen)
  <2>1. AllDistinct(s) /\ (\A k \in DOMAIN s : s[k] # id) /\ x.seen = Append(s, id)
    BY <1>1, <1>2 DEF HostSessionFits, FreshRequest
  <2>2. DOMAIN x.seen = 1..(Len(s) + 1) /\ DOMAIN s = 1..Len(s) /\ x.seen[Len(s) + 1] = id /\ (\A k \in 1..Len(s) : x.seen[k] = s[k]) /\ Len(s) \in Nat
    BY <2>1
  <2> QED
    BY <2>1, <2>2 DEF AllDistinct
<1> QED
  BY <1>3, <1>4 DEF HostSessionFits

LEMMA NotedRow ==
  ASSUME HostInv, NEW id \in RequestIds
  PROVE  Noting(id) \in SessionRow /\ Noting(id).seen = Append(session.seen, id) /\ Noting(id).answered = session.answered
         /\ Noting(id).models = session.models /\ Noting(id).tools = session.tools
<1>1. Charged \in SessionRow /\ Append(session.seen, id) \in Seq(RequestIds) /\ Charged.seen = session.seen
  BY HostFacts, ChargedFits DEF SessionRow
<1>2. PICK c \in SessionRow, more \in Seq(RequestIds) : c = Charged /\ more = Append(session.seen, id)
  BY <1>1
<1>3. Noting(id) = [c EXCEPT !.seen = more]
  BY <1>1, <1>2 DEF Noting
<1>4. [c EXCEPT !.seen = more] \in SessionRow /\ [c EXCEPT !.seen = more].seen = more /\ [c EXCEPT !.seen = more].answered = c.answered
      /\ [c EXCEPT !.seen = more].models = c.models /\ [c EXCEPT !.seen = more].tools = c.tools
  BY DEF SessionRow
<1> QED
  BY <1>2, <1>3, <1>4, ChargedFits
LEMMA CountedRow ==
  ASSUME NEW x \in SessionRow
  PROVE  /\ [x EXCEPT !.models = @ + 1] \in SessionRow /\ [x EXCEPT !.models = @ + 1].seen = x.seen /\ [x EXCEPT !.models = @ + 1].answered = x.answered
         /\ [x EXCEPT !.models = @ + 1].models = x.models + 1 /\ [x EXCEPT !.models = @ + 1].tools = x.tools
         /\ [x EXCEPT !.tools = @ + 1] \in SessionRow /\ [x EXCEPT !.tools = @ + 1].seen = x.seen /\ [x EXCEPT !.tools = @ + 1].answered = x.answered
         /\ [x EXCEPT !.tools = @ + 1].models = x.models /\ [x EXCEPT !.tools = @ + 1].tools = x.tools + 1
BY DEF SessionRow

LEMMA HostRequestKeeps == ASSUME HostInv, ModelRequest \/ ToolRequest PROVE HostInv'
<1>1. UNCHANGED <<proc, scratch>> /\ adapter \in AdapterRow /\ proc \in ProcRow /\ session \in SessionRow /\ adapter.phase = "listening"
  BY HostFacts DEF ModelRequest, ToolRequest, HostAt
<1>2. session.models \in Nat /\ session.tools \in Nat /\ session.models <= MaxHostModels /\ session.tools <= MaxHostTools /\ adapter.outcome # "success"
  BY <1>1 DEF HostInv, HostSessionFits, ProcFits, SessionRow
<1>3. PICK id \in RequestIds :
         /\ FreshRequest(id)
         /\ \/ Within(session.models, MaxHostModels) /\ session' = [Noting(id) EXCEPT !.models = @ + 1] /\ HostGo("serving")
            \/ Within(session.tools, MaxHostTools) /\ session' = [Noting(id) EXCEPT !.tools = @ + 1] /\ HostGo("serving")
            \/ session' = Noting(id) /\ UnwindHost("raised")
            \/ session' = Noting(id) /\ HostGo("serving")
  BY DEF ModelRequest, ToolRequest
<1>4. PICK x \in SessionRow : x = Noting(id) /\ x.seen = Append(session.seen, id) /\ x.answered = session.answered
                              /\ x.models = session.models /\ x.tools = session.tools
  BY NotedRow
<1>5. adapter' \in AdapterRow /\ adapter'.phase \in {"serving", "cancelling", "cleanup"} /\ adapter'.outcome # "success"
  BY <1>1, <1>2, <1>3, GoMoves, UnwindMoves DEF AdapterPhase
<1>6. /\ session' \in SessionRow /\ session'.seen = Append(session.seen, id) /\ session'.answered = session.answered
      /\ session'.models <= MaxHostModels /\ session'.tools <= MaxHostTools
  <2>1. CASE Within(session.models, MaxHostModels) /\ session' = [x EXCEPT !.models = @ + 1]
    <3>1. session.models + 1 <= MaxHostModels
      BY <1>2, <2>1, HostAssumption DEF Within
    <3>2. session' \in SessionRow /\ session'.seen = x.seen /\ session'.answered = x.answered /\ session'.models = x.models + 1 /\ session'.tools = x.tools
      BY <2>1, CountedRow
    <3> QED
      BY <1>2, <1>4, <3>1, <3>2
  <2>2. CASE Within(session.tools, MaxHostTools) /\ session' = [x EXCEPT !.tools = @ + 1]
    <3>1. session.tools + 1 <= MaxHostTools
      BY <1>2, <2>2, HostAssumption DEF Within
    <3>2. session' \in SessionRow /\ session'.seen = x.seen /\ session'.answered = x.answered /\ session'.models = x.models /\ session'.tools = x.tools + 1
      BY <2>2, CountedRow
    <3> QED
      BY <1>2, <1>4, <3>1, <3>2
  <2>3. CASE session' = x
    BY <1>2, <1>4, <2>3
  <2> QED
    BY <1>3, <1>4, <2>1, <2>2, <2>3
<1>7. PICK a \in AdapterRow, y \in SessionRow : a = adapter' /\ y = session'
  BY <1>5, <1>6
<1>8. HostSessionFits(a, y)
  BY <1>1, <1>3, <1>5, <1>6, <1>7, AskedFits DEF QuietPhase
<1>9. ProcFits(adapter', proc', scratch')
  BY <1>1, <1>5 DEF ProcFits
<1> QED
  BY <1>7, <1>8, <1>9 DEF HostInv

LEMMA ServeKeeps == ASSUME HostInv, Serve PROVE HostInv'
<1>1. UNCHANGED <<proc, scratch>> /\ adapter \in AdapterRow /\ proc \in ProcRow /\ session \in SessionRow /\ adapter.phase = "serving"
      /\ session' = [session EXCEPT !.answered = @ + 1] /\ adapter' = [adapter EXCEPT !.phase = "writing", !.then = "listening"]
  BY HostFacts DEF Serve, HostAt
<1>2. adapter' \in AdapterRow /\ adapter'.phase = "writing" /\ adapter'.outcome = adapter.outcome /\ adapter.outcome # "success"
  BY <1>1, WritingMoves DEF HostInv, ProcFits
<1>3. session' \in SessionRow /\ session'.answered = session.answered + 1 /\ session'.seen = session.seen /\ session'.models = session.models
      /\ session'.tools = session.tools
  BY <1>1 DEF SessionRow
<1>4. HostSessionFits(adapter, session)
  BY DEF HostInv
<1>5. HostSessionFits(adapter', session')
  BY <1>1, <1>2, <1>3, <1>4 DEF HostSessionFits, QuietPhase
<1>6. ProcFits(adapter', proc', scratch')
  BY <1>1, <1>2 DEF ProcFits
<1> QED
  BY <1>5, <1>6 DEF HostInv

\* What moves between two phases, and what ends the session.
LEMMA MovingKeeps ==
  ASSUME HostInv, WriteFrame \/ AskToStop \/ Grace \/ SignalFails \/ StartTimesOut \/ ServeRaises \/ HostExited \/ SessionBreaks \/ CancelAdapter
  PROVE  HostInv'
<1>1. UNCHANGED <<proc, scratch, session>> /\ adapter \in AdapterRow /\ proc \in ProcRow
  BY HostFacts DEF WriteFrame, AskToStop, Grace, SignalFails, StartTimesOut, ServeRaises, HostExited, SessionBreaks, CancelAdapter, pipes
<1>2. CASE \E outcome \in {"error", "raised", "cancelled"} : UnwindHost(outcome)
  BY <1>1, <1>2, HostUnwindKeeps
<1>3. CASE WriteFrame \/ AskToStop \/ Grace
  <2>1. PICK phase \in {"starting", "listening", "grace", "sigterm", "terminating"} :
           HostGo(phase) /\ (phase \in {"starting", "listening"} => adapter.phase = "writing") /\ adapter.phase \in {"writing", "cancelling", "grace"}
    BY <1>1, <1>3 DEF WriteFrame, AskToStop, Grace, HostAt, AdapterRow
  <2>2. adapter' \in AdapterRow /\ adapter'.phase = phase /\ adapter'.outcome = adapter.outcome /\ adapter.outcome # "success"
    BY <1>1, <2>1, GoMoves DEF AdapterPhase, HostInv, ProcFits
  <2>3. ProcFits(adapter', proc', scratch')
    BY <1>1, <2>2 DEF ProcFits
  <2>4. HostSessionFits(adapter', session')
    BY <1>1, <2>1, <2>2, SessionWaits DEF QuietPhase
  <2> QED
    BY <2>3, <2>4 DEF HostInv
<1>4. CASE SignalFails \/ (HostExited /\ HostEndsAs("cleanup", "success") /\ CleanExit /\ WithinOutput)
  <2>1. adapter' \in AdapterRow /\ adapter'.phase = "cleanup"
        /\ (adapter'.outcome = "success" => CleanExit /\ WithinOutput)
    BY <1>1, <1>4, EndsMoves DEF SignalFails, AdapterPhase, AdapterOutcome
  <2>2. ProcFits(adapter', proc', scratch')
    BY <1>1, <2>1 DEF ProcFits, CleanExit
  <2>3. HostSessionFits(adapter', session')
    BY <1>1, <2>1, SessionWaits DEF QuietPhase, WithinOutput
  <2> QED
    BY <2>2, <2>3 DEF HostInv
<1>5. StartTimesOut \/ ServeRaises \/ SessionBreaks \/ CancelAdapter => \E outcome \in {"error", "raised", "cancelled"} : UnwindHost(outcome)
  BY DEF StartTimesOut, ServeRaises, SessionBreaks, CancelAdapter
<1>6. HostExited => (HostEndsAs("cleanup", "success") /\ CleanExit /\ WithinOutput) \/ \E outcome \in {"error", "raised", "cancelled"} : UnwindHost(outcome)
  BY DEF HostExited
<1> QED
  BY <1>2, <1>3, <1>4, <1>5, <1>6

\* The process is started, contained, killed or released.
LEMMA ProcMoves ==
  ASSUME HostInv, UNCHANGED session, ProcFits(adapter', proc', scratch'),
         adapter'.phase \in QuietPhase => adapter.phase \in QuietPhase, adapter'.phase # "serving",
         adapter'.outcome = "success" => adapter.outcome = "success"
  PROVE  HostInv'
<1>1. PICK a : a = adapter'
  OBVIOUS
<1>2. a.outcome = "success" => session.used <= OutputBudget
  BY <1>1 DEF HostInv, HostSessionFits
<1>3. HostSessionFits(a, session')
  BY <1>1, <1>2, SessionWaits
<1> QED
  BY <1>1, <1>3 DEF HostInv

LEMMA LaunchKeeps == ASSUME HostInv, SpawnHost \/ SpawnFailed \/ EstablishContainment PROVE HostInv'
<1>1. adapter \in AdapterRow /\ proc \in ProcRow /\ ProcFits(adapter, proc, scratch) /\ UNCHANGED session
  BY HostFacts DEF HostInv, SpawnHost, SpawnFailed, EstablishContainment, pipes
<1>2. adapter.outcome # "success"
  BY <1>1 DEF SpawnHost, SpawnFailed, EstablishContainment, HostAt, ProcFits
<1>3. CASE SpawnHost
  <2>1. adapter.phase = "idle" /\ adapter' \in AdapterRow /\ adapter'.phase \in {"spawned", "unspawned"} /\ adapter'.outcome # "success"
        /\ (adapter'.phase = "unspawned" => proc' = proc)
    BY <1>1, <1>2, <1>3, GoMoves, EndsMoves DEF SpawnHost, HostAt, AdapterPhase, AdapterOutcome
  <2>2. proc' \in ProcRow
    <3>1. [NoProc EXCEPT !.state = "alive"] \in ProcRow
      BY DEF NoProc, ProcRow
    <3>2. proc' = proc \/ proc' = [NoProc EXCEPT !.state = "alive"]
      BY <1>3 DEF SpawnHost
    <3> QED
      BY <1>1, <3>1, <3>2
  <2>3. ProcFits(adapter', proc', scratch')
    BY <1>1, <2>1, <2>2 DEF ProcFits
  <2> QED
    BY <1>1, <2>1, <2>3, ProcMoves DEF QuietPhase
<1>4. CASE SpawnFailed
  <2>1. adapter.phase = "unspawned" /\ adapter' \in AdapterRow /\ adapter'.phase = "done" /\ adapter'.outcome # "success" /\ proc' = proc /\ ~scratch'
    BY <1>1, <1>2, <1>4, GoMoves DEF SpawnFailed, HostAt, AdapterPhase
  <2>2. ProcFits(adapter', proc', scratch')
    BY <1>1, <2>1 DEF ProcFits
  <2> QED
    BY <1>1, <2>1, <2>2, ProcMoves DEF QuietPhase
<1>5. CASE EstablishContainment
  <2>1. CASE proc' = [proc EXCEPT !.contained = TRUE] /\ HostGo("greeting")
    <3>1. adapter' \in AdapterRow /\ adapter'.phase = "greeting" /\ adapter'.outcome = adapter.outcome /\ adapter.phase = "spawned" /\ proc' \in ProcRow
      BY <1>1, <1>5, <2>1, GoMoves, HeldRow DEF AdapterPhase, EstablishContainment, HostAt
    <3>2. ProcFits(adapter', proc', scratch')
      BY <1>2, <3>1 DEF ProcFits
    <3> QED
      BY <1>1, <3>1, <3>2, ProcMoves DEF QuietPhase
  <2>2. CASE (\E held \in BOOLEAN : proc' = [Killed EXCEPT !.contained = held]) /\ HostEndsAs("refused", "error")
    <3>1. adapter' \in AdapterRow /\ adapter'.phase = "refused" /\ adapter'.outcome = "error"
      BY <1>1, <2>2, EndsMoves DEF AdapterPhase, AdapterOutcome
    <3>2. proc' \in ProcRow /\ proc'.state # "alive"
      BY <1>1, <2>2, KilledRow, HeldRow
    <3>3. ProcFits(adapter', proc', scratch')
      BY <3>1, <3>2 DEF ProcFits
    <3> QED
      BY <1>1, <3>1, <3>3, ProcMoves DEF QuietPhase
  <2>3. CASE (\E held \in BOOLEAN : proc' = [proc EXCEPT !.contained = held])
             /\ adapter' = [adapter EXCEPT !.phase = "done", !.outcome = "error", !.left = "launched"]
    <3>1. adapter' \in AdapterRow /\ adapter'.phase = "done" /\ adapter'.outcome = "error" /\ adapter'.left = "launched"
      BY <1>1, <2>3 DEF AdapterRow, AdapterPhase, AdapterOutcome
    <3>2. proc' \in ProcRow
      BY <1>1, <2>3, HeldRow
    <3>3. ProcFits(adapter', proc', scratch')
      BY <3>1, <3>2 DEF ProcFits
    <3> QED
      BY <1>1, <3>1, <3>3, ProcMoves DEF QuietPhase
  <2> QED
    BY <1>5, <2>1, <2>2, <2>3 DEF EstablishContainment
<1> QED
  BY <1>3, <1>4, <1>5

LEMMA HostEndingKeeps == ASSUME HostInv, TermThenKill \/ TerminateContainment \/ Cleanup \/ Reap \/ CancelCleanup PROVE HostInv'
<1>1. adapter \in AdapterRow /\ proc \in ProcRow /\ ProcFits(adapter, proc, scratch) /\ UNCHANGED session
  BY HostFacts DEF HostInv, TermThenKill, TerminateContainment, Cleanup, Reap, CancelCleanup, pipes
<1>2. Killed \in ProcRow /\ Killed.state # "alive" /\ (~Alive => Killed = proc)
  BY <1>1, KilledRow
<1>3. CASE TermThenKill \/ TerminateContainment
  <2>1. adapter' \in AdapterRow /\ adapter'.phase \in {"terminating", "cleanup"} /\ adapter'.outcome = adapter.outcome
        /\ adapter.phase \in {"sigterm", "terminating"}
    BY <1>1, <1>3, GoMoves DEF TermThenKill, TerminateContainment, HostAt, AdapterPhase
  <2>2. proc' \in ProcRow
    BY <1>2, <1>3, HeldRow DEF TermThenKill, TerminateContainment
  <2>3. ProcFits(adapter', proc', scratch')
    BY <1>1, <2>1, <2>2 DEF ProcFits
  <2> QED
    BY <1>1, <2>1, <2>3, ProcMoves DEF QuietPhase
<1>4. CASE Cleanup /\ Alive
  <2>1. adapter' \in AdapterRow /\ adapter'.phase = "reaping" /\ adapter'.outcome = adapter.outcome /\ adapter.outcome # "success"
        /\ proc' = [Killed EXCEPT !.contained = FALSE]
    BY <1>1, <1>4, GoMoves DEF Cleanup, HostAt, AdapterPhase, ProcFits, Alive
  <2>2. proc' \in ProcRow /\ proc'.state # "alive"
    BY <1>2, <2>1, HeldRow
  <2>3. ProcFits(adapter', proc', scratch')
    BY <1>1, <2>1, <2>2 DEF ProcFits
  <2> QED
    BY <1>1, <2>1, <2>3, ProcMoves DEF QuietPhase
<1>5. CASE (Cleanup /\ ~Alive) \/ Reap
  <2>1. adapter' \in AdapterRow /\ adapter'.phase = "done" /\ adapter'.outcome = adapter.outcome /\ ~Alive /\ ~scratch'
        /\ proc' = [proc EXCEPT !.contained = FALSE]
    BY <1>1, <1>5, GoMoves DEF Cleanup, Reap, HostAt, AdapterPhase, ProcFits, Alive
  <2>2. proc' \in ProcRow /\ proc'.state = proc.state /\ proc'.code = proc.code /\ ~proc'.contained
    BY <1>1, <2>1, HeldRow
  <2>3. ProcFits(adapter', proc', scratch')
    BY <1>1, <2>1, <2>2 DEF ProcFits, Alive
  <2> QED
    BY <1>1, <2>1, <2>3, ProcMoves DEF QuietPhase
<1>6. CASE CancelCleanup
  <2>1. UNCHANGED <<proc, scratch>>
    BY <1>6 DEF CancelCleanup
  <2>2. CASE adapter.phase \in {"cancelling", "grace", "sigterm"} /\ HostEndsAs("cleanup", "cancelled")
    <3>1. adapter' \in AdapterRow /\ adapter'.phase = "cleanup" /\ adapter'.outcome = "cancelled"
      BY <1>1, <2>2, EndsMoves DEF AdapterPhase, AdapterOutcome
    <3>2. ProcFits(adapter', proc', scratch')
      BY <1>1, <2>1, <3>1 DEF ProcFits
    <3> QED
      BY <1>1, <3>1, <3>2, ProcMoves DEF QuietPhase
  <2>3. CASE adapter.phase \in {"reaping", "refused"} /\ adapter' = [adapter EXCEPT !.phase = "done", !.outcome = "cancelled", !.left = "killed"]
    <3>1. adapter' \in AdapterRow /\ adapter'.phase = "done" /\ adapter'.outcome = "cancelled" /\ adapter'.left = "killed"
      BY <1>1, <2>3 DEF AdapterRow, AdapterPhase, AdapterOutcome
    <3>2. ProcFits(adapter', proc', scratch')
      BY <1>1, <2>1, <2>3, <3>1 DEF ProcFits
    <3> QED
      BY <1>1, <3>1, <3>2, ProcMoves DEF QuietPhase
  <2> QED
    BY <1>6, <2>2, <2>3 DEF CancelCleanup
<1> QED
  BY <1>3, <1>4, <1>5, <1>6

LEMMA StderrKeeps == ASSUME HostInv, DiscardStderr PROVE HostInv'
<1>1. adapter \in AdapterRow /\ proc \in ProcRow /\ ProcFits(adapter, proc, scratch) /\ UNCHANGED <<adapter, scratch>> /\ session' = Charged
      /\ (proc' = proc \/ proc' = Killed)
  BY HostFacts DEF HostInv, DiscardStderr
<1>2. adapter.phase \notin {"idle", "unspawned", "refused", "reaping", "done", "cleanup"} /\ adapter.outcome # "success"
  BY <1>1 DEF DiscardStderr, InSession, ProcFits
<1>3. proc' \in ProcRow
  BY <1>1, KilledRow
<1>4. ProcFits(adapter', proc', scratch')
  BY <1>1, <1>2, <1>3 DEF ProcFits
<1>5. HostSessionFits(adapter', session')
  BY <1>1, <1>2, SessionWaits
<1> QED
  BY <1>4, <1>5 DEF HostInv

LEMMA HostKeeps == ASSUME HostInv, Host PROVE HostInv'
<1>1. adapter \in AdapterRow /\ proc \in ProcRow /\ ProcFits(adapter, proc, scratch) /\ UNCHANGED <<adapter, scratch, session>>
  BY HostFacts DEF HostInv, Host, HostSays, HostReads, HostEnds, pipes
<1>2. CASE UNCHANGED proc
  BY <1>1, <1>2 DEF HostInv
<1>3. CASE HostEnds
  <2>1. proc' \in ProcRow /\ proc'.state = "exited" /\ proc'.contained = proc.contained /\ Alive
    <3>1. PICK code \in {0, 1} : proc' = [proc EXCEPT !.state = "exited", !.code = code]
      BY <1>3 DEF HostEnds, Exited
    <3>2. Alive
      BY <1>3 DEF HostEnds
    <3>3. PICK p \in ProcRow : p = proc
      BY <1>1
    <3>4. code \in Nat /\ proc' = [p EXCEPT !.state = "exited", !.code = code]
      BY <3>1, <3>3
    <3>5. [p EXCEPT !.state = "exited", !.code = code] \in ProcRow /\ [p EXCEPT !.state = "exited", !.code = code].state = "exited"
          /\ [p EXCEPT !.state = "exited", !.code = code].contained = p.contained
      BY <3>4 DEF ProcRow
    <3> QED
      BY <3>2, <3>3, <3>4, <3>5
  <2>2. ProcFits(adapter', proc', scratch')
    BY <1>1, <2>1 DEF ProcFits, Alive
  <2> QED
    BY <1>1, <2>2 DEF HostInv
<1> QED
  BY <1>2, <1>3 DEF Host, HostSays, HostReads

LEMMA HostStep == ASSUME HostInv, [HostNext]_hostVars PROVE HostInv'
<1>1. CASE UNCHANGED hostVars
  BY <1>1 DEF HostInv, hostVars
<1>2. CASE Adapter
  BY <1>2, ReadingKeeps, HostRequestKeeps, ServeKeeps, MovingKeeps, LaunchKeeps, HostEndingKeeps DEF Adapter
<1> QED
  BY <1>1, <1>2, StderrKeeps, MovingKeeps, HostEndingKeeps, HostKeeps DEF HostNext

\* The inductive invariant of one package Run: how far the adapter is says what
\* is left of the process and which requests are answered
\* (package_execution.py:177-449).
THEOREM HostInvariant == HostSpec => []HostInv
<1>1. HostInit => HostInv
  BY HostInitial
<1>2. HostInv /\ [HostNext]_hostVars => HostInv'
  BY HostStep
<1> QED
  BY <1>1, <1>2, PTL DEF HostSpec

\* Whatever the package writes and whenever the adapter is cancelled, no process
\* runs behind a finished Attempt whose launch did not raise, what else is left has
\* one cause, and the limits hold (package_execution.py:290-304, 358-362, 411-449).
THEOREM HostSoundHolds == HostSpec => []HostSound
<1>1. ASSUME HostInv PROVE HostSound
  <2>1. HostReaped
    BY <1>1 DEF HostInv, ProcFits, HostSessionFits, HostReaped, HostAt, Alive
  <2>2. session \in SessionRow /\ HostSessionFits(adapter, session)
    BY <1>1, HostFacts DEF HostInv
  <2>3. PICK s \in Seq(RequestIds), n \in Nat : s = session.seen /\ n = session.answered
    BY <2>2 DEF SessionRow
  <2>4. (Len(s) = n \/ Len(s) = n + 1) /\ AllDistinct(s)
    BY <2>2, <2>3 DEF HostSessionFits
  <2>5. Len(s) - n \in {0, 1} /\ \A j, k \in 1..n : s[j] = s[k] => j = k
    BY <2>4 DEF AllDistinct
  <2>6. HostBounded
    BY <2>2, <2>3, <2>5 DEF HostBounded, HostSessionFits
  <2> QED
    BY <2>1, <2>6 DEF HostSound
<1> QED
  BY <1>1, HostInvariant, PTL

-----------------------------------------------------------------------------
(* Acquisition: one release on its way from the marketplace to the         *)
(* installer.                                                              *)

DistState == {"available", "yanked", "revoked"}
LocalState == {"none", "installing", "installed", "active", "failed"}
TicketState == {"absent", "created", "downloaded", "approved", "installed", "failed"}
OpenState == {"created", "downloaded", "approved"}
HandedPhase == {"installing", "building", "failing", "closing"}
RequestPhase == {"idle", "admitting", "cancelling", "expiring", "downloading", "verifying", "storing", "settling", "asking", "approving", "unlinking"} \union HandedPhase
FileState == {"absent", "fresh", "old"}
TicketRow == [state : TicketState, dist : DistState, revision : Nat, path : Files \union {NoFile}, aged : BOOLEAN]
RequestRow == [phase : RequestPhase, ticket : Tickets \union {"none"}, seen : TicketState, dist : DistState, revision : Nat, file : Files \union {NoFile}]

\* What the installer has: an approved ticket, or one that expired or was settled meanwhile.
HeldBy(entry) == entry.state \in {"approved", "installed"} \/ (entry.state = "failed" /\ entry.aged)
\* A version stands behind the ticket, or another ticket's installation took it down.
Backed(t, tickets, local) == local \in {"installed", "active"} \/ (local # "none" /\ \E u \in Tickets \ {t} : tickets[u].state # "absent")
RequestFits(row, tickets, local) ==
  /\ row \in RequestRow
  /\ row.phase \notin {"idle", "admitting"} => row.ticket \in Tickets /\ tickets[row.ticket].state # "absent"
  /\ row.phase = "expiring" => tickets[row.ticket].aged
  /\ row.phase = "settling" => local = "active"
  /\ row.phase \in HandedPhase => HeldBy(tickets[row.ticket])
  /\ row.phase = "installing" => tickets[row.ticket].state # "installed" \/ local = "active"
  /\ row.phase = "building" => tickets[row.ticket].state # "installed" /\ local \in {"installing", "installed"}
  /\ row.phase = "closing" => Backed(row.ticket, tickets, local)
OneOfEach(requests) ==
  /\ \A r, q \in Requests : requests[r].phase \in HandedPhase /\ requests[q].phase \in HandedPhase /\ requests[r].ticket = requests[q].ticket => r = q
  /\ \A r, q \in Requests : requests[r].phase = "building" /\ requests[q].phase = "building" => r = q
OpenIn(tickets) == {t \in Tickets : tickets[t].state \in OpenState}
Bounded(tickets) == IsFiniteSet(OpenIn(tickets)) /\ Cardinality(OpenIn(tickets)) <= MaxOpenTickets
TicketsFit(tickets, local) == tickets \in [Tickets -> TicketRow] /\ (\A t \in Tickets : tickets[t].state = "installed" => Backed(t, tickets, local)) /\ Bounded(tickets)

AcquisitionInv ==
  /\ offer \in [dist : DistState, revision : Nat] /\ localVersion \in LocalState /\ spool \in [Files -> FileState]
  /\ TicketsFit(ticket, localVersion)
  /\ DOMAIN request = Requests /\ (\A r \in Requests : RequestFits(request[r], ticket, localVersion)) /\ OneOfEach(request)

LEMMA AcquisitionInitial == AcquisitionInit => AcquisitionInv
<1> SUFFICES ASSUME AcquisitionInit PROVE AcquisitionInv
  OBVIOUS
<1>1. offer \in [dist : DistState, revision : Nat] /\ localVersion = "none" /\ spool \in [Files -> FileState]
  BY DEF AcquisitionInit, DistState, FileState
<1>2. NoTicket \in TicketRow /\ NoTicket.state = "absent" /\ NoRequest \in RequestRow /\ NoRequest.phase = "idle"
  BY DEF NoTicket, NoRequest, TicketRow, RequestRow, TicketState, DistState, RequestPhase
<1>3. ticket \in [Tickets -> TicketRow] /\ (\A t \in Tickets : ticket[t].state = "absent") /\ DOMAIN request = Requests /\ \A r \in Requests : request[r] = NoRequest
  BY <1>2 DEF AcquisitionInit
<1>4. Bounded(ticket)
  <2>1. OpenIn(ticket) = {}
    BY <1>3 DEF OpenIn, OpenState
  <2> QED
    BY <2>1, FS_EmptySet, AcquisitionAssumption DEF Bounded
<1>5. RequestFits(NoRequest, ticket, localVersion) /\ OneOfEach(request)
  BY <1>2, <1>3 DEF RequestFits, HandedPhase, OneOfEach
<1> QED
  BY <1>1, <1>3, <1>4, <1>5 DEF AcquisitionInv, TicketsFit, LocalState

\* The open tickets are bounded when one ticket changes, or is inserted where there is room.
LEMMA StaysBounded ==
  ASSUME NEW old \in [Tickets -> TicketRow], Bounded(old), NEW new \in [Tickets -> TicketRow],
         NEW t, \A u \in Tickets : u # t /\ new[u].state \in OpenState => old[u].state \in OpenState,
         t \in Tickets /\ new[t].state \in OpenState => old[t].state \in OpenState \/ Cardinality(OpenIn(old)) < MaxOpenTickets
  PROVE  Bounded(new)
<1>1. IsFiniteSet(OpenIn(old)) /\ Cardinality(OpenIn(old)) <= MaxOpenTickets
  BY DEF Bounded
<1>2. CASE OpenIn(new) \subseteq OpenIn(old)
  <2>1. IsFiniteSet(OpenIn(new)) /\ Cardinality(OpenIn(new)) <= Cardinality(OpenIn(old))
    BY <1>1, <1>2, FS_Subset
  <2>2. Cardinality(OpenIn(new)) \in Nat /\ Cardinality(OpenIn(old)) \in Nat
    BY <1>1, <2>1, FS_CardinalityType
  <2> QED
    BY <1>1, <2>1, <2>2, AcquisitionAssumption DEF Bounded
<1>3. CASE ~(OpenIn(new) \subseteq OpenIn(old))
  <2>1. OpenIn(new) \subseteq OpenIn(old) \union {t} /\ t \notin OpenIn(old) /\ Cardinality(OpenIn(old)) < MaxOpenTickets
    BY <1>3 DEF OpenIn
  <2>2. IsFiniteSet(OpenIn(old) \union {t}) /\ Cardinality(OpenIn(old) \union {t}) = Cardinality(OpenIn(old)) + 1
    BY <1>1, <2>1, FS_AddElement
  <2>3. IsFiniteSet(OpenIn(new)) /\ Cardinality(OpenIn(new)) <= Cardinality(OpenIn(old) \union {t})
    BY <2>1, <2>2, FS_Subset
  <2>4. Cardinality(OpenIn(new)) \in Nat /\ Cardinality(OpenIn(old)) \in Nat
    BY <1>1, <2>3, FS_CardinalityType
  <2> QED
    BY <2>1, <2>2, <2>3, <2>4, AcquisitionAssumption DEF Bounded
<1> QED
  BY <1>2, <1>3

\* One request moves; the tickets and the version rest.
RequestStep(r, row) ==
  /\ request' = [request EXCEPT ![r] = row] /\ UNCHANGED <<offer, localVersion, ticket>> /\ spool' \in [Files -> FileState]
  /\ RequestFits(row, ticket, localVersion)
  /\ row.phase \in HandedPhase => request[r].phase \in HandedPhase /\ row.ticket = request[r].ticket
  /\ row.phase = "building" => request[r].phase = "building"
LEMMA RequestMoves == ASSUME AcquisitionInv, NEW r \in Requests, NEW row, RequestStep(r, row) PROVE AcquisitionInv'
<1>1. DOMAIN request = Requests /\ (\A q \in Requests : RequestFits(request[q], ticket, localVersion)) /\ OneOfEach(request)
  BY DEF AcquisitionInv
<1>2. DOMAIN request' = Requests /\ request'[r] = row /\ \A q \in Requests : q # r => request'[q] = request[q]
  BY <1>1 DEF RequestStep
<1>3. \A q \in Requests : RequestFits(request'[q], ticket, localVersion)
  BY <1>1, <1>2 DEF RequestStep
<1>4. OneOfEach(request')
  BY <1>1, <1>2 DEF RequestStep, OneOfEach
<1> QED
  BY <1>2, <1>3, <1>4 DEF RequestStep, AcquisitionInv

\* A request that rests still fits when a ticket changes.
LEMMA RequestRests ==
  ASSUME NEW row, NEW old \in [Tickets -> TicketRow], NEW local, RequestFits(row, old, local), NEW t \in Tickets, NEW entry \in TicketRow,
         NEW new, new = [old EXCEPT ![t] = entry], entry.state # "absent", old[t].state # "absent" /\ old[t].aged => entry.aged,
         row.ticket = t /\ row.phase \in HandedPhase => HeldBy(entry) /\ (entry.state = "installed" => local = "active")
  PROVE  RequestFits(row, new, local)
<1>1. new \in [Tickets -> TicketRow] /\ new[t] = entry /\ \A u \in Tickets : u # t => new[u] = old[u]
  OBVIOUS
<1>2. Backed(row.ticket, old, local) => Backed(row.ticket, new, local)
  BY <1>1 DEF Backed
<1> QED
  BY <1>1, <1>2 DEF RequestFits, HandedPhase

\* One ticket changes and one request moves with it.
TicketStep(r, row, t, entry) ==
  /\ request' = [request EXCEPT ![r] = row] /\ ticket' = [ticket EXCEPT ![t] = entry] /\ UNCHANGED <<offer, localVersion>> /\ spool' \in [Files -> FileState]
  /\ entry \in TicketRow /\ entry.state # "absent" /\ (ticket[t].state # "absent" /\ ticket[t].aged => entry.aged)
  /\ entry.state = "installed" => Backed(t, ticket, localVersion)
  /\ entry.state \in OpenState => ticket[t].state \in OpenState \/ Cardinality(OpenIn(ticket)) < MaxOpenTickets
  /\ RequestFits(row, ticket', localVersion)
  /\ row.phase = "building" => request[r].phase = "building"
Spared(r, t, entry) ==
  \A q \in Requests \ {r} : request[q].ticket = t /\ request[q].phase \in HandedPhase =>
     HeldBy(entry) /\ (entry.state = "installed" => localVersion = "active")
HandedAlone(r, row) == row.phase \in HandedPhase => \A q \in Requests \ {r} : ~(request[q].phase \in HandedPhase /\ request[q].ticket = row.ticket)
LEMMA TicketMoves ==
  ASSUME AcquisitionInv, NEW r \in Requests, NEW row, NEW t \in Tickets, NEW entry, TicketStep(r, row, t, entry), Spared(r, t, entry), HandedAlone(r, row)
  PROVE  AcquisitionInv'
<1>1. /\ DOMAIN request = Requests /\ (\A q \in Requests : RequestFits(request[q], ticket, localVersion)) /\ OneOfEach(request)
      /\ ticket \in [Tickets -> TicketRow] /\ (\A u \in Tickets : ticket[u].state = "installed" => Backed(u, ticket, localVersion)) /\ Bounded(ticket)
  BY DEF AcquisitionInv, TicketsFit
<1>2. DOMAIN request' = Requests /\ request'[r] = row /\ \A q \in Requests : q # r => request'[q] = request[q]
  BY <1>1 DEF TicketStep
<1>3. ticket' \in [Tickets -> TicketRow] /\ ticket'[t] = entry /\ \A u \in Tickets : u # t => ticket'[u] = ticket[u]
  BY <1>1 DEF TicketStep
<1>4. ASSUME NEW q \in Requests PROVE RequestFits(request'[q], ticket', localVersion)
  <2>1. CASE q = r
    BY <1>2, <2>1 DEF TicketStep
  <2>2. CASE q # r
    <3>1. RequestFits(request[q], ticket, localVersion) /\ request'[q] = request[q]
      BY <1>1, <1>2, <2>2
    <3>2. request[q].ticket = t /\ request[q].phase \in HandedPhase => HeldBy(entry) /\ (entry.state = "installed" => localVersion = "active")
      BY <2>2 DEF Spared
    <3> QED
      BY <1>1, <3>1, <3>2, RequestRests DEF TicketStep
  <2> QED
    BY <2>1, <2>2
<1>5. OneOfEach(request')
  BY <1>1, <1>2 DEF TicketStep, HandedAlone, OneOfEach
<1>6. ASSUME NEW u \in Tickets, ticket'[u].state = "installed" PROVE Backed(u, ticket', localVersion)
  <2>1. Backed(u, ticket, localVersion)
    BY <1>1, <1>3, <1>6 DEF TicketStep
  <2> QED
    BY <1>3, <2>1 DEF Backed, TicketStep
<1>7. Bounded(ticket')
  BY <1>1, <1>3, StaysBounded DEF TicketStep
<1> QED
  BY <1>2, <1>3, <1>4, <1>5, <1>6, <1>7 DEF TicketStep, AcquisitionInv, TicketsFit


-----------------------------------------------------------------------------
\* Requests that do not hold anything.

PlainPhase == {"idle", "admitting", "cancelling", "downloading", "verifying", "storing", "asking", "approving", "unlinking"}
RequestUnderWay(r) == request[r].phase \notin {"idle", "admitting"}
PlainMove(r, row) ==
  /\ row \in RequestRow /\ request' = [request EXCEPT ![r] = row] /\ row.phase \in PlainPhase
  /\ row.phase \notin {"idle", "admitting"} => row.ticket \in Tickets /\ row.ticket = request[r].ticket

LEMMA RequestRows == ASSUME AcquisitionInv PROVE DOMAIN request = Requests /\ \A r \in Requests : request[r] \in RequestRow
BY DEF AcquisitionInv, RequestFits

LEMMA TicketRows == ASSUME AcquisitionInv PROVE ticket \in [Tickets -> TicketRow] /\ (\A t \in Tickets : ticket[t] \in TicketRow) /\ spool \in [Files -> FileState]
BY DEF AcquisitionInv, TicketsFit

LEMMA RowMoved ==
  ASSUME NEW old \in RequestRow, NEW phase \in RequestPhase
  PROVE  LET row == [old EXCEPT !.phase = phase]
         IN  row \in RequestRow /\ row.phase = phase /\ row.ticket = old.ticket /\ row.seen = old.seen /\ row.file = old.file
BY DEF RequestRow

LEMMA NoRequestIs == NoRequest \in RequestRow /\ NoRequest.phase = "idle"
BY DEF NoRequest, RequestRow, RequestPhase, TicketState, DistState

LEMMA PlainMoves ==
  ASSUME AcquisitionInv, NEW r \in Requests, RequestUnderWay(r),
         Answered(r) \/ ThenUnlink(r) \/ \E phase \in PlainPhase : Moves(r, phase)
  PROVE  \E row : PlainMove(r, row)
<1>1. request[r] \in RequestRow /\ request[r].ticket \in Tickets
  BY DEF AcquisitionInv, RequestFits, RequestUnderWay
<1>2. CASE Answered(r)
  BY <1>2, NoRequestIs DEF Answered, PlainMove, PlainPhase
<1>3. ASSUME NEW phase \in PlainPhase, Moves(r, phase) PROVE \E row : PlainMove(r, row)
  <2> DEFINE row == [request[r] EXCEPT !.phase = phase]
  <2>1. phase \in RequestPhase
    BY DEF PlainPhase, RequestPhase
  <2>2. row \in RequestRow /\ row.phase = phase /\ row.ticket = request[r].ticket
    BY <1>1, <2>1, RowMoved
  <2>3. request' = [request EXCEPT ![r] = row]
    BY <1>3 DEF Moves
  <2> HIDE DEF row
  <2>4. PlainMove(r, row)
    BY <1>1, <2>2, <2>3 DEF PlainMove
  <2> QED
    BY <2>4
<1>4. CASE ThenUnlink(r)
  <2>1. Answered(r) \/ Moves(r, "unlinking")
    BY <1>4 DEF ThenUnlink
  <2> QED
    BY <1>2, <1>3, <2>1 DEF PlainPhase
<1> QED
  BY <1>2, <1>3, <1>4

LEMMA PlainFits ==
  ASSUME NEW row \in RequestRow, row.phase \in PlainPhase, NEW tickets, NEW local,
         row.phase \notin {"idle", "admitting"} => row.ticket \in Tickets /\ tickets[row.ticket].state # "absent"
  PROVE  RequestFits(row, tickets, local) /\ row.phase \notin HandedPhase /\ row.phase # "building"
BY DEF RequestFits, PlainPhase, HandedPhase

LEMMA PlainRests ==
  ASSUME AcquisitionInv, NEW r \in Requests, RequestUnderWay(r), NEW row, PlainMove(r, row), UNCHANGED <<offer, localVersion, ticket>>, spool' \in [Files -> FileState]
  PROVE  AcquisitionInv'
<1>1. RequestFits(request[r], ticket, localVersion)
  BY DEF AcquisitionInv
<1>2. RequestFits(row, ticket, localVersion) /\ row.phase \notin HandedPhase /\ row.phase # "building"
  BY <1>1, PlainFits DEF PlainMove, RequestFits, RequestUnderWay
<1>3. RequestStep(r, row)
  BY <1>2 DEF RequestStep, PlainMove
<1> QED
  BY <1>3, RequestMoves

\* The ticket of a request changes and the request lets it go.
EntryStep(t, entry) ==
  /\ entry \in TicketRow /\ entry.state # "absent" /\ (ticket[t].aged => entry.aged)
  /\ entry.state = "installed" => Backed(t, ticket, localVersion)
  /\ entry.state \in OpenState => ticket[t].state \in OpenState
LEMMA PlainSets ==
  ASSUME AcquisitionInv, NEW r \in Requests, RequestUnderWay(r), NEW row, PlainMove(r, row), NEW t, t = request[r].ticket, NEW entry, EntryStep(t, entry),
         Spared(r, t, entry), ticket' = [ticket EXCEPT ![t] = entry], UNCHANGED <<offer, localVersion>>, spool' \in [Files -> FileState]
  PROVE  AcquisitionInv'
<1>1. t \in Tickets /\ ticket \in [Tickets -> TicketRow]
  BY TicketRows DEF AcquisitionInv, RequestFits, RequestUnderWay
<1>2. ticket'[t] = entry
  BY <1>1
<1>3. RequestFits(row, ticket', localVersion) /\ row.phase \notin HandedPhase /\ row.phase # "building"
  BY <1>1, <1>2, PlainFits DEF PlainMove, EntryStep
<1>4. TicketStep(r, row, t, entry) /\ HandedAlone(r, row)
  BY <1>3 DEF TicketStep, HandedAlone, EntryStep, PlainMove
<1> QED
  BY <1>1, <1>4, TicketMoves

\* Who holds a ticket, holds it alone.
LEMMA OthersHold ==
  ASSUME AcquisitionInv, NEW r \in Requests, NEW q \in Requests \ {r}, request[q].phase \in HandedPhase
  PROVE  HeldBy(ticket[request[q].ticket]) /\ (request[r].phase \in HandedPhase => request[r].ticket # request[q].ticket)
BY DEF AcquisitionInv, RequestFits, OneOfEach

LEMMA EntryMoved ==
  ASSUME NEW old \in TicketRow, NEW state \in TicketState
  PROVE  LET entry == [old EXCEPT !.state = state] IN entry \in TicketRow /\ entry.state = state /\ entry.aged = old.aged
BY DEF TicketRow

LEMMA PlainMarksFailed ==
  ASSUME AcquisitionInv, NEW r \in Requests, RequestUnderWay(r), NEW row, PlainMove(r, row), NEW expected, MarkTicketFailed(TicketOf(r), expected),
         expected \in {"created", "downloaded"} \/ ticket[TicketOf(r)].aged \/ request[r].phase \in HandedPhase,
         UNCHANGED <<offer, localVersion>>, spool' \in [Files -> FileState]
  PROVE  AcquisitionInv'
<1> DEFINE t == request[r].ticket
           entry == [ticket[t] EXCEPT !.state = "failed"]
<1>1. t \in Tickets /\ ticket[t] \in TicketRow /\ ticket[t].state # "absent"
  BY TicketRows DEF AcquisitionInv, RequestFits, RequestUnderWay
<1>2. CASE ticket' = ticket
  BY <1>2, PlainRests
<1>3. CASE ticket[t].state = expected /\ ticket' = [ticket EXCEPT ![t].state = "failed"]
  <2>1. entry \in TicketRow /\ entry.state = "failed" /\ entry.aged = ticket[t].aged /\ ticket' = [ticket EXCEPT ![t] = entry]
    BY <1>1, <1>3, EntryMoved DEF TicketState
  <2> HIDE DEF entry
  <2>2. EntryStep(t, entry)
    BY <2>1 DEF EntryStep, OpenState
  <2>3. ASSUME NEW q \in Requests \ {r}, request[q].ticket = t, request[q].phase \in HandedPhase PROVE HeldBy(entry)
    <3>1. HeldBy(ticket[t]) /\ request[r].phase \notin HandedPhase
      BY <2>3, OthersHold
    <3>2. ticket[t].aged
      BY <1>3, <3>1 DEF HeldBy, TicketOf
    <3> QED
      BY <2>1, <3>2 DEF HeldBy
  <2>4. Spared(r, t, entry)
    BY <2>1, <2>3 DEF Spared
  <2> HIDE DEF t
  <2> QED
    BY <2>1, <2>2, <2>4, PlainSets DEF t
<1> QED
  BY <1>2, <1>3 DEF MarkTicketFailed, TicketOf


-----------------------------------------------------------------------------
\* create and cancel.

LEMMA BeginTicketKeeps == ASSUME AcquisitionInv, NEW r \in Requests, BeginTicket(r) PROVE AcquisitionInv'
<1> DEFINE row == [NoRequest EXCEPT !.phase = "admitting", !.dist = offer.dist, !.revision = offer.revision]
           new == Withdrawn
<1>1. /\ DOMAIN request = Requests /\ (\A q \in Requests : RequestFits(request[q], ticket, localVersion)) /\ OneOfEach(request)
      /\ ticket \in [Tickets -> TicketRow] /\ (\A u \in Tickets : ticket[u].state = "installed" => Backed(u, ticket, localVersion)) /\ Bounded(ticket)
      /\ offer \in [dist : DistState, revision : Nat] /\ spool \in [Files -> FileState]
  BY DEF AcquisitionInv, TicketsFit
<1>2. ticket' = new /\ request' = [request EXCEPT ![r] = row] /\ UNCHANGED <<offer, localVersion>> /\ spool' \in [Files -> FileState]
  BY <1>1 DEF BeginTicket, FileState
<1>3. row \in RequestRow /\ row.phase = "admitting"
  BY <1>1 DEF NoRequest, RequestRow, RequestPhase, TicketState
<1>4. ASSUME NEW t \in Tickets
      PROVE  \/ new[t] = ticket[t]
             \/ new[t] \in TicketRow /\ new[t].state = "failed" /\ new[t].aged = ticket[t].aged /\ ticket[t].state \in {"created", "downloaded"}
  <2>1. ticket[t] \in TicketRow
    BY <1>1
  <2>2. CASE t \in Lapsed
    <3>1. new[t] = [ticket[t] EXCEPT !.state = "failed", !.path = NoFile] /\ ticket[t].state \in {"created", "downloaded"}
      BY <2>2 DEF Withdrawn, Lapsed
    <3> QED
      BY <2>1, <3>1 DEF TicketRow, TicketState
  <2>3. CASE t \notin Lapsed
    BY <2>3 DEF Withdrawn
  <2> QED
    BY <2>2, <2>3
<1>5. new = [t \in Tickets |-> new[t]]
  BY DEF Withdrawn
<1> HIDE DEF row, new
<1>6. new \in [Tickets -> TicketRow]
  <2>1. \A t \in Tickets : new[t] \in TicketRow
    BY <1>1, <1>4
  <2> QED
    BY <1>5, <2>1
<1>7. \A t \in Tickets : Backed(t, ticket, localVersion) => Backed(t, new, localVersion)
  BY <1>4 DEF Backed
<1>8. ASSUME NEW q \in Requests PROVE RequestFits(request'[q], new, localVersion)
  <2>1. CASE q = r
    BY <1>1, <1>2, <1>3, <2>1 DEF RequestFits, HandedPhase
  <2>2. CASE q # r
    <3>1. request'[q] = request[q] /\ RequestFits(request[q], ticket, localVersion)
      BY <1>1, <1>2, <2>2
    <3>2. CASE request[q].phase \in {"idle", "admitting"}
      BY <3>1, <3>2 DEF RequestFits, HandedPhase
    <3>3. CASE request[q].phase \notin {"idle", "admitting"}
      <4> DEFINE t == request[q].ticket
      <4>1. t \in Tickets /\ ticket[t].state # "absent"
        BY <3>1, <3>3 DEF RequestFits
      <4>2. Backed(t, ticket, localVersion) => Backed(t, new, localVersion)
        BY <1>7, <4>1
      <4>3. \/ new[t] = ticket[t]
            \/ new[t].state = "failed" /\ new[t].aged = ticket[t].aged /\ ticket[t].state \in {"created", "downloaded"}
        BY <1>4, <4>1
      <4>4. HeldBy(ticket[t]) => new[t] = ticket[t]
        BY <4>3 DEF HeldBy
      <4> QED
        BY <3>1, <4>1, <4>2, <4>3, <4>4 DEF RequestFits
    <3> QED
      BY <3>2, <3>3
  <2> QED
    BY <2>1, <2>2
<1>9. OneOfEach(request')
  BY <1>1, <1>2, <1>3 DEF OneOfEach, HandedPhase
<1>10. \A t \in Tickets : new[t].state = "installed" => Backed(t, new, localVersion)
  BY <1>1, <1>4, <1>7
<1>11. Bounded(new)
  <2>1. \A u \in Tickets : new[u].state \in OpenState => ticket[u].state \in OpenState
    BY <1>4 DEF OpenState
  <2>2. \A u \in Tickets : u # r /\ new[u].state \in OpenState => ticket[u].state \in OpenState
    BY <2>1
  <2>3. r \in Tickets /\ new[r].state \in OpenState => ticket[r].state \in OpenState \/ Cardinality(OpenIn(ticket)) < MaxOpenTickets
    BY <2>1
  <2> QED
    BY <1>1, <1>6, <2>2, <2>3, StaysBounded
<1> QED
  BY <1>1, <1>2, <1>6, <1>8, <1>9, <1>10, <1>11 DEF AcquisitionInv, TicketsFit

LEMMA InsertTicketKeeps == ASSUME AcquisitionInv, NEW r \in Requests, NEW t \in Tickets, InsertTicket(r, t) PROVE AcquisitionInv'
<1> DEFINE entry == [NoTicket EXCEPT !.state = "created", !.dist = request[r].dist, !.revision = request[r].revision]
<1>1. request[r] \in RequestRow /\ ticket \in [Tickets -> TicketRow] /\ ticket[t].state = "absent" /\ ticket[t] \in TicketRow /\ spool' \in [Files -> FileState]
  BY RequestRows, TicketRows DEF InsertTicket
<1>2. request' = [request EXCEPT ![r] = NoRequest] /\ UNCHANGED <<offer, localVersion>>
  BY DEF InsertTicket, Answered
<1>3. NoRequest \in RequestRow /\ NoRequest.phase = "idle"
  BY NoRequestIs
<1>4. NoRequest.phase \in PlainPhase
  BY <1>3 DEF PlainPhase
<1>5. CASE ticket' = ticket
  <2>1. RequestFits(NoRequest, ticket, localVersion) /\ NoRequest.phase \notin HandedPhase /\ NoRequest.phase # "building"
    BY <1>3, <1>4, PlainFits
  <2>2. RequestStep(r, NoRequest)
    BY <1>1, <1>2, <1>5, <2>1 DEF RequestStep
  <2> QED
    BY <2>2, RequestMoves
<1>6. CASE HasTicketRoom /\ ticket' = [ticket EXCEPT ![t] = entry]
  <2>1. NoTicket \in TicketRow /\ ~NoTicket.aged
    BY DEF NoTicket, TicketRow, TicketState, DistState
  <2>2. request[r].dist \in DistState /\ request[r].revision \in Nat
    BY <1>1 DEF RequestRow
  <2>3. entry \in TicketRow /\ entry.state = "created" /\ ~entry.aged
    BY <2>1, <2>2 DEF TicketRow, TicketState
  <2>4. ticket' = [ticket EXCEPT ![t] = entry] /\ Cardinality(OpenIn(ticket)) < MaxOpenTickets
    BY <1>6 DEF HasTicketRoom, OpenTickets, OpenIn, OpenState
  <2> HIDE DEF entry
  <2>5. RequestFits(NoRequest, ticket', localVersion) /\ NoRequest.phase \notin HandedPhase /\ NoRequest.phase # "building"
    BY <1>3, <1>4, PlainFits
  <2>6. TicketStep(r, NoRequest, t, entry) /\ HandedAlone(r, NoRequest)
    BY <1>1, <1>2, <2>3, <2>4, <2>5 DEF TicketStep, HandedAlone
  <2>7. Spared(r, t, entry)
    <3>1. ASSUME NEW q \in Requests \ {r}, request[q].ticket = t PROVE request[q].phase \notin HandedPhase
      BY <1>1, <3>1, OthersHold DEF HeldBy
    <3> QED
      BY <3>1 DEF Spared
  <2> QED
    BY <2>6, <2>7, TicketMoves
<1> QED
  BY <1>5, <1>6 DEF InsertTicket

LEMMA ReadingRow ==
  ASSUME AcquisitionInv, NEW t \in Tickets, NEW phase \in RequestPhase
  PROVE  LET row == [NoRequest EXCEPT !.phase = phase, !.ticket = t, !.file = ticket[t].path]
         IN  row \in RequestRow /\ row.phase = phase /\ row.ticket = t
<1>1. ticket[t] \in TicketRow /\ NoRequest \in RequestRow
  BY TicketRows, NoRequestIs
<1>2. ticket[t].path \in Files \union {NoFile}
  BY <1>1 DEF TicketRow
<1> QED
  BY <1>1, <1>2 DEF RequestRow

\* A request that takes up a ticket.
LEMMA Begins ==
  ASSUME AcquisitionInv, NEW r \in Requests, NEW row \in RequestRow, request' = [request EXCEPT ![r] = row], row.ticket \in Tickets,
         ticket[row.ticket].state # "absent", row.phase \notin HandedPhase, row.phase = "expiring" => ticket[row.ticket].aged,
         row.phase = "settling" => localVersion = "active", UNCHANGED <<offer, localVersion, ticket, spool>>
  PROVE  AcquisitionInv'
<1>1. spool' \in [Files -> FileState]
  BY TicketRows
<1>2. RequestFits(row, ticket, localVersion) /\ row.phase # "building"
  BY DEF RequestFits, HandedPhase
<1>3. RequestStep(r, row)
  BY <1>1, <1>2 DEF RequestStep
<1> QED
  BY <1>3, RequestMoves

LEMMA BeginCancelKeeps == ASSUME AcquisitionInv, NEW r \in Requests, NEW t \in Tickets, BeginCancel(r, t) PROVE AcquisitionInv'
<1> DEFINE row == [NoRequest EXCEPT !.phase = "cancelling", !.ticket = t, !.file = ticket[t].path]
<1>1. row \in RequestRow /\ row.phase = "cancelling" /\ row.ticket = t
  BY ReadingRow DEF RequestPhase
<1>2. request' = [request EXCEPT ![r] = row] /\ ticket[t].state # "absent" /\ UNCHANGED <<offer, localVersion, ticket, spool>>
  BY DEF BeginCancel
<1> HIDE DEF row
<1> QED
  BY <1>1, <1>2, Begins DEF HandedPhase

LEMMA CommitCancelKeeps == ASSUME AcquisitionInv, NEW r \in Requests, CommitCancel(r) PROVE AcquisitionInv'
<1> DEFINE t == request[r].ticket
           entry == [ticket[t] EXCEPT !.state = "failed", !.path = NoFile]
<1>1. RequestUnderWay(r) /\ t \in Tickets /\ ticket[t] \in TicketRow /\ spool \in [Files -> FileState]
  BY TicketRows DEF AcquisitionInv, RequestFits, RequestUnderWay, CommitCancel, PhaseOf
<1>2. UNCHANGED <<offer, localVersion, spool>> /\ (Answered(r) \/ ThenUnlink(r)) /\ request[r].phase = "cancelling"
  BY DEF CommitCancel, PhaseOf
<1>3. PICK row : PlainMove(r, row)
  BY <1>1, <1>2, PlainMoves
<1>4. CASE ticket' = ticket
  BY <1>1, <1>2, <1>3, <1>4, PlainRests
<1>5. CASE ticket[t].state \in {"created", "downloaded", "failed"} /\ ticket' = [ticket EXCEPT ![t] = entry]
  <2>1. entry \in TicketRow /\ entry.state = "failed" /\ entry.aged = ticket[t].aged
    BY <1>1 DEF TicketRow, TicketState
  <2>2. ticket' = [ticket EXCEPT ![t] = entry]
    BY <1>5
  <2> HIDE DEF entry
  <2>3. EntryStep(t, entry)
    BY <2>1 DEF EntryStep, OpenState
  <2>4. Spared(r, t, entry)
    <3>1. ASSUME NEW q \in Requests \ {r}, request[q].ticket = t, request[q].phase \in HandedPhase PROVE HeldBy(entry)
      BY <1>5, <2>1, <3>1, OthersHold DEF HeldBy
    <3> QED
      BY <2>1, <3>1 DEF Spared
  <2> HIDE DEF t
  <2> QED
    BY <1>1, <1>2, <1>3, <2>2, <2>3, <2>4, PlainSets DEF t
<1> QED
  BY <1>4, <1>5 DEF CommitCancel, TicketOf

-----------------------------------------------------------------------------
\* prepare.

LEMMA ReadsKeep ==
  ASSUME AcquisitionInv, NEW r \in Requests, NEW t \in Tickets, BeginPrepare(r, t) \/ BeginHandOff(r, t)
  PROVE  AcquisitionInv'
<1>1. PICK phase \in {"expiring", "downloading", "settling", "asking"} :
        /\ Reading(r, t, phase) /\ ticket[t].state # "absent"
        /\ phase = "expiring" => ticket[t].aged
        /\ phase = "settling" => localVersion = "active"
  BY DEF BeginPrepare, BeginHandOff, LocallyActive
<1> DEFINE row == [NoRequest EXCEPT !.phase = phase, !.ticket = t, !.seen = ticket[t].state, !.file = ticket[t].path]
<1>2. phase \in RequestPhase /\ phase \notin HandedPhase
  BY <1>1 DEF RequestPhase, HandedPhase
<1>3. row \in RequestRow /\ row.phase = phase /\ row.ticket = t
  <2>1. ticket[t] \in TicketRow /\ NoRequest \in RequestRow
    BY TicketRows, NoRequestIs
  <2>2. ticket[t].state \in TicketState /\ ticket[t].path \in Files \union {NoFile}
    BY <2>1 DEF TicketRow
  <2> QED
    BY <1>2, <2>1, <2>2 DEF RequestRow
<1>4. request' = [request EXCEPT ![r] = row] /\ UNCHANGED <<offer, localVersion, ticket, spool>>
  BY <1>1 DEF Reading, BeginPrepare, BeginHandOff
<1> HIDE DEF row
<1> QED
  BY <1>1, <1>2, <1>3, <1>4, Begins

LEMMA PrepareKeeps ==
  ASSUME AcquisitionInv, NEW r \in Requests,
         ExpireTicket(r) \/ DownloadFails(r) \/ VerifyLocally(r) \/ RecordDownload(r) \/ Unlink(r) \/ \E f \in Files : Download(r, f)
  PROVE  AcquisitionInv'
<1> DEFINE t == request[r].ticket
<1>1. /\ t \in Tickets /\ ticket[t] \in TicketRow /\ spool \in [Files -> FileState] /\ ticket[t].state # "absent"
      /\ request[r] \in RequestRow /\ (request[r].phase = "expiring" => ticket[t].aged) /\ RequestUnderWay(r)
  BY TicketRows DEF AcquisitionInv, RequestFits, RequestUnderWay, PhaseOf, ExpireTicket, DownloadFails, VerifyLocally, RecordDownload, Unlink, Download
<1>2. UNCHANGED <<offer, localVersion>>
  BY DEF ExpireTicket, DownloadFails, VerifyLocally, RecordDownload, Unlink, Download
<1>3. spool' \in [Files -> FileState]
  BY <1>1 DEF ExpireTicket, DownloadFails, VerifyLocally, RecordDownload, Unlink, Download, FileState
<1>4. CASE ExpireTicket(r)
  <2>1. PICK row : PlainMove(r, row)
    BY <1>1, <1>4, PlainMoves DEF ExpireTicket
  <2>2. MarkTicketFailed(TicketOf(r), request[r].seen) /\ ticket[TicketOf(r)].aged
    BY <1>1, <1>4 DEF ExpireTicket, PhaseOf, TicketOf
  <2> QED
    BY <1>1, <1>2, <1>3, <2>1, <2>2, PlainMarksFailed
<1>5. ASSUME Answered(r), MarkTicketFailed(TicketOf(r), "created") PROVE AcquisitionInv'
  <2>1. PICK row : PlainMove(r, row)
    BY <1>1, <1>5, PlainMoves
  <2> QED
    BY <1>1, <1>2, <1>3, <1>5, <2>1, PlainMarksFailed
<1>6. ASSUME Answered(r) \/ \E phase \in PlainPhase : Moves(r, phase), ticket' = ticket PROVE AcquisitionInv'
  <2>1. PICK row : PlainMove(r, row)
    BY <1>1, <1>6, PlainMoves
  <2> QED
    BY <1>1, <1>2, <1>3, <1>6, <2>1, PlainRests
<1>7. CASE DownloadFails(r)
  BY <1>5, <1>7 DEF DownloadFails
<1>8. CASE VerifyLocally(r)
  BY <1>5, <1>6, <1>8 DEF VerifyLocally, PlainPhase
<1>9. CASE Unlink(r)
  BY <1>6, <1>9 DEF Unlink
<1>10. CASE RecordDownload(r)
  <2> DEFINE entry == [ticket[t] EXCEPT !.state = "downloaded", !.path = request[r].file]
  <2>1. CASE ticket' = ticket /\ Moves(r, "unlinking")
    BY <1>6, <2>1 DEF PlainPhase
  <2>2. CASE ticket[t].state = "created" /\ Answered(r) /\ ticket' = [ticket EXCEPT ![t] = entry]
    <3>1. request[r].file \in Files \union {NoFile}
      BY <1>1 DEF RequestRow
    <3>2. entry \in TicketRow /\ entry.state = "downloaded" /\ entry.aged = ticket[t].aged
      BY <1>1, <3>1 DEF TicketRow, TicketState
    <3>3. ticket' = [ticket EXCEPT ![t] = entry]
      BY <2>2
    <3> HIDE DEF entry
    <3>4. EntryStep(t, entry)
      BY <2>2, <3>2 DEF EntryStep, OpenState
    <3>5. Spared(r, t, entry)
      <4>1. ASSUME NEW q \in Requests \ {r}, request[q].ticket = t PROVE request[q].phase \notin HandedPhase
        BY <2>2, <4>1, OthersHold DEF HeldBy
      <4> QED
        BY <4>1 DEF Spared
    <3>6. PICK row : PlainMove(r, row)
      BY <1>1, <2>2, PlainMoves
    <3> HIDE DEF t
    <3> QED
      BY <1>1, <1>2, <1>3, <3>3, <3>4, <3>5, <3>6, PlainSets DEF t
  <2> QED
    BY <1>10, <2>1, <2>2 DEF RecordDownload, TicketOf
<1>11. ASSUME NEW f \in Files, Download(r, f) PROVE AcquisitionInv'
  <2> DEFINE row == [request[r] EXCEPT !.phase = "verifying", !.file = f]
  <2>1. row \in RequestRow /\ row.phase = "verifying" /\ row.ticket = t
    BY <1>1 DEF RequestRow, RequestPhase
  <2>2. request' = [request EXCEPT ![r] = row] /\ ticket' = ticket
    BY <1>11 DEF Download
  <2> HIDE DEF row
  <2>3. PlainMove(r, row)
    BY <1>1, <2>1, <2>2 DEF PlainMove, PlainPhase
  <2> QED
    BY <1>1, <1>2, <1>3, <2>2, <2>3, PlainRests
<1> QED
  BY <1>4, <1>7, <1>8, <1>9, <1>10, <1>11


-----------------------------------------------------------------------------
\* install.

LEMMA HandOffKeeps ==
  ASSUME AcquisitionInv, NEW r \in Requests, SettleApproved(r) \/ AskAgain(r) \/ Approve(r) \/ FailHandOff(r) \/ CloseHandOff(r)
  PROVE  AcquisitionInv'
<1> DEFINE t == request[r].ticket
           settled == [ticket[t] EXCEPT !.state = "installed", !.path = NoFile]
           approved == [ticket[t] EXCEPT !.state = "approved"]
<1>1. /\ t \in Tickets /\ ticket[t] \in TicketRow /\ spool \in [Files -> FileState] /\ ticket[t].state # "absent"
      /\ request[r] \in RequestRow /\ RequestFits(request[r], ticket, localVersion) /\ RequestUnderWay(r)
  BY TicketRows DEF AcquisitionInv, RequestFits, RequestUnderWay, PhaseOf, SettleApproved, AskAgain, Approve, FailHandOff, CloseHandOff
<1>2. UNCHANGED <<offer, localVersion>>
  BY DEF SettleApproved, AskAgain, Approve, FailHandOff, CloseHandOff
<1>3. spool' \in [Files -> FileState]
  BY <1>1 DEF SettleApproved, AskAgain, Approve, FailHandOff, CloseHandOff, FileState
<1>4. settled \in TicketRow /\ settled.state = "installed" /\ settled.aged = ticket[t].aged
  BY <1>1 DEF TicketRow, TicketState
<1>5. approved \in TicketRow /\ approved.state = "approved" /\ approved.aged = ticket[t].aged
  BY <1>1 DEF TicketRow, TicketState
<1>6. ASSUME Answered(r) \/ ThenUnlink(r) \/ \E phase \in PlainPhase : Moves(r, phase), ticket' = ticket PROVE AcquisitionInv'
  <2>1. PICK row : PlainMove(r, row)
    BY <1>1, <1>6, PlainMoves
  <2> QED
    BY <1>1, <1>2, <1>3, <1>6, <2>1, PlainRests
<1>7. ASSUME Answered(r) \/ ThenUnlink(r) \/ \E phase \in PlainPhase : Moves(r, phase), ticket' = [ticket EXCEPT ![t] = settled],
             localVersion = "active" \/ request[r].phase = "closing"
      PROVE  AcquisitionInv'
  <2> HIDE DEF settled
  <2>1. PICK row : PlainMove(r, row)
    BY <1>1, <1>7, PlainMoves
  <2>2. Backed(t, ticket, localVersion)
    BY <1>1, <1>7 DEF RequestFits, Backed
  <2>3. EntryStep(t, settled)
    BY <1>4, <2>2 DEF EntryStep, OpenState
  <2>4. Spared(r, t, settled)
    <3>1. ASSUME NEW q \in Requests \ {r}, request[q].ticket = t, request[q].phase \in HandedPhase PROVE localVersion = "active"
      BY <1>7, <3>1, OthersHold DEF HandedPhase
    <3> QED
      BY <1>4, <3>1 DEF Spared, HeldBy
  <2> HIDE DEF t
  <2> QED
    BY <1>1, <1>2, <1>3, <1>7, <2>1, <2>3, <2>4, PlainSets DEF t
<1>8. CASE SettleApproved(r)
  <2>1. localVersion = "active" /\ ThenUnlink(r)
    BY <1>1, <1>8 DEF SettleApproved, PhaseOf, RequestFits
  <2>2. ticket' = ticket \/ ticket' = [ticket EXCEPT ![t] = settled]
    BY <1>8 DEF SettleApproved, TicketOf
  <2> QED
    BY <1>6, <1>7, <2>1, <2>2
<1>9. CASE CloseHandOff(r)
  <2>1. request[r].phase = "closing" /\ Moves(r, "unlinking") /\ ticket' = [ticket EXCEPT ![t] = settled]
    BY <1>9 DEF CloseHandOff, PhaseOf, TicketOf
  <2> QED
    BY <1>7, <2>1 DEF PlainPhase
<1>10. CASE AskAgain(r)
  <2>1. CASE Moves(r, "approving") /\ ticket' = ticket
    BY <1>6, <2>1 DEF PlainPhase
  <2>2. CASE MarkTicketFailed(TicketOf(r), "downloaded") /\ Moves(r, "unlinking")
    <3>1. PICK row : PlainMove(r, row)
      BY <1>1, <2>2, PlainMoves DEF PlainPhase
    <3> QED
      BY <1>1, <1>2, <1>3, <2>2, <3>1, PlainMarksFailed
  <2> QED
    BY <1>10, <2>1, <2>2 DEF AskAgain
<1>11. CASE FailHandOff(r)
  <2>1. PICK row : PlainMove(r, row)
    BY <1>1, <1>11, PlainMoves DEF FailHandOff
  <2>2. MarkTicketFailed(TicketOf(r), "approved") /\ request[r].phase \in HandedPhase
    BY <1>11 DEF FailHandOff, PhaseOf, HandedPhase
  <2> QED
    BY <1>1, <1>2, <1>3, <2>1, <2>2, PlainMarksFailed
<1>12. CASE Approve(r)
  <2>1. CASE Answered(r) /\ ticket' = ticket
    BY <1>6, <2>1
  <2>2. CASE Approvable(TicketOf(r)) /\ ticket' = [ticket EXCEPT ![t].state = "approved"] /\ Moves(r, "installing")
    <3> DEFINE row == [request[r] EXCEPT !.phase = "installing"]
    <3>1. row \in RequestRow /\ row.phase = "installing" /\ row.ticket = t
      BY <1>1 DEF RequestRow, RequestPhase, HandedPhase
    <3>2. request' = [request EXCEPT ![r] = row] /\ ticket' = [ticket EXCEPT ![t] = approved] /\ ticket[t].state = "downloaded"
      BY <2>2 DEF Moves, Approvable, TicketOf
    <3>3. ticket'[t] = approved
      BY <1>1, <3>2, TicketRows
    <3> HIDE DEF row, approved
    <3>4. \A q \in Requests \ {r} : ~(request[q].phase \in HandedPhase /\ request[q].ticket = t)
      BY <3>2, OthersHold DEF HeldBy
    <3>5. RequestFits(row, ticket', localVersion)
      BY <1>1, <1>5, <3>1, <3>3 DEF RequestFits, HeldBy, HandedPhase
    <3>6. TicketStep(r, row, t, approved)
      BY <1>2, <1>3, <1>5, <3>1, <3>2, <3>5 DEF TicketStep, OpenState
    <3>7. Spared(r, t, approved) /\ HandedAlone(r, row)
      BY <3>1, <3>4 DEF Spared, HandedAlone
    <3> QED
      BY <1>1, <3>6, <3>7, TicketMoves
  <2> QED
    BY <1>12, <2>1, <2>2 DEF Approve, TicketOf
<1> QED
  BY <1>8, <1>9, <1>10, <1>11, <1>12

\* The installer moves the version on, for the one request that builds it.
InstallerStep(r, row) ==
  /\ request' = [request EXCEPT ![r] = row] \/ (request' = request /\ row = request[r])
  /\ UNCHANGED <<offer, ticket, spool>> /\ localVersion' \in LocalState
  /\ row.ticket = request[r].ticket /\ request[r].phase \in HandedPhase /\ row.phase \in HandedPhase
  /\ RequestFits(row, ticket, localVersion')
Carried(r) ==
  /\ \A q \in Requests \ {r} : RequestFits(request[q], ticket, localVersion') /\ request[q].phase # "building"
  /\ \A t \in Tickets : ticket[t].state = "installed" => Backed(t, ticket, localVersion')
LEMMA HandedMoves == ASSUME AcquisitionInv, NEW r \in Requests, NEW row, InstallerStep(r, row), Carried(r) PROVE AcquisitionInv'
<1>1. DOMAIN request = Requests /\ OneOfEach(request) /\ TicketsFit(ticket, localVersion)
  BY DEF AcquisitionInv
<1>2. DOMAIN request' = Requests /\ request'[r] = row /\ \A q \in Requests : q # r => request'[q] = request[q]
  BY <1>1 DEF InstallerStep
<1>3. \A q \in Requests : RequestFits(request'[q], ticket, localVersion')
  BY <1>2 DEF InstallerStep, Carried
<1>4. OneOfEach(request')
  BY <1>1, <1>2 DEF OneOfEach, InstallerStep, Carried
<1>5. TicketsFit(ticket, localVersion')
  BY <1>1 DEF TicketsFit, Carried
<1> QED
  BY <1>2, <1>3, <1>4, <1>5 DEF InstallerStep, AcquisitionInv

LEMMA InstallerKeeps == ASSUME AcquisitionInv, NEW r \in Requests, CallInstaller(r) \/ InstallerWorks(r) PROVE AcquisitionInv'
<1> DEFINE t == request[r].ticket
           old == localVersion
           new == localVersion'
<1>1. /\ t \in Tickets /\ request[r] \in RequestRow /\ RequestFits(request[r], ticket, old) /\ HeldBy(ticket[t]) /\ ticket[t].state # "absent"
      /\ request[r].phase \in {"installing", "building"} /\ spool \in [Files -> FileState]
  BY TicketRows DEF AcquisitionInv, RequestFits, CallInstaller, InstallerWorks, PhaseOf, HandedPhase
<1>2. ASSUME NEW phase \in HandedPhase
      PROVE  LET row == [request[r] EXCEPT !.phase = phase] IN row \in RequestRow /\ row.phase = phase /\ row.ticket = t
  <2>1. phase \in RequestPhase
    BY DEF RequestPhase
  <2> QED
    BY <1>1, <2>1, RowMoved
<1>3. UNCHANGED <<offer, ticket, spool>>
  BY DEF CallInstaller, InstallerWorks
<1>4. ASSUME NEW q \in Requests \ {r}
      PROVE  RequestFits(request[q], ticket, old) /\ (request[q].phase \in HandedPhase => request[q].ticket # t)
             /\ (request[r].phase = "building" => request[q].phase # "building")
  BY <1>1, OthersHold DEF AcquisitionInv, OneOfEach, HandedPhase
<1>5. \A u \in Tickets : ticket[u].state = "installed" => Backed(u, ticket, old)
  BY DEF AcquisitionInv, TicketsFit
<1>6. ASSUME NEW phase \in {"closing", "failing"}, Moves(r, phase), new = old, phase = "closing" => old \in {"installed", "active"} PROVE AcquisitionInv'
  <2> DEFINE row == [request[r] EXCEPT !.phase = phase]
  <2>1. row \in RequestRow /\ row.phase = phase /\ row.ticket = t
    BY <1>2, <1>6 DEF HandedPhase
  <2>2. request' = [request EXCEPT ![r] = row]
    BY <1>6 DEF Moves
  <2> HIDE DEF row
  <2>3. RequestFits(row, ticket, old)
    BY <1>1, <1>6, <2>1 DEF RequestFits, HandedPhase, Backed
  <2>4. RequestStep(r, row)
    BY <1>1, <1>3, <1>6, <2>1, <2>2, <2>3 DEF RequestStep, HandedPhase
  <2> QED
    BY <2>4, RequestMoves
<1>7. CASE request[r].phase = "installing" /\ old \in {"none", "failed"} /\ new = "installing" /\ Moves(r, "building")
  <2> DEFINE row == [request[r] EXCEPT !.phase = "building"]
  <2>1. row \in RequestRow /\ row.phase = "building" /\ row.ticket = t
    BY <1>2 DEF HandedPhase
  <2>2. request' = [request EXCEPT ![r] = row]
    BY <1>7 DEF Moves
  <2> HIDE DEF row
  <2>3. RequestFits(row, ticket, new)
    BY <1>1, <1>7, <2>1 DEF RequestFits, HandedPhase
  <2>4. \A u \in Tickets : Backed(u, ticket, old) => Backed(u, ticket, new)
    BY <1>7 DEF Backed
  <2>5. ASSUME NEW q \in Requests \ {r} PROVE RequestFits(request[q], ticket, new) /\ request[q].phase # "building"
    BY <1>4, <1>7, <2>4 DEF RequestFits
  <2>6. Carried(r)
    BY <1>5, <2>4, <2>5 DEF Carried
  <2>7. InstallerStep(r, row)
    BY <1>1, <1>3, <1>7, <2>1, <2>2, <2>3 DEF InstallerStep, LocalState, HandedPhase
  <2> QED
    BY <2>6, <2>7, HandedMoves
<1>8. CASE request[r].phase = "building" /\ old = "installing" /\ new = "installed" /\ UNCHANGED request
  <2>1. RequestFits(request[r], ticket, new)
    BY <1>1, <1>8 DEF RequestFits
  <2>3. \A u \in Tickets : Backed(u, ticket, new)
    BY <1>8 DEF Backed
  <2>4. ASSUME NEW q \in Requests \ {r} PROVE RequestFits(request[q], ticket, new) /\ request[q].phase # "building"
    BY <1>4, <1>8, <2>3 DEF RequestFits
  <2>5. Carried(r)
    BY <2>3, <2>4 DEF Carried
  <2>6. InstallerStep(r, request[r])
    BY <1>1, <1>3, <1>8, <2>1 DEF InstallerStep, LocalState, HandedPhase
  <2> QED
    BY <2>5, <2>6, HandedMoves
<1>9. CASE request[r].phase = "building" /\ old = "installed" /\ new = "active" /\ Moves(r, "closing")
  <2> DEFINE row == [request[r] EXCEPT !.phase = "closing"]
  <2>1. row \in RequestRow /\ row.phase = "closing" /\ row.ticket = t
    BY <1>2 DEF HandedPhase
  <2>2. request' = [request EXCEPT ![r] = row]
    BY <1>9 DEF Moves
  <2> HIDE DEF row
  <2>3. \A u \in Tickets : Backed(u, ticket, new)
    BY <1>9 DEF Backed
  <2>4. RequestFits(row, ticket, new)
    BY <1>1, <1>9, <2>1, <2>3 DEF RequestFits, HandedPhase
  <2>5. ASSUME NEW q \in Requests \ {r} PROVE RequestFits(request[q], ticket, new) /\ request[q].phase # "building"
    BY <1>4, <1>9, <2>3 DEF RequestFits
  <2>6. Carried(r)
    BY <2>3, <2>5 DEF Carried
  <2>7. InstallerStep(r, row)
    BY <1>1, <1>3, <1>9, <2>1, <2>2, <2>4 DEF InstallerStep, LocalState, HandedPhase
  <2> QED
    BY <2>6, <2>7, HandedMoves
<1>10. CASE request[r].phase = "building" /\ new = "failed" /\ Moves(r, "failing")
  <2> DEFINE row == [request[r] EXCEPT !.phase = "failing"]
  <2>1. row \in RequestRow /\ row.phase = "failing" /\ row.ticket = t
    BY <1>2 DEF HandedPhase
  <2>2. request' = [request EXCEPT ![r] = row]
    BY <1>10 DEF Moves
  <2> HIDE DEF row
  <2>3. RequestFits(row, ticket, new)
    BY <1>1, <1>10, <2>1 DEF RequestFits, HandedPhase
  <2>4. \A u \in Tickets : u # t => Backed(u, ticket, new)
    BY <1>1, <1>10 DEF Backed
  <2>5. old # "active" /\ ticket[t].state # "installed"
    BY <1>1, <1>10 DEF RequestFits
  <2>6. ASSUME NEW q \in Requests \ {r} PROVE RequestFits(request[q], ticket, new) /\ request[q].phase # "building"
    BY <1>4, <1>10, <2>4, <2>5 DEF RequestFits, HandedPhase
  <2>7. Carried(r)
    BY <2>4, <2>5, <2>6 DEF Carried
  <2>8. InstallerStep(r, row)
    BY <1>1, <1>3, <1>10, <2>1, <2>2, <2>3 DEF InstallerStep, LocalState, HandedPhase
  <2> QED
    BY <2>7, <2>8, HandedMoves
<1> QED
  BY <1>6, <1>7, <1>8, <1>9, <1>10 DEF CallInstaller, InstallerWorks, PhaseOf

-----------------------------------------------------------------------------
\* Crashes and time.

LEMMA RestKeeps ==
  ASSUME AcquisitionInv, \/ CrashApiProcess \/ (\E t \in Tickets : HourPasses(t)) \/ (\E f \in Files : FileAges(f))
                         \/ \E dist \in {"available", "yanked", "revoked"} : ReleaseChanges(dist)
  PROVE  AcquisitionInv'
<1>1. CASE CrashApiProcess
  <2>1. request' = [r \in Requests |-> NoRequest] /\ UNCHANGED <<offer, localVersion, ticket, spool>>
    BY <1>1 DEF CrashApiProcess
  <2>2. RequestFits(NoRequest, ticket, localVersion) /\ NoRequest.phase \notin HandedPhase /\ NoRequest.phase # "building"
    BY NoRequestIs, PlainFits DEF PlainPhase
  <2>3. OneOfEach(request')
    BY <2>1, <2>2 DEF OneOfEach
  <2> QED
    BY <2>1, <2>2, <2>3 DEF AcquisitionInv
<1>2. ASSUME NEW t \in Tickets, HourPasses(t) PROVE AcquisitionInv'
  <2> DEFINE entry == [ticket[t] EXCEPT !.aged = TRUE]
             new == ticket'
  <2>1. ticket \in [Tickets -> TicketRow] /\ ticket[t] \in TicketRow /\ Bounded(ticket)
        /\ \A u \in Tickets : ticket[u].state = "installed" => Backed(u, ticket, localVersion)
    BY TicketRows DEF AcquisitionInv, TicketsFit
  <2>2. new = [ticket EXCEPT ![t] = entry] /\ ticket[t].state # "absent" /\ UNCHANGED <<offer, localVersion, spool, request>>
    BY <1>2 DEF HourPasses
  <2>3. entry \in TicketRow /\ entry.state = ticket[t].state /\ entry.aged
    BY <2>1 DEF TicketRow
  <2> HIDE DEF entry, new
  <2>4. new \in [Tickets -> TicketRow] /\ (\A u \in Tickets : new[u].state = ticket[u].state) /\ \A u \in Tickets : u # t => new[u] = ticket[u]
    BY <2>1, <2>2, <2>3
  <2>5. ASSUME NEW q \in Requests PROVE RequestFits(request[q], new, localVersion)
    <3>1. RequestFits(request[q], ticket, localVersion)
      BY DEF AcquisitionInv
    <3>2. request[q].ticket = t /\ request[q].phase \in HandedPhase => HeldBy(entry) /\ (entry.state = "installed" => localVersion = "active" \/ TRUE)
      BY <2>3, <3>1 DEF RequestFits, HeldBy
    <3>3. \A u \in Tickets : Backed(u, ticket, localVersion) => Backed(u, new, localVersion)
      BY <2>4 DEF Backed
    <3>4. request[q].phase \notin {"idle", "admitting"} => request[q].ticket \in Tickets
      BY <3>1 DEF RequestFits
    <3>5. \A u \in Tickets : HeldBy(ticket[u]) => HeldBy(new[u])
      BY <2>1, <2>2, <2>3, <2>4 DEF HeldBy
    <3>6. \A u \in Tickets : ticket[u].aged => new[u].aged
      BY <2>1, <2>2, <2>3, <2>4
    <3> QED
      BY <2>4, <3>1, <3>3, <3>4, <3>5, <3>6 DEF RequestFits, HandedPhase
  <2>6. \A u \in Tickets : new[u].state = "installed" => Backed(u, new, localVersion)
    BY <2>1, <2>4 DEF Backed
  <2>7. Bounded(new)
    <3>1. OpenIn(new) = OpenIn(ticket)
      BY <2>4 DEF OpenIn
    <3> QED
      BY <2>1, <3>1 DEF Bounded
  <2> QED
    BY <2>2, <2>4, <2>5, <2>6, <2>7 DEF AcquisitionInv, TicketsFit, new
<1>3. ASSUME NEW f \in Files, FileAges(f) PROVE AcquisitionInv'
  <2>1. spool' \in [Files -> FileState] /\ UNCHANGED <<offer, localVersion, ticket, request>>
    BY <1>3, TicketRows DEF FileAges, FileState
  <2> QED
    BY <2>1 DEF AcquisitionInv
<1>4. ASSUME NEW dist \in {"available", "yanked", "revoked"}, ReleaseChanges(dist) PROVE AcquisitionInv'
  <2>1. offer' \in [dist : DistState, revision : Nat] /\ UNCHANGED <<localVersion, ticket, spool, request>>
    BY <1>4 DEF ReleaseChanges, AcquisitionInv, DistState
  <2> QED
    BY <2>1 DEF AcquisitionInv
<1> QED
  BY <1>1, <1>2, <1>3, <1>4

LEMMA AcquisitionStep == AcquisitionInv /\ [AcquisitionNext]_acquisitionVars => AcquisitionInv'
<1> SUFFICES ASSUME AcquisitionInv, [AcquisitionNext]_acquisitionVars PROVE AcquisitionInv'
  OBVIOUS
<1>1. CASE UNCHANGED acquisitionVars
  BY <1>1 DEF AcquisitionInv, acquisitionVars
<1>2. ASSUME NEW r \in Requests, Preparing(r) PROVE AcquisitionInv'
  BY <1>2, ReadsKeep, PrepareKeeps DEF Preparing
<1>3. ASSUME NEW r \in Requests, HandingOff(r) PROVE AcquisitionInv'
  BY <1>3, ReadsKeep, HandOffKeeps, InstallerKeeps DEF HandingOff
<1> QED
  BY <1>1, <1>2, <1>3, BeginTicketKeeps, CommitCancelKeeps, InsertTicketKeeps, BeginCancelKeeps, RestKeeps DEF AcquisitionNext

\* One hand-off per ticket, and a version behind every settled one.
THEOREM AcquisitionInvariant == AcquisitionSpec => []AcquisitionInv
<1>1. AcquisitionInit => AcquisitionInv
  BY AcquisitionInitial
<1>2. AcquisitionInv /\ [AcquisitionNext]_acquisitionVars => AcquisitionInv'
  BY AcquisitionStep
<1> QED
  BY <1>1, <1>2, PTL DEF AcquisitionSpec

THEOREM AcquisitionSoundHolds == AcquisitionSpec => []AcquisitionSound
<1>1. ASSUME AcquisitionInv PROVE AcquisitionSound
  <2>1. AcquisitionTypeOK
    <3>1. \A t \in Tickets : ticket[t].state \in TicketState
      BY <1>1, TicketRows DEF TicketRow
    <3> QED
      BY <1>1, <3>1 DEF AcquisitionInv, AcquisitionTypeOK, LocalState, TicketState, FileState
  <2>2. OneHandOff
    BY <1>1 DEF AcquisitionInv, OneOfEach, OneHandOff, HandedOver, PhaseOf, TicketOf, HandedPhase
  <2>3. TicketsBounded
    <3>1. OpenTickets = OpenIn(ticket)
      BY DEF OpenTickets, OpenIn, OpenState
    <3> QED
      BY <1>1, <3>1 DEF AcquisitionInv, TicketsFit, Bounded, TicketsBounded
  <2>4. InstalledIsReal
    BY <1>1 DEF AcquisitionInv, TicketsFit, RequestFits, Backed, HeldBy, InstalledIsReal, HandedOver, PhaseOf, TicketOf, HandedPhase
  <2> QED
    BY <2>1, <2>2, <2>3, <2>4 DEF AcquisitionSound
<1> QED
  BY <1>1, AcquisitionInvariant, PTL

-----------------------------------------------------------------------------
(* Marketplace: who owns the project and which keys may sign for it.       *)

Roles == {"none", "owner", "maintainer", "publisher", "removed"}
GrantRow == [state : {"none", "active", "revoked"}, revision : Nat]
ProjectRow == [owner : Publishers, revision : 1..MaxOwnership, visible : BOOLEAN]
TransferRow == [state : {"absent", "pending", "accepted", "cancelled", "expired"}, source : Publishers \union {None},
                target : Publishers \union {None}, revision : Nat]

\* What one pair of publisher and key must satisfy.
GrantFits(p, row, owner, revision) == row \in GrantRow /\ (row.state = "active" => p = owner /\ row.revision = revision)
TransferFits(row) == row \in TransferRow /\ (row.state # "absent" => row.target \in Publishers)

OwnerInv ==
  /\ member \in [Publishers -> [People -> Roles]] /\ \A p \in Publishers : \E a \in People : Owns(a, p)
  /\ project \in ProjectRow
  /\ grant \in [Publishers -> [Keys -> GrantRow]]
  /\ \A p \in Publishers, k \in Keys : GrantFits(p, grant[p][k], project.owner, project.revision)
  /\ transfer \in [Transfers -> TransferRow] /\ \A t \in Transfers : TransferFits(transfer[t])

\* What ReleaseFixed says of an offer.
OfferKept == \A t \in Transfers : transfer'[t].state = "accepted" /\ transfer[t].state # "accepted" => transfer[t].revision = project.revision

LEMMA OwnerInitial == MarketplaceInit => OwnerInv
<1> SUFFICES ASSUME MarketplaceInit PROVE OwnerInv
  OBVIOUS
<1>1. project \in ProjectRow
  <2>1. project \in [owner : Publishers, revision : {1}, visible : {TRUE}]
    BY DEF MarketplaceInit
  <2>2. 1 \in 1..MaxOwnership
    BY MarketplaceAssumption
  <2> QED
    BY <2>1, <2>2 DEF ProjectRow
<1>2. transfer \in [Transfers -> TransferRow] /\ \A t \in Transfers : TransferFits(transfer[t])
  BY DEF MarketplaceInit, TransferFits, TransferRow, NoTransfer
<1>3. grant \in [Publishers -> [Keys -> GrantRow]]
  BY DEF MarketplaceInit, GrantRow
<1>4. \A p \in Publishers, k \in Keys : GrantFits(p, grant[p][k], project.owner, project.revision)
  BY DEF MarketplaceInit, GrantFits, GrantRow
<1>5. member \in [Publishers -> [People -> Roles]] /\ \A p \in Publishers : \E a \in People : Owns(a, p)
  BY DEF MarketplaceInit, Roles
<1> QED
  BY <1>1, <1>2, <1>3, <1>4, <1>5 DEF OwnerInv

\* An offer moves to another state, its terms kept.
LEMMA TransferMoves ==
  ASSUME OwnerInv, NEW t \in Transfers, NEW state \in {"cancelled", "expired"}, transfer[t].state = "pending",
         transfer' = [transfer EXCEPT ![t].state = state]
  PROVE  transfer' \in [Transfers -> TransferRow] /\ (\A u \in Transfers : TransferFits(transfer'[u])) /\ OfferKept
<1> DEFINE row == [transfer[t] EXCEPT !.state = state]
<1>1. transfer[t] \in TransferRow /\ transfer[t].target \in Publishers
  BY DEF OwnerInv, TransferFits
<1>2. row \in TransferRow /\ row.target = transfer[t].target /\ row.state = state
  BY <1>1 DEF TransferRow
<1>3. transfer' = [transfer EXCEPT ![t] = row]
  OBVIOUS
<1> HIDE DEF row
<1> QED
  BY <1>1, <1>2, <1>3 DEF OwnerInv, TransferFits, OfferKept

LEMMA ManagingKeeps ==
  ASSUME OwnerInv, Managing
  PROVE  OwnerInv' /\ OfferKept /\ UNCHANGED publicationVars
<1>1. ASSUME NEW p \in Publishers, NEW actor \in People, NEW a \in People, NEW role \in {"owner", "maintainer", "publisher", "removed"},
             Membership(actor, p, a, role)
      PROVE  OwnerInv' /\ OfferKept /\ UNCHANGED publicationVars
  <2>1. member' = [member EXCEPT ![p][a] = role] /\ UNCHANGED <<project, grant, transfer>> /\ UNCHANGED publicationVars
        /\ ~LastOwner(p, a, role)
    BY <1>1 DEF Membership, publicationVars
  <2>2. member' \in [Publishers -> [People -> Roles]]
    BY <2>1 DEF OwnerInv, Roles
  <2>3. \A q \in Publishers : q # p => \E b \in People : member'[q][b] = "owner"
    BY <2>1 DEF OwnerInv, Owns
  <2>4. \E b \in People : member'[p][b] = "owner"
    <3>1. CASE role = "owner"
      BY <3>1, <2>1 DEF OwnerInv
    <3>2. CASE role # "owner" /\ ~Owns(a, p)
      <4>1. PICK b \in People : Owns(b, p)
        BY DEF OwnerInv
      <4>2. b # a
        BY <4>1, <3>2
      <4> QED
        BY <4>1, <4>2, <2>1 DEF OwnerInv, Owns
    <3>3. CASE role # "owner" /\ Owns(a, p)
      <4>1. PICK b \in People \ {a} : Owns(b, p)
        BY <2>1, <3>3 DEF LastOwner
      <4> QED
        BY <4>1, <2>1 DEF OwnerInv, Owns
    <3> QED
      BY <3>1, <3>2, <3>3
  <2>5. \A q \in Publishers : \E b \in People : Owns(b, q)'
    BY <2>3, <2>4 DEF Owns
  <2> QED
    BY <2>1, <2>2, <2>5 DEF OwnerInv, OfferKept
<1>2. ASSUME NEW p \in Publishers, NEW state \in {"active", "suspended"}, Moderate(p, state)
      PROVE  OwnerInv' /\ OfferKept /\ UNCHANGED publicationVars
  <2>1. UNCHANGED <<member, grant, transfer>> /\ UNCHANGED publicationVars
        /\ (project' = project \/ project' = [project EXCEPT !.visible = (state = "active")])
    BY <1>2 DEF Moderate, publicationVars
  <2>2. project' \in ProjectRow /\ project'.owner = project.owner /\ project'.revision = project.revision
    BY <2>1 DEF OwnerInv, ProjectRow
  <2> QED
    BY <2>1, <2>2 DEF OwnerInv, Owns, OfferKept
<1>3. ASSUME UNCHANGED <<member, project, grant, transfer>>, UNCHANGED publicationVars
      PROVE  OwnerInv' /\ OfferKept /\ UNCHANGED publicationVars
  BY <1>3 DEF OwnerInv, Owns, OfferKept
<1>4. ASSUME NEW actor \in People, NEW k \in Keys, AuthorizeKey(actor, k)
      PROVE  OwnerInv' /\ OfferKept /\ UNCHANGED publicationVars
  <2> DEFINE p == project.owner
             row == [state |-> "active", revision |-> project.revision]
  <2>1. grant' = [grant EXCEPT ![p][k] = row] /\ UNCHANGED <<member, project, transfer>> /\ UNCHANGED publicationVars
    BY <1>4 DEF AuthorizeKey, publicationVars
  <2>2. GrantFits(p, row, project.owner, project.revision) /\ row \in GrantRow /\ p \in Publishers
    BY MarketplaceAssumption DEF GrantFits, GrantRow, OwnerInv, ProjectRow
  <2> HIDE DEF row
  <2>3. grant' \in [Publishers -> [Keys -> GrantRow]]
    BY <2>1, <2>2 DEF OwnerInv
  <2>4. \A q \in Publishers, j \in Keys : grant'[q][j] = IF q = p /\ j = k THEN row ELSE grant[q][j]
    BY <2>1, <2>2 DEF OwnerInv
  <2>5. \A q \in Publishers, j \in Keys : GrantFits(q, grant'[q][j], project'.owner, project'.revision)
    BY <2>1, <2>2, <2>4 DEF OwnerInv
  <2> QED
    BY <2>1, <2>3, <2>5 DEF OwnerInv, Owns, OfferKept
<1>5. ASSUME NEW actor \in People, NEW t \in Transfers, NEW p \in Publishers, RequestTransfer(actor, t, p)
      PROVE  OwnerInv' /\ OfferKept /\ UNCHANGED publicationVars
  <2> DEFINE row == [state |-> "pending", source |-> project.owner, target |-> p, revision |-> project.revision]
  <2>1. transfer' = [transfer EXCEPT ![t] = row] /\ UNCHANGED <<member, project, grant>> /\ UNCHANGED publicationVars
    BY <1>5 DEF RequestTransfer, publicationVars
  <2>2. TransferFits(row) /\ row \in TransferRow /\ row.state = "pending"
    BY MarketplaceAssumption DEF TransferFits, TransferRow, OwnerInv, ProjectRow
  <2> HIDE DEF row
  <2>3. transfer' \in [Transfers -> TransferRow] /\ (\A u \in Transfers : TransferFits(transfer'[u])) /\ OfferKept
    BY <2>1, <2>2 DEF OwnerInv, OfferKept
  <2> QED
    BY <2>1, <2>3 DEF OwnerInv, Owns
<1>6. ASSUME NEW actor \in People, NEW t \in Transfers, AcceptTransfer(actor, t)
      PROVE  OwnerInv' /\ OfferKept /\ UNCHANGED publicationVars
  <2> DEFINE row == [transfer[t] EXCEPT !.state = "accepted"]
  <2>1. /\ transfer' = [transfer EXCEPT ![t] = row] /\ transfer[t].state = "pending"
        /\ project' = [project EXCEPT !.owner = transfer[t].target, !.revision = project.revision + 1]
        /\ grant' = GrantsRevoked /\ project.revision < MaxOwnership /\ transfer[t].revision = project.revision
        /\ UNCHANGED member /\ UNCHANGED publicationVars
    BY <1>6 DEF AcceptTransfer, StillOffered, publicationVars
  <2>2. transfer[t] \in TransferRow /\ transfer[t].target \in Publishers
    BY <2>1 DEF OwnerInv, TransferFits
  <2>3. TransferFits(row) /\ row \in TransferRow
    BY <2>2 DEF TransferFits, TransferRow
  <2> HIDE DEF row
  <2>4. transfer' \in [Transfers -> TransferRow] /\ (\A u \in Transfers : TransferFits(transfer'[u])) /\ OfferKept
    BY <2>1, <2>3 DEF OwnerInv, OfferKept
  <2>5. project' \in ProjectRow
    <3>1. project.revision \in Nat /\ project.revision + 1 \in 1..MaxOwnership
      BY <2>1, MarketplaceAssumption DEF OwnerInv, ProjectRow
    <3>2. ASSUME NEW old \in ProjectRow, NEW owner \in Publishers, NEW n \in 1..MaxOwnership
          PROVE  [old EXCEPT !.owner = owner, !.revision = n] \in ProjectRow
      BY DEF ProjectRow
    <3> QED
      BY <2>1, <2>2, <3>1, <3>2 DEF OwnerInv
  <2>6. \A p \in Publishers, k \in Keys : grant'[p][k] \in GrantRow /\ grant'[p][k].state # "active"
    <3>1. \A p \in Publishers, k \in Keys : grant[p][k] \in GrantRow
      BY DEF OwnerInv
    <3>2. ASSUME NEW old \in GrantRow
          PROVE  [old EXCEPT !.state = "revoked"] \in GrantRow /\ [old EXCEPT !.state = "revoked"].state = "revoked"
      BY DEF GrantRow
    <3>3. \A p \in Publishers, k \in Keys : grant'[p][k] = IF grant[p][k].state = "active" THEN [grant[p][k] EXCEPT !.state = "revoked"] ELSE grant[p][k]
      BY <2>1 DEF GrantsRevoked
    <3> QED
      BY <3>1, <3>2, <3>3
  <2>7. grant' \in [Publishers -> [Keys -> GrantRow]]
    BY <2>1, <2>6 DEF GrantsRevoked
  <2> QED
    BY <2>1, <2>4, <2>5, <2>6, <2>7 DEF OwnerInv, Owns, GrantFits
<1>7. ASSUME NEW actor \in People, NEW t \in Transfers, CancelTransfer(actor, t)
      PROVE  OwnerInv' /\ OfferKept /\ UNCHANGED publicationVars
  <2>1. transfer' = [transfer EXCEPT ![t].state = "cancelled"] /\ transfer[t].state = "pending"
        /\ UNCHANGED <<member, project, grant>> /\ UNCHANGED publicationVars
    BY <1>7 DEF CancelTransfer, publicationVars
  <2> QED
    BY <2>1, TransferMoves DEF OwnerInv, Owns
<1>8. ASSUME NEW t \in Transfers, ExpireTransfer(t)
      PROVE  OwnerInv' /\ OfferKept /\ UNCHANGED publicationVars
  <2>1. transfer' = [transfer EXCEPT ![t].state = "expired"] /\ transfer[t].state = "pending"
        /\ UNCHANGED <<member, project, grant>> /\ UNCHANGED publicationVars
    BY <1>8 DEF ExpireTransfer, publicationVars
  <2> QED
    BY <2>1, TransferMoves DEF OwnerInv, Owns
<1>9. ASSUME NEW p \in Publishers, NEW actor \in People, NEW k \in Keys,
             Challenge(actor, p, k) \/ Prove(actor, p, k) \/ \E state \in {"retired", "revoked"} : KeyState(actor, p, k, state)
      PROVE  OwnerInv' /\ OfferKept /\ UNCHANGED publicationVars
  BY <1>3, <1>9 DEF Challenge, Prove, KeyState, publicationVars
<1>10. ASSUME NEW a \in People, DisableAccount(a)
       PROVE  OwnerInv' /\ OfferKept /\ UNCHANGED publicationVars
  BY <1>3, <1>10 DEF DisableAccount, publicationVars
<1> QED
  BY <1>1, <1>2, <1>4, <1>5, <1>6, <1>7, <1>8, <1>9, <1>10 DEF Managing

-----------------------------------------------------------------------------
(* Marketplace: from an upload to a release.                               *)

UploadRow == [state : {"absent", "uploading", "uploaded", "verifying", "verified"}, actor : People \union {None},
              publisher : Publishers \union {None}, revision : Nat, archive : Archives \union {None}, token : Receivers \union {None},
              receiving : BOOLEAN, generation : Nat, lease : Verifiers \union {None}, live : BOOLEAN, attempts : 0..MaxAttempts,
              expired : BOOLEAN]
ReleaseRow == [publication : {"absent", "ready", "published"}, distribution : {"available", "yanked", "revoked"},
               archive : Archives \union {None}, publisher : Publishers \union {None}, status : Nat]
GateRow == [upload : Uploads \union {None}, generation : Nat, live : BOOLEAN]
ReceiverRow == [phase : {"idle", "streaming", "stored"}, upload : Uploads \union {None}]
VerifierRow == [phase : {"idle", "verifying", "finalized", "reserved", "failing", "closing"}, upload : Uploads \union {None}, generation : Nat]
Shelf == [quarantined : SUBSET Uploads, final : SUBSET Archives]

PublicationTypes ==
  /\ upload \in [Uploads -> UploadRow] /\ release \in [ReleaseVersions -> ReleaseRow] /\ gate \in GateRow
  /\ receiver \in [Receivers -> ReceiverRow] /\ verifier \in [Verifiers -> VerifierRow] /\ shelf \in Shelf

\* An upload by itself, and against the shelf and the releases.
UploadFits(row) ==
  /\ row.state = "absent" => row = NoUpload
  /\ row.state # "absent" => row.archive \in Archives
  /\ row.live => row.lease # None
  /\ row.token # None => row.state = "uploading"
UploadBacked(u, row, quarantined, rel) ==
  /\ row.state \in {"uploaded", "verifying"} => u \in quarantined
  /\ row.state = "verified" => rel[VersionOf[row.archive]].archive = row.archive
ReleaseFits(row, final) ==
  /\ row.publication = "absent" => row = NoRelease
  /\ row.publication # "absent" => row.archive \in final \ Defective
\* A request knows its upload, whatever has happened to it since.
ReceiverFits(row, ups, quarantined) ==
  row.phase # "idle" =>
     /\ row.upload \in Uploads /\ ups[row.upload].state # "absent"
     /\ row.phase = "stored" /\ ups[row.upload].state = "uploading" => row.upload \in quarantined
VerifierFits(row, ups, final) ==
  row.phase # "idle" =>
     /\ row.upload \in Uploads /\ ups[row.upload].state \notin {"absent", "uploading"} /\ row.generation <= ups[row.upload].generation
     /\ row.phase = "finalized" => ups[row.upload].archive \in final \ Defective
     /\ row.phase = "reserved" => ups[row.upload].state = "verified"
\* No two verifications have one upload and one generation.
Apart(one, other) == one.phase # "idle" /\ other.phase # "idle" /\ one.upload = other.upload => one.generation # other.generation
\* A verification that holds its lease has the gate, and its expiry with it.
WorkOf(v, row, ups) ==
  /\ row.phase \in {"verifying", "finalized"} /\ ups[row.upload].lease = v /\ ups[row.upload].generation = row.generation
  /\ ups[row.upload].state = "verifying" /\ ups[row.upload].live
Admitted(row, g) == g.upload = row.upload /\ g.generation = row.generation /\ g.live

UploadsInv == \A u \in Uploads : UploadFits(upload[u]) /\ UploadBacked(u, upload[u], shelf.quarantined, release)
ReleasesInv == \A n \in ReleaseVersions : ReleaseFits(release[n], shelf.final)
ReceiversInv == \A r \in Receivers : ReceiverFits(receiver[r], upload, shelf.quarantined)
VerifiersInv ==
  /\ \A v \in Verifiers : VerifierFits(verifier[v], upload, shelf.final)
  /\ \A v, w \in Verifiers : v # w => Apart(verifier[v], verifier[w])
AdmissionInv == \A v \in Verifiers : WorkOf(v, verifier[v], upload) => Admitted(verifier[v], gate)

PublicationInv == PublicationTypes /\ UploadsInv /\ ReleasesInv /\ ReceiversInv /\ VerifiersInv /\ AdmissionInv
MarketInv == OwnerInv /\ PublicationInv

\* What ReleaseFixed says of a step of the publication.
ReleaseKept ==
  /\ \A n \in ReleaseVersions : release[n].publication # "absent" =>
        release'[n].archive = release[n].archive /\ release'[n].publisher = release[n].publisher /\ release'[n].publication # "absent"
  /\ \A n \in ReleaseVersions : release[n].distribution = "revoked" => release'[n].distribution = "revoked"
VerifiedKept ==
  \A u \in Uploads : upload'[u].state = "verified" /\ upload[u].state # "verified" =>
     upload[u].revision = project.revision /\ \E v \in Verifiers : verifier[v].upload = u /\ verifier[v].generation = upload[u].generation
                                                                    /\ verifier'[v].phase = "reserved"

LEMMA PublicationInitial == MarketplaceInit => PublicationInv
<1> SUFFICES ASSUME MarketplaceInit PROVE PublicationInv
  OBVIOUS
<1>1. /\ NoUpload \in UploadRow /\ NoRelease \in ReleaseRow /\ FreeGate \in GateRow /\ IdleReceiver \in ReceiverRow
      /\ IdleVerifier \in VerifierRow /\ [quarantined |-> {}, final |-> {}] \in Shelf
  BY MarketplaceAssumption DEF NoUpload, UploadRow, NoRelease, ReleaseRow, FreeGate, GateRow, IdleReceiver, ReceiverRow, IdleVerifier, VerifierRow, Shelf
<1>2. PublicationTypes
  BY <1>1 DEF MarketplaceInit, PublicationTypes
<1>3. UploadsInv
  BY DEF MarketplaceInit, UploadsInv, UploadFits, UploadBacked, NoUpload
<1>4. ReleasesInv
  BY DEF MarketplaceInit, ReleasesInv, ReleaseFits, NoRelease
<1>5. ReceiversInv /\ VerifiersInv /\ AdmissionInv
  BY DEF MarketplaceInit, ReceiversInv, VerifiersInv, AdmissionInv, ReceiverFits, VerifierFits, Apart, WorkOf, IdleReceiver, IdleVerifier
<1> QED
  BY <1>2, <1>3, <1>4, <1>5 DEF PublicationInv

\* How one upload may change: its archive is fixed, verified is final, only an
\* absent one becomes one that uploads, and generations grow.
RowMoves(old, new) ==
  /\ old.state # "absent" => new.state # "absent" /\ new.archive = old.archive
  /\ old.state = "verified" => new.state = "verified"
  /\ new.state = "uploading" => old.state \in {"absent", "uploading"}
  /\ old.generation <= new.generation
\* The same, its lease left alone.
Rests(old, new) ==
  RowMoves(old, new) /\ new.generation = old.generation /\ new.lease = old.lease /\ new.live = old.live
  /\ (new.state \in {"verifying", "verified"} => old.state = new.state)
LEMMA MovesReflexive == ASSUME NEW row \in UploadRow PROVE RowMoves(row, row) /\ Rests(row, row)
BY DEF RowMoves, Rests, UploadRow

LEMMA UploadReplaced ==
  ASSUME NEW ups \in [Uploads -> UploadRow], NEW u \in Uploads, NEW row \in UploadRow, NEW new, new = [ups EXCEPT ![u] = row]
  PROVE  /\ new \in [Uploads -> UploadRow] /\ new[u] = row /\ \A x \in Uploads : x # u => new[x] = ups[x]
         /\ RowMoves(ups[u], row) => \A x \in Uploads : RowMoves(ups[x], new[x])
         /\ Rests(ups[u], row) => \A x \in Uploads : Rests(ups[x], new[x])
BY MovesReflexive

LEMMA ReceiverKept ==
  ASSUME NEW row, NEW ups, NEW new, \A x \in Uploads : RowMoves(ups[x], new[x]), NEW q, NEW r,
         \A x \in q : x \in r \/ new[x].state = "verified", ReceiverFits(row, ups, q)
  PROVE  ReceiverFits(row, new, r)
BY DEF ReceiverFits, RowMoves
LEMMA VerifierKept ==
  ASSUME NEW row \in VerifierRow, NEW ups \in [Uploads -> UploadRow], NEW new \in [Uploads -> UploadRow],
         \A x \in Uploads : RowMoves(ups[x], new[x]), NEW f, NEW g, f \subseteq g, VerifierFits(row, ups, f)
  PROVE  VerifierFits(row, new, g)
BY DEF VerifierFits, RowMoves, UploadRow, VerifierRow

\* What a step of uploading has to show: the verifications do not see it.
LEMMA ReceivingFits ==
  ASSUME PublicationInv, UNCHANGED <<gate, release, verifier>>,
         upload' \in [Uploads -> UploadRow], \A x \in Uploads : Rests(upload[x], upload'[x]),
         \A x \in Uploads : UploadFits(upload'[x]) /\ UploadBacked(x, upload'[x], shelf'.quarantined, release),
         shelf' \in Shelf, shelf'.final = shelf.final,
         receiver' \in [Receivers -> ReceiverRow], \A r \in Receivers : ReceiverFits(receiver'[r], upload', shelf'.quarantined)
  PROVE  PublicationInv' /\ ReleaseKept /\ VerifiedKept
<1>1. \A x \in Uploads : RowMoves(upload[x], upload'[x])
  BY DEF Rests
<1>2. PublicationTypes'
  BY DEF PublicationInv, PublicationTypes
<1>3. UploadsInv'
  BY DEF UploadsInv
<1>4. ReleasesInv' /\ ReceiversInv'
  BY DEF PublicationInv, ReleasesInv, ReceiversInv
<1>5. VerifiersInv'
  <2>1. \A v \in Verifiers : VerifierFits(verifier[v], upload', shelf.final)
    BY <1>1, VerifierKept DEF PublicationInv, PublicationTypes, VerifiersInv
  <2> QED
    BY <2>1 DEF PublicationInv, VerifiersInv
<1>6. AdmissionInv'
  <2>1. ASSUME NEW v \in Verifiers, WorkOf(v, verifier[v], upload') PROVE Admitted(verifier[v], gate)
    <3>1. verifier[v].upload \in Uploads
      BY <2>1 DEF PublicationInv, VerifiersInv, VerifierFits, WorkOf
    <3>2. WorkOf(v, verifier[v], upload)
      BY <2>1, <3>1 DEF WorkOf, Rests
    <3> QED
      BY <3>2 DEF PublicationInv, AdmissionInv
  <2> QED
    BY <2>1 DEF AdmissionInv
<1>7. ReleaseKept
  BY DEF ReleaseKept
<1>8. VerifiedKept
  BY DEF VerifiedKept, Rests
<1> QED
  BY <1>2, <1>3, <1>4, <1>5, <1>6, <1>7, <1>8 DEF PublicationInv

\* One upload is written, and what the shelf holds stays.
LEMMA UploadWritten ==
  ASSUME PublicationInv, UNCHANGED <<gate, release, verifier, shelf>>, NEW u \in Uploads, NEW row \in UploadRow,
         upload' = [upload EXCEPT ![u] = row], Rests(upload[u], row), UploadFits(row), UploadBacked(u, row, shelf.quarantined, release),
         receiver' \in [Receivers -> ReceiverRow],
         \A r \in Receivers : receiver'[r] = receiver[r] \/ ReceiverFits(receiver'[r], upload', shelf.quarantined)
  PROVE  PublicationInv' /\ ReleaseKept /\ VerifiedKept
<1>1. /\ upload' \in [Uploads -> UploadRow] /\ upload'[u] = row /\ \A x \in Uploads : x # u => upload'[x] = upload[x]
      /\ \A x \in Uploads : Rests(upload[x], upload'[x])
  <2> DEFINE new == upload'
  <2> HIDE DEF new
  <2>1. new = [upload EXCEPT ![u] = row]
    BY DEF new
  <2>2. upload \in [Uploads -> UploadRow]
    BY DEF PublicationInv, PublicationTypes
  <2>3. /\ new \in [Uploads -> UploadRow] /\ new[u] = row /\ \A x \in Uploads : x # u => new[x] = upload[x]
        /\ \A x \in Uploads : Rests(upload[x], new[x])
    BY <2>1, <2>2, UploadReplaced
  <2> QED
    BY <2>3 DEF new
<1>2. \A x \in Uploads : UploadFits(upload'[x]) /\ UploadBacked(x, upload'[x], shelf'.quarantined, release)
  BY <1>1 DEF PublicationInv, UploadsInv
<1>3. \A r \in Receivers : ReceiverFits(receiver'[r], upload', shelf'.quarantined)
  <2>1. \A x \in Uploads : RowMoves(upload[x], upload'[x])
    BY <1>1 DEF Rests
  <2>2. \A r \in Receivers : ReceiverFits(receiver[r], upload', shelf.quarantined)
    BY <2>1, ReceiverKept DEF PublicationInv, ReceiversInv
  <2> QED
    BY <2>2
<1> QED
  BY <1>1, <1>2, <1>3, ReceivingFits DEF PublicationInv, PublicationTypes

\* An upload whose state, archive and lease stay is backed as before.
Same(old, new) == new.state = old.state /\ new.archive = old.archive
LEMMA SameBacked ==
  ASSUME NEW u, NEW old, NEW new, Same(old, new), NEW q, NEW rel, UploadBacked(u, old, q, rel) PROVE UploadBacked(u, new, q, rel)
BY DEF Same, UploadBacked
LEMMA TokenRow ==
  ASSUME NEW old \in UploadRow, UploadFits(old), NEW token \in Receivers \union {None}, NEW receiving \in BOOLEAN,
         old.state = "uploading" \/ (token = None /\ old.state # "absent")
  PROVE  LET row == [old EXCEPT !.token = token, !.receiving = receiving]
         IN  row \in UploadRow /\ UploadFits(row) /\ Rests(old, row) /\ Same(old, row)
<1> DEFINE row == [old EXCEPT !.token = token, !.receiving = receiving]
<1>1. row \in UploadRow
  BY DEF UploadRow
<1>2. /\ row.state = old.state /\ row.archive = old.archive /\ row.generation = old.generation /\ row.lease = old.lease /\ row.live = old.live
      /\ row.token = token /\ row.receiving = receiving
      /\ old.generation \in Nat
  BY DEF UploadRow
<1> HIDE DEF row
<1>3. row \in UploadRow /\ UploadFits(row) /\ Rests(old, row) /\ Same(old, row)
  BY <1>1, <1>2 DEF UploadFits, Rests, RowMoves, Same
<1> QED
  BY <1>3 DEF row
LEMMA ReceivingRow ==
  ASSUME NEW old \in UploadRow, UploadFits(old), old.state # "absent"
  PROVE  LET row == [old EXCEPT !.receiving = FALSE]
         IN  row \in UploadRow /\ UploadFits(row) /\ Rests(old, row) /\ Same(old, row)
<1> DEFINE row == [old EXCEPT !.receiving = FALSE]
<1>1. row \in UploadRow
  BY DEF UploadRow
<1>2. /\ row.state = old.state /\ row.archive = old.archive /\ row.token = old.token /\ row.generation = old.generation /\ row.lease = old.lease /\ row.live = old.live
      /\ row.receiving = FALSE
      /\ old.generation \in Nat
  BY DEF UploadRow
<1> HIDE DEF row
<1>3. row \in UploadRow /\ UploadFits(row) /\ Rests(old, row) /\ Same(old, row)
  BY <1>1, <1>2 DEF UploadFits, Rests, RowMoves, Same
<1> QED
  BY <1>3 DEF row
LEMMA ExpiredRow ==
  ASSUME NEW old \in UploadRow, UploadFits(old), old.state # "absent"
  PROVE  LET row == [old EXCEPT !.expired = TRUE]
         IN  row \in UploadRow /\ UploadFits(row) /\ Rests(old, row) /\ Same(old, row)
<1> DEFINE row == [old EXCEPT !.expired = TRUE]
<1>1. row \in UploadRow
  BY DEF UploadRow
<1>2. /\ row.state = old.state /\ row.archive = old.archive /\ row.token = old.token /\ row.generation = old.generation /\ row.lease = old.lease /\ row.live = old.live
      /\ row.expired = TRUE
      /\ old.generation \in Nat
  BY DEF UploadRow
<1> HIDE DEF row
<1>3. row \in UploadRow /\ UploadFits(row) /\ Rests(old, row) /\ Same(old, row)
  BY <1>1, <1>2 DEF UploadFits, Rests, RowMoves, Same
<1> QED
  BY <1>3 DEF row
LEMMA UploadedRow ==
  ASSUME NEW old \in UploadRow, UploadFits(old), old.state = "uploading"
  PROVE  LET row == [old EXCEPT !.state = "uploaded", !.token = None, !.receiving = FALSE]
         IN  row \in UploadRow /\ UploadFits(row) /\ Rests(old, row) /\ row.state = "uploaded"
<1> DEFINE row == [old EXCEPT !.state = "uploaded", !.token = None, !.receiving = FALSE]
<1>1. row \in UploadRow
  BY DEF UploadRow
<1>2. /\ row.archive = old.archive /\ row.generation = old.generation /\ row.lease = old.lease /\ row.live = old.live
      /\ row.state = "uploaded" /\ row.token = None /\ row.receiving = FALSE
      /\ old.generation \in Nat
  BY DEF UploadRow
<1> HIDE DEF row
<1>3. row \in UploadRow /\ UploadFits(row) /\ Rests(old, row) /\ row.state = "uploaded"
  BY <1>1, <1>2 DEF UploadFits, Rests, RowMoves
<1> QED
  BY <1>3 DEF row

LEMMA ReceivingKeeps ==
  ASSUME OwnerInv, PublicationInv, Receiving, \A u \in Uploads : ~LeaseExpires(u)
  PROVE  PublicationInv' /\ ReleaseKept /\ VerifiedKept /\ UNCHANGED ownershipVars
<1>t. /\ upload \in [Uploads -> UploadRow] /\ receiver \in [Receivers -> ReceiverRow]
      /\ \A u \in Uploads : upload[u] \in UploadRow /\ UploadFits(upload[u]) /\ UploadBacked(u, upload[u], shelf.quarantined, release)
  BY DEF PublicationInv, PublicationTypes, UploadsInv
<1>1. ASSUME NEW a \in People, NEW u \in Uploads, NEW archive \in Archives, CreateUpload(a, u, archive)
      PROVE  PublicationInv' /\ ReleaseKept /\ VerifiedKept /\ UNCHANGED ownershipVars
  <2> DEFINE row == [NoUpload EXCEPT !.state = "uploading", !.actor = a, !.publisher = project.owner,
                                     !.revision = project.revision, !.archive = archive]
  <2>1. upload' = [upload EXCEPT ![u] = row] /\ UNCHANGED <<gate, shelf, release, receiver, verifier>> /\ UNCHANGED ownershipVars
        /\ upload[u].state = "absent"
    BY <1>1 DEF CreateUpload, SetUpload
  <2>2. upload[u] = NoUpload
    BY <2>1, <1>t DEF UploadFits
  <2>3. project.owner \in Publishers /\ project.revision \in Nat
    BY MarketplaceAssumption DEF OwnerInv, ProjectRow
  <2>4. row \in UploadRow /\ UploadFits(row) /\ Rests(NoUpload, row) /\ row.state = "uploading"
    <3>1. NoUpload \in UploadRow /\ NoUpload.state = "absent" /\ NoUpload.token = None /\ ~NoUpload.live
      <4>1. 0 \in 0..MaxAttempts
        BY MarketplaceAssumption
      <4> QED
        BY <4>1 DEF NoUpload, UploadRow
    <3>2. row \in UploadRow
      BY <2>3, <3>1 DEF UploadRow
    <3>3. /\ row.state = "uploading" /\ row.archive = archive /\ row.token = NoUpload.token /\ row.generation = NoUpload.generation
          /\ row.lease = NoUpload.lease /\ row.live = NoUpload.live /\ NoUpload.generation \in Nat
      BY <3>1 DEF UploadRow
    <3> HIDE DEF row
    <3> QED
      BY <3>1, <3>2, <3>3 DEF UploadFits, Rests, RowMoves
  <2> HIDE DEF row
  <2>5. UploadBacked(u, row, shelf.quarantined, release)
    BY <2>4 DEF UploadBacked
  <2> QED
    BY <1>t, <2>1, <2>2, <2>4, <2>5, UploadWritten
<1>2. ASSUME NEW u \in Uploads, ExpireUpload(u) \/ UploadTokenExpires(u)
      PROVE  PublicationInv' /\ ReleaseKept /\ VerifiedKept /\ UNCHANGED ownershipVars
  <2>1. PICK row : /\ row = [upload[u] EXCEPT !.expired = TRUE] \/ row = [upload[u] EXCEPT !.receiving = FALSE]
                   /\ upload' = [upload EXCEPT ![u] = row]
    BY <1>2 DEF ExpireUpload, UploadTokenExpires, SetUpload
  <2>2. upload[u].state # "absent" /\ UNCHANGED <<gate, shelf, release, receiver, verifier>> /\ UNCHANGED ownershipVars
    BY <1>2, <1>t DEF ExpireUpload, UploadTokenExpires, UploadFits, NoUpload
  <2>3. row \in UploadRow /\ UploadFits(row) /\ Rests(upload[u], row) /\ Same(upload[u], row)
    BY <1>t, <2>1, <2>2, ExpiredRow, ReceivingRow
  <2> QED
    BY <1>t, <2>1, <2>2, <2>3, SameBacked, UploadWritten
<1>3. ASSUME NEW r \in Receivers, NEW u \in Uploads, BeginReceive(r, u)
      PROVE  PublicationInv' /\ ReleaseKept /\ VerifiedKept /\ UNCHANGED ownershipVars
  <2> DEFINE row == [upload[u] EXCEPT !.token = r, !.receiving = TRUE]
             rec == [phase |-> "streaming", upload |-> u]
  <2>1. upload' = [upload EXCEPT ![u] = row] /\ receiver' = [receiver EXCEPT ![r] = rec] /\ upload[u].state = "uploading"
        /\ UNCHANGED <<gate, shelf, release, verifier>> /\ UNCHANGED ownershipVars
    BY <1>3 DEF BeginReceive, SetUpload
  <2>2. row \in UploadRow /\ UploadFits(row) /\ Rests(upload[u], row) /\ Same(upload[u], row)
    BY <1>t, <2>1, TokenRow
  <2>3. upload'[u].state # "absent"
    BY <1>t, <2>1, <2>2 DEF Same
  <2>4. rec \in ReceiverRow /\ ReceiverFits(rec, upload', shelf.quarantined)
    BY <2>3 DEF ReceiverRow, ReceiverFits
  <2> HIDE DEF row, rec
  <2>5. receiver' \in [Receivers -> ReceiverRow] /\ \A q \in Receivers : receiver'[q] = receiver[q] \/ ReceiverFits(receiver'[q], upload', shelf.quarantined)
    BY <1>t, <2>1, <2>4
  <2> QED
    BY <1>t, <2>1, <2>2, <2>5, SameBacked, UploadWritten
<1>4. ASSUME NEW r \in Receivers, Quarantine(r)
      PROVE  PublicationInv' /\ ReleaseKept /\ VerifiedKept /\ UNCHANGED ownershipVars
  <2> DEFINE rec == [receiver[r] EXCEPT !.phase = "stored"]
             q == shelf.quarantined \union {receiver[r].upload}
  <2>1. /\ receiver' = [receiver EXCEPT ![r] = rec] /\ shelf' = [shelf EXCEPT !.quarantined = q] /\ receiver[r].phase = "streaming"
        /\ UNCHANGED <<upload, gate, release, verifier>> /\ UNCHANGED ownershipVars
    BY <1>4 DEF Quarantine
  <2>2. receiver[r].upload \in Uploads /\ upload[receiver[r].upload].state # "absent" /\ receiver[r] \in ReceiverRow
    BY <1>t, <2>1 DEF PublicationInv, ReceiversInv, ReceiverFits
  <2>3. shelf' \in Shelf /\ shelf'.quarantined = q /\ shelf'.final = shelf.final
    BY <2>1, <2>2 DEF PublicationInv, PublicationTypes, Shelf
  <2>4. rec \in ReceiverRow /\ rec.upload = receiver[r].upload
    BY <2>2 DEF ReceiverRow
  <2>5. ReceiverFits(rec, upload, q)
    BY <2>2, <2>4 DEF ReceiverFits
  <2>6. \A x \in Uploads : RowMoves(upload[x], upload[x]) /\ Rests(upload[x], upload[x])
    BY <1>t, MovesReflexive
  <2>7. \A s \in Receivers : ReceiverFits(receiver[s], upload, q)
    BY <2>6, ReceiverKept DEF PublicationInv, ReceiversInv
  <2> HIDE DEF rec
  <2>8. receiver' \in [Receivers -> ReceiverRow] /\ \A s \in Receivers : ReceiverFits(receiver'[s], upload', shelf'.quarantined)
    BY <1>t, <2>1, <2>3, <2>4, <2>5, <2>7
  <2>9. \A x \in Uploads : UploadBacked(x, upload[x], q, release)
    BY <1>t DEF UploadBacked
  <2> QED
    BY <1>t, <2>1, <2>3, <2>6, <2>8, <2>9, ReceivingFits
<1>5. ASSUME NEW r \in Receivers, FinishReceive(r) \/ BreakReceive(r)
      PROVE  PublicationInv' /\ ReleaseKept /\ VerifiedKept /\ UNCHANGED ownershipVars
  <2> DEFINE u == receiver[r].upload
             back == [upload[u] EXCEPT !.token = None, !.receiving = FALSE]
             done == [upload[u] EXCEPT !.state = "uploaded", !.token = None, !.receiving = FALSE]
  <2>1. /\ receiver' = [receiver EXCEPT ![r] = IdleReceiver] /\ UNCHANGED <<gate, shelf, release, verifier>> /\ UNCHANGED ownershipVars
        /\ receiver[r].phase # "idle"
    BY <1>5 DEF FinishReceive, BreakReceive
  <2>2. u \in Uploads /\ upload[u].state # "absent"
    BY <1>t, <2>1 DEF PublicationInv, ReceiversInv, ReceiverFits
  <2>3. \/ upload' = [upload EXCEPT ![u] = back]
        \/ upload' = [upload EXCEPT ![u] = upload[u]]
        \/ receiver[r].phase = "stored" /\ upload[u].token = r /\ upload' = [upload EXCEPT ![u] = done]
    BY <1>5, <1>t DEF FinishReceive, BreakReceive, GiveBack, SetUpload, HoldsToken
  <2>4. receiver' \in [Receivers -> ReceiverRow] /\ \A s \in Receivers : receiver'[s] = receiver[s] \/ ReceiverFits(receiver'[s], upload', shelf.quarantined)
    BY <1>t, <2>1 DEF IdleReceiver, ReceiverRow, ReceiverFits
  <2>5. PICK row \in UploadRow : /\ upload' = [upload EXCEPT ![u] = row] /\ UploadFits(row) /\ Rests(upload[u], row)
                                 /\ UploadBacked(u, row, shelf.quarantined, release)
    <3>1. CASE upload' = [upload EXCEPT ![u] = back]
      <4>1. back \in UploadRow /\ UploadFits(back) /\ Rests(upload[u], back) /\ Same(upload[u], back)
        BY <1>t, <2>2, TokenRow
      <4> QED
        BY <1>t, <2>2, <3>1, <4>1, SameBacked
    <3>2. CASE upload' = [upload EXCEPT ![u] = upload[u]]
      BY <1>t, <2>2, <3>2, MovesReflexive
    <3>3. CASE receiver[r].phase = "stored" /\ upload[u].token = r /\ upload' = [upload EXCEPT ![u] = done]
      <4>1. r # None
        BY MarketplaceAssumption
      <4>2. upload[u].state = "uploading"
        BY <1>t, <2>2, <3>3, <4>1 DEF UploadFits
      <4>3. u \in shelf.quarantined
        BY <3>3, <4>2 DEF PublicationInv, ReceiversInv, ReceiverFits
      <4>4. done \in UploadRow /\ UploadFits(done) /\ Rests(upload[u], done) /\ done.state = "uploaded"
        BY <1>t, <2>2, <4>2, UploadedRow
      <4> QED
        BY <3>3, <4>3, <4>4 DEF UploadBacked
    <3> QED
      BY <2>3, <3>1, <3>2, <3>3
  <2> HIDE DEF back, done
  <2> QED
    BY <2>1, <2>2, <2>4, <2>5, UploadWritten
<1> QED
  BY <1>1, <1>2, <1>3, <1>4, <1>5 DEF Receiving

\* A verification moves on, or its request ends.
LEMMA VerifierReplaced ==
  ASSUME NEW old \in [Verifiers -> VerifierRow], NEW v \in Verifiers, NEW row \in VerifierRow, NEW new, new = [old EXCEPT ![v] = row],
         \A a, b \in Verifiers : a # b => Apart(old[a], old[b]),
         row.phase = "idle" \/ (old[v].phase # "idle" /\ row.upload = old[v].upload /\ row.generation = old[v].generation)
  PROVE  /\ new \in [Verifiers -> VerifierRow] /\ new[v] = row /\ \A w \in Verifiers : w # v => new[w] = old[w]
         /\ \A a, b \in Verifiers : a # b => Apart(new[a], new[b])
<1>1. new \in [Verifiers -> VerifierRow] /\ new[v] = row /\ \A w \in Verifiers : w # v => new[w] = old[w]
  OBVIOUS
<1>2. \A a, b \in Verifiers : a # b => Apart(new[a], new[b])
  BY <1>1 DEF Apart
<1> QED
  BY <1>1, <1>2
LEMMA PhaseRow ==
  ASSUME NEW old \in VerifierRow, NEW phase \in {"idle", "verifying", "finalized", "reserved", "failing", "closing"}
  PROVE  LET row == [old EXCEPT !.phase = phase]
         IN  row \in VerifierRow /\ row.phase = phase /\ row.upload = old.upload /\ row.generation = old.generation
BY DEF VerifierRow

\* A verification moves on and no upload is written.
LEMMA VerifierMoves ==
  ASSUME PublicationInv, UNCHANGED <<upload, release, receiver>>, NEW v \in Verifiers, NEW row \in VerifierRow,
         verifier' = [verifier EXCEPT ![v] = row],
         row.phase = "idle" \/ (verifier[v].phase # "idle" /\ row.upload = verifier[v].upload /\ row.generation = verifier[v].generation),
         VerifierFits(row, upload, shelf'.final), shelf' \in Shelf, shelf.final \subseteq shelf'.final,
         \A x \in shelf.quarantined : x \in shelf'.quarantined \/ upload[x].state = "verified", gate' \in GateRow,
         \A w \in Verifiers : WorkOf(w, verifier'[w], upload) => Admitted(verifier'[w], gate')
  PROVE  PublicationInv' /\ ReleaseKept /\ VerifiedKept
<1>1. /\ verifier' \in [Verifiers -> VerifierRow] /\ verifier'[v] = row /\ \A w \in Verifiers : w # v => verifier'[w] = verifier[w]
      /\ \A a, b \in Verifiers : a # b => Apart(verifier'[a], verifier'[b])
  <2> DEFINE new == verifier'
  <2> HIDE DEF new
  <2>1. new = [verifier EXCEPT ![v] = row]
    BY DEF new
  <2>2. verifier \in [Verifiers -> VerifierRow] /\ \A a, b \in Verifiers : a # b => Apart(verifier[a], verifier[b])
    BY DEF PublicationInv, PublicationTypes, VerifiersInv
  <2>3. /\ new \in [Verifiers -> VerifierRow] /\ new[v] = row /\ \A w \in Verifiers : w # v => new[w] = verifier[w]
        /\ \A a, b \in Verifiers : a # b => Apart(new[a], new[b])
    BY <2>1, <2>2, VerifierReplaced
  <2> QED
    BY <2>3 DEF new
<1>2. PublicationTypes'
  BY <1>1 DEF PublicationInv, PublicationTypes
<1>3. \A x \in Uploads : RowMoves(upload[x], upload[x])
  BY MovesReflexive DEF PublicationInv, PublicationTypes
<1>4. UploadsInv'
  BY DEF PublicationInv, UploadsInv, UploadBacked
<1>5. ReleasesInv'
  BY DEF PublicationInv, ReleasesInv, ReleaseFits
<1>6. ReceiversInv'
  <2>1. \A r \in Receivers : ReceiverFits(receiver[r], upload, shelf'.quarantined)
    BY <1>3, ReceiverKept DEF PublicationInv, ReceiversInv
  <2> QED
    BY <2>1 DEF ReceiversInv
<1>7. VerifiersInv'
  <2>1. \A w \in Verifiers : VerifierFits(verifier[w], upload, shelf'.final)
    BY <1>3, VerifierKept DEF PublicationInv, PublicationTypes, VerifiersInv
  <2> QED
    BY <1>1, <2>1 DEF VerifiersInv
<1>8. AdmissionInv'
  BY DEF AdmissionInv
<1> QED
  BY <1>2, <1>4, <1>5, <1>6, <1>7, <1>8 DEF PublicationInv, ReleaseKept, VerifiedKept

\* The lease of one upload is written; the shelf and the releases stay.
LEMMA LeaseWritten ==
  ASSUME PublicationInv, UNCHANGED <<shelf, release, receiver>>, NEW u \in Uploads, NEW row \in UploadRow,
         upload' = [upload EXCEPT ![u] = row], RowMoves(upload[u], row), UploadFits(row), UploadBacked(u, row, shelf.quarantined, release),
         row.state = "verified" => upload[u].state = "verified",
         verifier' \in [Verifiers -> VerifierRow], \A a, b \in Verifiers : a # b => Apart(verifier'[a], verifier'[b]),
         \A w \in Verifiers : verifier'[w] = verifier[w] \/ VerifierFits(verifier'[w], upload', shelf.final),
         gate' \in GateRow, \A w \in Verifiers : WorkOf(w, verifier'[w], upload') => Admitted(verifier'[w], gate')
  PROVE  PublicationInv' /\ ReleaseKept /\ VerifiedKept
<1>1. /\ upload' \in [Uploads -> UploadRow] /\ upload'[u] = row /\ \A x \in Uploads : x # u => upload'[x] = upload[x]
      /\ \A x \in Uploads : RowMoves(upload[x], upload'[x])
  <2> DEFINE new == upload'
  <2> HIDE DEF new
  <2>1. new = [upload EXCEPT ![u] = row]
    BY DEF new
  <2>2. upload \in [Uploads -> UploadRow]
    BY DEF PublicationInv, PublicationTypes
  <2>3. /\ new \in [Uploads -> UploadRow] /\ new[u] = row /\ \A x \in Uploads : x # u => new[x] = upload[x]
        /\ \A x \in Uploads : RowMoves(upload[x], new[x])
    BY <2>1, <2>2, UploadReplaced
  <2> QED
    BY <2>3 DEF new
<1>2. PublicationTypes'
  BY <1>1 DEF PublicationInv, PublicationTypes
<1>3. UploadsInv'
  BY <1>1 DEF PublicationInv, UploadsInv
<1>4. ReleasesInv'
  BY DEF PublicationInv, ReleasesInv
<1>5. ReceiversInv'
  <2>1. \A r \in Receivers : ReceiverFits(receiver[r], upload', shelf.quarantined)
    BY <1>1, ReceiverKept DEF PublicationInv, ReceiversInv
  <2> QED
    BY <2>1 DEF ReceiversInv
<1>6. VerifiersInv'
  <2>1. \A w \in Verifiers : VerifierFits(verifier[w], upload', shelf.final)
    BY <1>1, VerifierKept DEF PublicationInv, PublicationTypes, VerifiersInv
  <2> QED
    BY <2>1 DEF VerifiersInv
<1>7. AdmissionInv'
  BY DEF AdmissionInv
<1>8. VerifiedKept
  BY <1>1 DEF VerifiedKept
<1> QED
  BY <1>2, <1>3, <1>4, <1>5, <1>6, <1>7, <1>8 DEF PublicationInv, ReleaseKept

\* Two verifications that both hold their leases are one.
LEMMA WorkIsOne ==
  ASSUME PublicationInv, NEW v \in Verifiers, NEW w \in Verifiers, WorkOf(v, verifier[v], upload), WorkOf(w, verifier[w], upload)
  PROVE  v = w
BY DEF PublicationInv, AdmissionInv, WorkOf, Admitted

LEMMA BeginVerifyKeeps ==
  ASSUME PublicationInv, NEW v \in Verifiers, NEW u \in Uploads, BeginVerify(v, u)
  PROVE  PublicationInv' /\ ReleaseKept /\ VerifiedKept /\ UNCHANGED ownershipVars
<1> DEFINE n == upload[u].generation + 1
           row == [upload[u] EXCEPT !.state = "verifying", !.generation = n, !.lease = v, !.live = TRUE, !.attempts = upload[u].attempts + 1]
           ver == [phase |-> "verifying", upload |-> u, generation |-> n]
           open == [upload |-> u, generation |-> n, live |-> TRUE]
<1>1. /\ upload' = [upload EXCEPT ![u] = row] /\ verifier' = [verifier EXCEPT ![v] = ver] /\ gate' = open
      /\ UNCHANGED <<shelf, release, receiver>> /\ UNCHANGED ownershipVars
      /\ verifier[v].phase = "idle" /\ upload[u].state \in {"uploaded", "verifying"} /\ GateFree /\ upload[u].attempts < MaxAttempts
  BY DEF BeginVerify, SetUpload, Verifiable
<1>2. upload[u] \in UploadRow /\ UploadFits(upload[u]) /\ UploadBacked(u, upload[u], shelf.quarantined, release)
  BY DEF PublicationInv, PublicationTypes, UploadsInv
<1>3. /\ row \in UploadRow /\ RowMoves(upload[u], row) /\ UploadFits(row) /\ row.state = "verifying" /\ row.generation = n /\ row.lease = v
      /\ n \in Nat /\ upload[u].generation < n
  <2>1. upload[u].attempts + 1 \in 0..MaxAttempts /\ n \in Nat /\ upload[u].generation < n /\ v # None
    <3>1. upload[u].attempts \in 0..MaxAttempts /\ upload[u].generation \in Nat /\ v # None
      BY <1>2, MarketplaceAssumption DEF UploadRow
    <3>2. upload[u].attempts + 1 \in 0..MaxAttempts
      BY <1>1, <3>1, MarketplaceAssumption
    <3> QED
      BY <3>1, <3>2
  <2> DEFINE c == upload[u].attempts + 1
  <2>2. row = [upload[u] EXCEPT !.state = "verifying", !.generation = n, !.lease = v, !.live = TRUE, !.attempts = c]
    OBVIOUS
  <2>3. upload[u] \in UploadRow /\ n \in Nat /\ c \in 0..MaxAttempts
    BY <1>2, <2>1
  <2> HIDE DEF row, n, c
  <2>4. row \in UploadRow
    BY <2>2, <2>3 DEF UploadRow
  <2>5. /\ row.state = "verifying" /\ row.generation = n /\ row.lease = v /\ row.archive = upload[u].archive
        /\ row.token = upload[u].token /\ upload[u].generation \in Nat
    BY <2>2, <2>3 DEF UploadRow
  <2>6. RowMoves(upload[u], row) /\ UploadFits(row)
    BY <1>1, <1>2, <2>1, <2>3, <2>5 DEF UploadFits, RowMoves
  <2> QED
    BY <2>1, <2>4, <2>5, <2>6
<1>4. UploadBacked(u, row, shelf.quarantined, release)
  BY <1>1, <1>2, <1>3 DEF UploadBacked
<1>5. ver \in VerifierRow /\ ver.phase = "verifying" /\ ver.upload = u /\ ver.generation = n /\ open \in GateRow /\ Admitted(ver, open)
  BY <1>3 DEF VerifierRow, GateRow, Admitted
<1>t. upload \in [Uploads -> UploadRow] /\ verifier \in [Verifiers -> VerifierRow]
  BY DEF PublicationInv, PublicationTypes
<1> HIDE DEF row, ver, open, n
<1>6. upload'[u] = row /\ \A x \in Uploads : x # u => upload'[x] = upload[x]
  BY <1>1, <1>t
<1>7. verifier' \in [Verifiers -> VerifierRow] /\ verifier'[v] = ver /\ \A w \in Verifiers : w # v => verifier'[w] = verifier[w]
  BY <1>1, <1>5, <1>t
<1>8. VerifierFits(ver, upload', shelf.final)
  BY <1>3, <1>5, <1>6 DEF VerifierFits
\* The new generation is above every one that was given out.
<1>9. \A a, b \in Verifiers : a # b => Apart(verifier'[a], verifier'[b])
  <2>1. ASSUME NEW w \in Verifiers, w # v PROVE Apart(verifier[w], ver) /\ Apart(ver, verifier[w])
    <3>1. verifier[w].phase # "idle" => verifier[w].generation <= upload[verifier[w].upload].generation
      BY DEF PublicationInv, VerifiersInv, VerifierFits
    <3>2. verifier[w].generation \in Nat /\ upload[u].generation \in Nat
      BY <1>2, <1>t DEF VerifierRow, UploadRow
    <3> QED
      BY <1>3, <1>5, <3>1, <3>2 DEF Apart
  <2> QED
    BY <1>7, <2>1 DEF PublicationInv, VerifiersInv
\* Nobody held a lease that was still running.
<1>10. ASSUME NEW w \in Verifiers, WorkOf(w, verifier'[w], upload') PROVE Admitted(verifier'[w], gate')
  <2>1. CASE w = v
    BY <1>1, <1>5, <1>7, <2>1
  <2>2. CASE w # v
    <3>1. verifier'[w] = verifier[w]
      BY <1>7, <2>2
    <3>2. verifier[w].upload # u
      BY <1>3, <1>6, <1>10, <2>2, <3>1 DEF WorkOf
    <3>3. verifier[w].upload \in Uploads
      BY <1>10, <3>1 DEF PublicationInv, VerifiersInv, VerifierFits, WorkOf
    <3>4. WorkOf(w, verifier[w], upload)
      BY <1>6, <1>10, <3>1, <3>2, <3>3 DEF WorkOf
    <3>5. Admitted(verifier[w], gate)
      BY <3>4 DEF PublicationInv, AdmissionInv
    <3> QED
      BY <1>1, <3>3, <3>5, MarketplaceAssumption DEF Admitted, GateFree
  <2> QED
    BY <2>1, <2>2
<1>11. \A w \in Verifiers : verifier'[w] = verifier[w] \/ VerifierFits(verifier'[w], upload', shelf.final)
  BY <1>7, <1>8
<1>12. row.state = "verified" => upload[u].state = "verified"
  BY <1>3
<1> QED
  BY <1>1, <1>3, <1>4, <1>5, <1>7, <1>9, <1>10, <1>11, <1>12, LeaseWritten

LEMMA LeaseRow ==
  ASSUME NEW old \in UploadRow, UploadFits(old), NEW on \in BOOLEAN, on => old.lease # None, old.state # "absent"
  PROVE  LET row == [old EXCEPT !.live = on]
         IN  row \in UploadRow /\ RowMoves(old, row) /\ UploadFits(row) /\ Same(old, row) /\ row.live = on
             /\ row.lease = old.lease /\ row.generation = old.generation
BY DEF UploadRow, UploadFits, RowMoves, Same
LEMMA FailedRow ==
  ASSUME NEW old \in UploadRow, UploadFits(old), old.state = "verifying"
  PROVE  LET row == [old EXCEPT !.state = "uploaded", !.lease = None, !.live = FALSE]
         IN  row \in UploadRow /\ RowMoves(old, row) /\ UploadFits(row) /\ row.state = "uploaded"
<1> DEFINE row == [old EXCEPT !.state = "uploaded", !.lease = None, !.live = FALSE]
<1>1. row \in UploadRow
  BY DEF UploadRow
<1>2. /\ row.archive = old.archive /\ row.token = old.token /\ row.generation = old.generation
      /\ row.state = "uploaded" /\ row.lease = None /\ row.live = FALSE
      /\ old.generation \in Nat
  BY DEF UploadRow
<1> HIDE DEF row
<1>3. row \in UploadRow /\ RowMoves(old, row) /\ UploadFits(row) /\ row.state = "uploaded"
  BY <1>1, <1>2 DEF UploadFits, RowMoves
<1> QED
  BY <1>3 DEF row

\* The clock, the beats and the failure branch: the lease is written and no
\* request begins.
LEMMA LeaseKeeps ==
  ASSUME PublicationInv
  PROVE  /\ \A u \in Uploads : LeaseExpires(u) => PublicationInv' /\ ReleaseKept /\ VerifiedKept /\ UNCHANGED ownershipVars
         /\ \A v \in Verifiers : Heartbeat(v) \/ FailVerify(v) => PublicationInv' /\ ReleaseKept /\ VerifiedKept /\ UNCHANGED ownershipVars
<1>t. /\ upload \in [Uploads -> UploadRow] /\ verifier \in [Verifiers -> VerifierRow] /\ gate \in GateRow
      /\ \A u \in Uploads : upload[u] \in UploadRow /\ UploadFits(upload[u]) /\ UploadBacked(u, upload[u], shelf.quarantined, release)
      /\ \A a, b \in Verifiers : a # b => Apart(verifier[a], verifier[b])
      /\ \A w \in Verifiers : VerifierFits(verifier[w], upload, shelf.final)
      /\ \A w \in Verifiers : WorkOf(w, verifier[w], upload) => Admitted(verifier[w], gate)
  BY DEF PublicationInv, PublicationTypes, UploadsInv, VerifiersInv, AdmissionInv
<1>g. \A on \in BOOLEAN : [gate EXCEPT !.live = on] \in GateRow /\ [gate EXCEPT !.live = on].upload = gate.upload
                            /\ [gate EXCEPT !.live = on].generation = gate.generation /\ [gate EXCEPT !.live = on].live = on
  BY <1>t DEF GateRow
<1>1. ASSUME NEW u \in Uploads, LeaseExpires(u)
      PROVE  PublicationInv' /\ ReleaseKept /\ VerifiedKept /\ UNCHANGED ownershipVars
  <2> DEFINE row == [upload[u] EXCEPT !.live = FALSE]
             shut == [gate EXCEPT !.live = FALSE]
  <2>1. /\ upload' = [upload EXCEPT ![u] = row] /\ UNCHANGED <<shelf, release, receiver, verifier>> /\ UNCHANGED ownershipVars
        /\ gate' = (IF gate.upload = u /\ gate.generation = upload[u].generation THEN shut ELSE gate) /\ upload[u].live
    BY <1>1 DEF LeaseExpires, SetUpload
  <2>2. row \in UploadRow /\ RowMoves(upload[u], row) /\ UploadFits(row) /\ Same(upload[u], row) /\ row.live = FALSE
    <3>1. upload[u].state # "absent"
      BY <1>t, <2>1 DEF UploadFits, NoUpload
    <3>2. FALSE \in BOOLEAN /\ (FALSE => upload[u].lease # None)
      OBVIOUS
    <3> QED
      BY <1>t, <3>1, <3>2, LeaseRow
  <2>3. gate' \in GateRow /\ (gate.upload # u => gate' = gate)
    BY <1>t, <1>g, <2>1
  <2> HIDE DEF row, shut
  <2>4. upload'[u] = row /\ \A x \in Uploads : x # u => upload'[x] = upload[x]
    BY <1>t, <2>1
  <2>5. ASSUME NEW w \in Verifiers, WorkOf(w, verifier[w], upload') PROVE Admitted(verifier[w], gate')
    <3>1. verifier[w].upload # u /\ verifier[w].upload \in Uploads
      BY <1>t, <2>2, <2>4, <2>5 DEF WorkOf, VerifierFits
    <3>2. WorkOf(w, verifier[w], upload)
      BY <2>4, <2>5, <3>1 DEF WorkOf
    <3> QED
      BY <1>t, <2>3, <3>1, <3>2 DEF Admitted
  <2> QED
    BY <1>t, <2>1, <2>2, <2>3, <2>5, SameBacked, LeaseWritten DEF Same
<1>2. ASSUME NEW v \in Verifiers, Heartbeat(v)
      PROVE  PublicationInv' /\ ReleaseKept /\ VerifiedKept /\ UNCHANGED ownershipVars
  <2> DEFINE u == verifier[v].upload
             row == [upload[u] EXCEPT !.live = TRUE]
             open == [gate EXCEPT !.live = TRUE]
  <2>1. /\ upload' = [upload EXCEPT ![u] = row] /\ UNCHANGED <<shelf, release, receiver, verifier>> /\ UNCHANGED ownershipVars
        /\ gate' = open /\ verifier[v].phase # "idle" /\ upload[u].lease = v /\ upload[u].generation = verifier[v].generation
        /\ gate.upload = u /\ gate.generation = verifier[v].generation
    BY <1>2 DEF Heartbeat, SetUpload, Holds, HoldsGate
  <2>2. u \in Uploads /\ upload[u].state # "absent" /\ v # None
    BY <1>t, <2>1, MarketplaceAssumption DEF VerifierFits
  <2>3. /\ row \in UploadRow /\ RowMoves(upload[u], row) /\ UploadFits(row) /\ Same(upload[u], row) /\ row.lease = v
        /\ row.generation = upload[u].generation
    BY <1>t, <2>1, <2>2, LeaseRow
  <2>4. gate' \in GateRow /\ gate'.upload = u /\ gate'.generation = verifier[v].generation /\ gate'.live
    BY <1>g, <2>1
  <2> HIDE DEF row, open
  <2>5. upload'[u] = row /\ \A x \in Uploads : x # u => upload'[x] = upload[x]
    BY <1>t, <2>1, <2>2
  <2>6. ASSUME NEW w \in Verifiers, WorkOf(w, verifier[w], upload') PROVE Admitted(verifier[w], gate')
    <3>1. CASE verifier[w].upload = u
      <4>1. w = v
        BY <2>3, <2>5, <2>6, <3>1 DEF WorkOf
      <4> QED
        BY <2>4, <4>1 DEF Admitted
    <3>2. CASE verifier[w].upload # u
      <4>1. verifier[w].upload \in Uploads
        BY <1>t, <2>6 DEF WorkOf, VerifierFits
      <4>2. WorkOf(w, verifier[w], upload)
        BY <2>5, <2>6, <3>2, <4>1 DEF WorkOf
      <4>3. Admitted(verifier[w], gate)
        BY <1>t, <4>2
      <4> QED
        BY <2>1, <3>2, <4>3 DEF Admitted
    <3> QED
      BY <3>1, <3>2
  <2>7. UploadBacked(u, row, shelf.quarantined, release)
    BY <1>t, <2>2, <2>3, SameBacked
  <2>8. row.state = "verified" => upload[u].state = "verified"
    BY <2>3 DEF Same
  <2> QED
    BY <1>t, <2>1, <2>2, <2>3, <2>4, <2>6, <2>7, <2>8, LeaseWritten
<1>3. ASSUME NEW v \in Verifiers, FailVerify(v)
      PROVE  PublicationInv' /\ ReleaseKept /\ VerifiedKept /\ UNCHANGED ownershipVars
  <2> DEFINE u == verifier[v].upload
             failed == [upload[u] EXCEPT !.state = "uploaded", !.lease = None, !.live = FALSE]
             row == IF FailsOwn(v) THEN failed ELSE upload[u]
             ver == [verifier[v] EXCEPT !.phase = "closing"]
  <2>1. /\ upload' = [upload EXCEPT ![u] = row] /\ verifier' = [verifier EXCEPT ![v] = ver] /\ verifier[v].phase = "failing"
        /\ UNCHANGED <<shelf, release, receiver, gate>> /\ UNCHANGED ownershipVars
    BY <1>3 DEF FailVerify, SetUpload, VerifierAt
  <2>2. u \in Uploads /\ VerifierFits(verifier[v], upload, shelf.final) /\ upload[u].state # "uploading"
    BY <1>t, <2>1 DEF VerifierFits
  <2>3. ver \in VerifierRow /\ ver.phase = "closing" /\ ver.upload = u /\ ver.generation = verifier[v].generation
    BY <1>t, PhaseRow
  <2>4. /\ row \in UploadRow /\ RowMoves(upload[u], row) /\ UploadFits(row) /\ UploadBacked(u, row, shelf.quarantined, release)
        /\ (row.state \in {"verifying", "verified"} => row = upload[u])
    <3>1. CASE FailsOwn(v)
      <4>1. upload[u].state = "verifying" /\ row = failed
        BY <3>1 DEF FailsOwn
      <4>2. failed \in UploadRow /\ RowMoves(upload[u], failed) /\ UploadFits(failed) /\ failed.state = "uploaded"
        BY <1>t, <2>2, <4>1, FailedRow
      <4> QED
        BY <1>t, <2>2, <4>1, <4>2 DEF UploadBacked
    <3>2. CASE ~FailsOwn(v)
      BY <1>t, <2>2, <3>2, MovesReflexive
    <3> QED
      BY <3>1, <3>2
  <2>u. upload[u].state # "absent" /\ verifier[v].generation <= upload[u].generation
    BY <2>1, <2>2 DEF VerifierFits
  <2>r. row.state \notin {"absent", "uploading"} /\ upload[u].generation <= row.generation
    BY <2>2, <2>4, <2>u DEF RowMoves
  <2> HIDE DEF row, failed, ver
  <2>5. upload'[u] = row /\ \A x \in Uploads : x # u => upload'[x] = upload[x]
    BY <1>t, <2>1, <2>2
  <2>6. /\ verifier' \in [Verifiers -> VerifierRow] /\ verifier'[v] = ver /\ \A w \in Verifiers : w # v => verifier'[w] = verifier[w]
        /\ \A a, b \in Verifiers : a # b => Apart(verifier'[a], verifier'[b])
    <3> DEFINE new == verifier'
    <3> HIDE DEF new
    <3>1. new = [verifier EXCEPT ![v] = ver] /\ verifier[v].phase # "idle"
      BY <2>1 DEF new
    <3>2. /\ new \in [Verifiers -> VerifierRow] /\ new[v] = ver /\ \A w \in Verifiers : w # v => new[w] = verifier[w]
          /\ \A a, b \in Verifiers : a # b => Apart(new[a], new[b])
      BY <1>t, <2>3, <3>1, VerifierReplaced
    <3> QED
      BY <3>2 DEF new
  <2>7. VerifierFits(ver, upload', shelf.final)
    <3>1. ver.generation <= row.generation
      <4>1. verifier[v].generation \in Nat /\ upload[u].generation \in Nat /\ row.generation \in Nat
        BY <1>t, <2>2, <2>4 DEF VerifierRow, UploadRow
      <4> QED
        BY <2>3, <2>u, <2>r, <4>1
    <3> QED
      BY <2>2, <2>3, <2>5, <2>r, <3>1 DEF VerifierFits
  <2>8. ASSUME NEW w \in Verifiers, WorkOf(w, verifier'[w], upload') PROVE Admitted(verifier'[w], gate)
    <3>1. verifier'[w] = verifier[w] /\ verifier[w].upload \in Uploads
      BY <1>t, <2>3, <2>6, <2>8 DEF WorkOf, VerifierFits
    <3>2. WorkOf(w, verifier[w], upload)
      BY <2>4, <2>5, <2>8, <3>1 DEF WorkOf
    <3> QED
      BY <1>t, <3>1, <3>2
  <2>9. \A w \in Verifiers : verifier'[w] = verifier[w] \/ VerifierFits(verifier'[w], upload', shelf.final)
    BY <2>6, <2>7
  <2> QED
    BY <1>t, <2>1, <2>2, <2>4, <2>6, <2>8, <2>9, LeaseWritten
<1> QED
  BY <1>1, <1>2, <1>3

LEMMA VerifiedRow ==
  ASSUME NEW old \in UploadRow, UploadFits(old), old.state = "verifying"
  PROVE  LET row == [old EXCEPT !.state = "verified"]
         IN  row \in UploadRow /\ RowMoves(old, row) /\ UploadFits(row) /\ row.state = "verified" /\ row.archive = old.archive
BY DEF UploadRow, UploadFits, RowMoves

\* The steps of a verification that write no upload.
LEMMA PhaseKeeps ==
  ASSUME PublicationInv, NEW v \in Verifiers,
         FinalizeArtifact(v) \/ DeleteQuarantine(v) \/ ReleaseGate(v) \/ AbandonVerify(v) \/ CrashVerifier(v)
  PROVE  PublicationInv' /\ ReleaseKept /\ VerifiedKept /\ UNCHANGED ownershipVars
<1>t. /\ upload \in [Uploads -> UploadRow] /\ verifier \in [Verifiers -> VerifierRow] /\ gate \in GateRow /\ shelf \in Shelf
      /\ \A u \in Uploads : upload[u] \in UploadRow /\ UploadFits(upload[u])
      /\ \A a, b \in Verifiers : a # b => Apart(verifier[a], verifier[b])
      /\ \A w \in Verifiers : VerifierFits(verifier[w], upload, shelf.final)
      /\ \A w \in Verifiers : WorkOf(w, verifier[w], upload) => Admitted(verifier[w], gate)
  BY DEF PublicationInv, PublicationTypes, UploadsInv, VerifiersInv, AdmissionInv
<1> DEFINE u == verifier[v].upload
<1>n. verifier[v].phase # "idle" /\ UNCHANGED <<upload, release, receiver>> /\ UNCHANGED ownershipVars
  BY DEF FinalizeArtifact, DeleteQuarantine, ReleaseGate, AbandonVerify, CrashVerifier
<1>u. u \in Uploads
  BY <1>t, <1>n DEF VerifierFits
\* The row changes its phase only.
<1>1. ASSUME NEW phase \in {"finalized", "failing", "closing"}, VerifierAt(v, phase),
             phase = "finalized" => verifier[v].phase = "verifying" /\ upload[u].archive \in shelf'.final \ Defective,
             shelf' \in Shelf, shelf.final \subseteq shelf'.final, gate' = gate,
             \A x \in shelf.quarantined : x \in shelf'.quarantined \/ upload[x].state = "verified"
      PROVE  PublicationInv' /\ ReleaseKept /\ VerifiedKept /\ UNCHANGED ownershipVars
  <2> DEFINE row == [verifier[v] EXCEPT !.phase = phase]
  <2>1. verifier' = [verifier EXCEPT ![v] = row]
    BY <1>1 DEF VerifierAt
  <2>2. row \in VerifierRow /\ row.phase = phase /\ row.upload = u /\ row.generation = verifier[v].generation
    <3>1. verifier[v] \in VerifierRow /\ phase \in {"idle", "verifying", "finalized", "reserved", "failing", "closing"}
      BY <1>t
    <3> QED
      BY <3>1, PhaseRow
  <2> HIDE DEF row
  <2>3. VerifierFits(row, upload, shelf'.final)
    BY <1>t, <1>1, <1>n, <2>2 DEF VerifierFits
  <2>4. verifier'[v] = row /\ \A w \in Verifiers : w # v => verifier'[w] = verifier[w]
    BY <1>t, <2>1
  <2>5. ASSUME NEW w \in Verifiers, WorkOf(w, verifier'[w], upload) PROVE Admitted(verifier'[w], gate')
    <3>1. CASE w = v
      <4>1. phase = "finalized"
        BY <2>2, <2>4, <2>5, <3>1 DEF WorkOf
      <4>2. WorkOf(v, verifier[v], upload)
        BY <1>1, <2>2, <2>4, <2>5, <3>1, <4>1 DEF WorkOf
      <4> QED
        BY <1>t, <1>1, <2>2, <2>4, <3>1, <4>2 DEF Admitted
    <3>2. CASE w # v
      BY <1>t, <1>1, <2>4, <2>5, <3>2
    <3> QED
      BY <3>1, <3>2
  <2> QED
    BY <1>t, <1>n, <1>1, <2>1, <2>2, <2>3, <2>5, VerifierMoves
\* The request is over, and at most the gate it held is opened.
<1>2. ASSUME verifier' = [verifier EXCEPT ![v] = IdleVerifier], UNCHANGED shelf,
             gate' = gate \/ (verifier[v].phase = "closing" /\ HoldsGate(v) /\ gate' = FreeGate)
      PROVE  PublicationInv' /\ ReleaseKept /\ VerifiedKept /\ UNCHANGED ownershipVars
  <2>1. IdleVerifier \in VerifierRow /\ IdleVerifier.phase = "idle" /\ FreeGate \in GateRow
    BY DEF IdleVerifier, VerifierRow, FreeGate, GateRow
  <2>2. VerifierFits(IdleVerifier, upload, shelf.final)
    BY <2>1 DEF VerifierFits
  <2>3. verifier'[v] = IdleVerifier /\ \A w \in Verifiers : w # v => verifier'[w] = verifier[w]
    BY <1>t, <1>2
  <2>4. ASSUME NEW w \in Verifiers, WorkOf(w, verifier'[w], upload) PROVE Admitted(verifier'[w], gate')
    <3>1. w # v /\ verifier'[w] = verifier[w]
      BY <2>1, <2>3, <2>4 DEF WorkOf
    <3>2. Admitted(verifier[w], gate) /\ WorkOf(w, verifier[w], upload)
      BY <1>t, <2>4, <3>1
    <3>3. ~HoldsGate(v)
      BY <1>t, <1>n, <3>1, <3>2 DEF HoldsGate, Admitted, Apart, WorkOf
    <3> QED
      BY <1>2, <3>1, <3>2, <3>3
  <2> QED
    BY <1>t, <1>n, <1>2, <2>1, <2>2, <2>4, VerifierMoves
<1>3. CASE FinalizeArtifact(v)
  <2>1. CASE u \in shelf.quarantined /\ upload[u].archive \notin Defective
             /\ shelf' = [shelf EXCEPT !.final = shelf.final \union {upload[u].archive}] /\ VerifierAt(v, "finalized")
    <3>1. upload[u].archive \in Archives
      BY <1>t, <1>n, <1>u DEF VerifierFits, UploadFits
    <3>2. shelf' \in Shelf /\ shelf'.final = shelf.final \union {upload[u].archive} /\ shelf'.quarantined = shelf.quarantined
      BY <1>t, <2>1, <3>1 DEF Shelf
    <3> QED
      BY <1>1, <1>3, <2>1, <3>2 DEF FinalizeArtifact
  <2>2. CASE VerifierAt(v, "failing") /\ UNCHANGED shelf
    BY <1>t, <1>1, <1>3, <2>2 DEF FinalizeArtifact
  <2> QED
    BY <1>3, <2>1, <2>2 DEF FinalizeArtifact
<1>4. CASE DeleteQuarantine(v)
  <2>1. shelf' = [shelf EXCEPT !.quarantined = shelf.quarantined \ {u}] /\ verifier[v].phase = "reserved" /\ gate' = gate
        /\ VerifierAt(v, "closing")
    BY <1>4 DEF DeleteQuarantine
  <2>2. shelf' \in Shelf /\ shelf'.final = shelf.final /\ shelf'.quarantined = shelf.quarantined \ {u}
    BY <1>t, <2>1 DEF Shelf
  <2>3. upload[u].state = "verified"
    BY <1>t, <2>1 DEF VerifierFits
  <2> QED
    BY <1>1, <2>1, <2>2, <2>3
<1>5. CASE ReleaseGate(v)
  BY <1>2, <1>5 DEF ReleaseGate
<1>6. CASE AbandonVerify(v)
  BY <1>t, <1>1, <1>6 DEF AbandonVerify
<1>7. CASE CrashVerifier(v)
  BY <1>2, <1>7 DEF CrashVerifier
<1> QED
  BY <1>3, <1>4, <1>5, <1>6, <1>7

LEMMA ReserveKeeps ==
  ASSUME OwnerInv, PublicationInv, NEW v \in Verifiers, Reserve(v)
  PROVE  PublicationInv' /\ ReleaseKept /\ VerifiedKept /\ UNCHANGED ownershipVars
<1>t. /\ upload \in [Uploads -> UploadRow] /\ verifier \in [Verifiers -> VerifierRow] /\ gate \in GateRow /\ shelf \in Shelf
      /\ release \in [ReleaseVersions -> ReleaseRow] /\ receiver \in [Receivers -> ReceiverRow]
      /\ \A u \in Uploads : upload[u] \in UploadRow /\ UploadFits(upload[u]) /\ UploadBacked(u, upload[u], shelf.quarantined, release)
      /\ \A n \in ReleaseVersions : ReleaseFits(release[n], shelf.final)
      /\ \A a, b \in Verifiers : a # b => Apart(verifier[a], verifier[b])
      /\ \A w \in Verifiers : VerifierFits(verifier[w], upload, shelf.final)
      /\ \A w \in Verifiers : WorkOf(w, verifier[w], upload) => Admitted(verifier[w], gate)
  BY DEF PublicationInv, PublicationTypes, UploadsInv, ReleasesInv, VerifiersInv, AdmissionInv
<1> DEFINE u == verifier[v].upload
           a == upload[u].archive
           n == VersionOf[a]
<1>n. /\ verifier[v].phase = "finalized" /\ UNCHANGED <<gate, shelf, receiver>> /\ UNCHANGED ownershipVars
  BY DEF Reserve
<1>u. u \in Uploads /\ upload[u].state \notin {"absent", "uploading"} /\ verifier[v].generation <= upload[u].generation
      /\ a \in shelf.final \ Defective
  BY <1>t, <1>n DEF VerifierFits
<1>a. a \in Archives /\ n \in ReleaseVersions /\ a # None
  BY <1>t, <1>u, MarketplaceAssumption DEF UploadFits, ReleaseVersions
<1>1. CASE VerifierAt(v, "failing") /\ UNCHANGED <<upload, release>>
  <2> DEFINE row == [verifier[v] EXCEPT !.phase = "failing"]
  <2>1. verifier' = [verifier EXCEPT ![v] = row] /\ shelf' = shelf /\ gate' = gate
    BY <1>1, <1>n DEF VerifierAt
  <2>2. row \in VerifierRow /\ row.phase = "failing" /\ row.upload = u /\ row.generation = verifier[v].generation
    <3>1. verifier[v] \in VerifierRow
      BY <1>t
    <3> QED
      BY <3>1, PhaseRow
  <2> HIDE DEF row
  <2>3. VerifierFits(row, upload, shelf'.final)
    BY <1>u, <2>2 DEF VerifierFits
  <2>4. verifier'[v] = row /\ \A w \in Verifiers : w # v => verifier'[w] = verifier[w]
    BY <1>t, <2>1
  <2>5. ASSUME NEW w \in Verifiers, WorkOf(w, verifier'[w], upload) PROVE Admitted(verifier'[w], gate')
    <3>1. w # v
      BY <2>2, <2>4, <2>5 DEF WorkOf
    <3> QED
      BY <1>t, <2>1, <2>4, <2>5, <3>1
  <2> QED
    BY <1>t, <1>n, <1>1, <2>1, <2>2, <2>3, <2>5, VerifierMoves
<1>2. CASE /\ LeaseHeld(v) /\ Operation(upload[u].actor, u) /\ VersionFits(a)
           /\ release' = IF release[n].archive = a THEN release
                         ELSE [release EXCEPT ![n] = [NoRelease EXCEPT !.publication = "ready", !.archive = a,
                                                      !.publisher = project.owner, !.status = 1]]
           /\ SetUpload(u, [upload[u] EXCEPT !.state = "verified"]) /\ VerifierAt(v, "reserved")
  <2> DEFINE row == [upload[u] EXCEPT !.state = "verified"]
             ver == [verifier[v] EXCEPT !.phase = "reserved"]
             rel == [NoRelease EXCEPT !.publication = "ready", !.archive = a, !.publisher = project.owner, !.status = 1]
  <2>1. /\ upload' = [upload EXCEPT ![u] = row] /\ verifier' = [verifier EXCEPT ![v] = ver]
        /\ release' = (IF release[n].archive = a THEN release ELSE [release EXCEPT ![n] = rel])
        /\ upload[u].state = "verifying" /\ upload[u].revision = project.revision /\ verifier[v].generation = upload[u].generation
        /\ (release[n].publication = "absent" \/ release[n].archive = a)
    BY <1>2 DEF SetUpload, VerifierAt, LeaseHeld, Holds, Operation, VersionFits
  <2>2. row \in UploadRow /\ RowMoves(upload[u], row) /\ UploadFits(row) /\ row.state = "verified" /\ row.archive = a
    BY <1>t, <1>u, <2>1, VerifiedRow
  <2>3. ver \in VerifierRow /\ ver.phase = "reserved" /\ ver.upload = u /\ ver.generation = verifier[v].generation
    BY <1>t, PhaseRow
  <2>4. rel \in ReleaseRow /\ rel.publication = "ready" /\ rel.archive = a
    <3>1. project.owner \in Publishers
      BY DEF OwnerInv, ProjectRow
    <3> QED
      BY <1>a, <3>1 DEF NoRelease, ReleaseRow
  <2> HIDE DEF row, ver, rel
  <2>5. /\ upload' \in [Uploads -> UploadRow] /\ upload'[u] = row /\ \A x \in Uploads : x # u => upload'[x] = upload[x]
        /\ \A x \in Uploads : RowMoves(upload[x], upload'[x])
    <3> DEFINE new == upload'
    <3> HIDE DEF new
    <3>1. new = [upload EXCEPT ![u] = row]
      BY <2>1 DEF new
    <3>2. /\ new \in [Uploads -> UploadRow] /\ new[u] = row /\ \A x \in Uploads : x # u => new[x] = upload[x]
          /\ \A x \in Uploads : RowMoves(upload[x], new[x])
      BY <1>t, <1>u, <2>2, <3>1, UploadReplaced
    <3> QED
      BY <3>2 DEF new
  <2>6. /\ verifier' \in [Verifiers -> VerifierRow] /\ verifier'[v] = ver /\ \A w \in Verifiers : w # v => verifier'[w] = verifier[w]
        /\ \A x, y \in Verifiers : x # y => Apart(verifier'[x], verifier'[y])
    <3> DEFINE new == verifier'
    <3> HIDE DEF new
    <3>1. new = [verifier EXCEPT ![v] = ver] /\ verifier[v].phase # "idle"
      BY <1>n, <2>1 DEF new
    <3>2. /\ new \in [Verifiers -> VerifierRow] /\ new[v] = ver /\ \A w \in Verifiers : w # v => new[w] = verifier[w]
          /\ \A x, y \in Verifiers : x # y => Apart(new[x], new[y])
      BY <1>t, <2>3, <3>1, VerifierReplaced
    <3> QED
      BY <3>2 DEF new
  \* Only a version that no upload was verified for gets its bytes here.
  <2>7. /\ release' \in [ReleaseVersions -> ReleaseRow] /\ release'[n].archive = a
        /\ \A m \in ReleaseVersions : release'[m] = release[m] \/ (m = n /\ release[n] = NoRelease /\ release'[m] = rel)
    BY <1>t, <1>a, <2>1, <2>4 DEF ReleaseFits
  <2>8. \A m \in ReleaseVersions : ReleaseFits(release'[m], shelf.final)
    BY <1>t, <1>u, <2>4, <2>7 DEF ReleaseFits
  <2>9. ASSUME NEW x \in Uploads PROVE UploadFits(upload'[x]) /\ UploadBacked(x, upload'[x], shelf.quarantined, release')
    <3>1. CASE x = u
      BY <2>2, <2>5, <2>7, <3>1 DEF UploadBacked
    <3>2. CASE x # u
      <4>1. upload'[x] = upload[x] /\ UploadFits(upload[x]) /\ UploadBacked(x, upload[x], shelf.quarantined, release)
        BY <1>t, <2>5, <3>2
      <4>2. ASSUME upload[x].state = "verified"
            PROVE  release'[VersionOf[upload[x].archive]].archive = upload[x].archive
        <5>1. upload[x].archive \in Archives /\ upload[x].archive # None /\ VersionOf[upload[x].archive] \in ReleaseVersions
          BY <4>1, <4>2, MarketplaceAssumption DEF UploadFits, ReleaseVersions
        <5>2. release[VersionOf[upload[x].archive]].archive = upload[x].archive
          BY <4>1, <4>2 DEF UploadBacked
        <5> QED
          <6>1. NoRelease.archive = None
            BY DEF NoRelease
          <6> QED
            BY <2>7, <5>1, <5>2, <6>1
      <4> QED
        BY <4>1, <4>2 DEF UploadBacked
    <3> QED
      BY <3>1, <3>2
  <2>10. VerifiersInv'
    <3>1. \A w \in Verifiers : VerifierFits(verifier[w], upload', shelf.final)
      BY <1>t, <2>5, VerifierKept
    <3>2. VerifierFits(ver, upload', shelf.final)
      <4>1. verifier[v].generation \in Nat /\ upload[u].generation <= row.generation /\ row.generation \in Nat /\ upload[u].generation \in Nat
        BY <1>t, <1>u, <2>2 DEF VerifierRow, UploadRow, RowMoves
      <4> QED
        BY <1>u, <2>2, <2>3, <2>5, <4>1 DEF VerifierFits
    <3> QED
      BY <1>n, <2>6, <3>1, <3>2 DEF VerifiersInv
  <2>11. ReceiversInv'
    <3>1. \A r \in Receivers : ReceiverFits(receiver[r], upload', shelf.quarantined)
      BY <2>5, ReceiverKept DEF PublicationInv, ReceiversInv
    <3> QED
      BY <1>n, <3>1 DEF ReceiversInv
  <2>12. AdmissionInv'
    <3>1. ASSUME NEW w \in Verifiers, WorkOf(w, verifier'[w], upload') PROVE Admitted(verifier'[w], gate)
      <4>1. w # v /\ verifier'[w] = verifier[w]
        BY <2>3, <2>6, <3>1 DEF WorkOf
      <4>2. verifier[w].upload # u /\ verifier[w].upload \in Uploads
        BY <1>t, <2>2, <2>5, <3>1, <4>1 DEF WorkOf, VerifierFits
      <4> QED
        BY <1>t, <2>5, <3>1, <4>1, <4>2 DEF WorkOf
    <3> QED
      BY <1>n, <3>1 DEF AdmissionInv
  <2>13. PublicationInv'
    <3>1. PublicationTypes'
      BY <1>t, <1>n, <2>5, <2>6, <2>7 DEF PublicationTypes
    <3>2. UploadsInv' /\ ReleasesInv'
      BY <1>n, <2>8, <2>9 DEF UploadsInv, ReleasesInv
    <3> QED
      BY <3>1, <3>2, <2>10, <2>11, <2>12 DEF PublicationInv
  <2>14. ReleaseKept
    <3>1. NoRelease.publication = "absent" /\ NoRelease.distribution = "available"
      BY DEF NoRelease
    <3> QED
      BY <2>7, <3>1 DEF ReleaseKept
  <2>15. VerifiedKept
    BY <2>1, <2>3, <2>5, <2>6 DEF VerifiedKept
  <2> QED
    BY <1>n, <2>13, <2>14, <2>15
<1> QED
  BY <1>1, <1>2 DEF Reserve

LEMMA ReleasingKeeps ==
  ASSUME PublicationInv, Releasing
  PROVE  PublicationInv' /\ ReleaseKept /\ VerifiedKept /\ UNCHANGED ownershipVars
<1>t. release \in [ReleaseVersions -> ReleaseRow] /\ \A n \in ReleaseVersions : ReleaseFits(release[n], shelf.final)
  BY DEF PublicationInv, PublicationTypes, ReleasesInv
<1>1. PICK n \in ReleaseVersions, row \in ReleaseRow :
         /\ release' = [release EXCEPT ![n] = row] /\ UNCHANGED <<upload, gate, shelf, receiver, verifier>> /\ UNCHANGED ownershipVars
         /\ release[n].publication # "absent" /\ row.publication # "absent" /\ row.archive = release[n].archive
         /\ row.publisher = release[n].publisher /\ (release[n].distribution = "revoked" => row.distribution = "revoked")
  <2>1. PICK a \in People, n \in ReleaseVersions : PublishRelease(a, n) \/ \E state \in {"available", "yanked", "revoked"} : Distribution(a, n, state)
    BY DEF Releasing
  <2>2. release[n] \in ReleaseRow
    BY <1>t
  <2>3. CASE PublishRelease(a, n)
    <3> DEFINE row == [release[n] EXCEPT !.publication = "published"]
    <3>1. row \in ReleaseRow /\ row.publication = "published" /\ row.archive = release[n].archive
          /\ row.publisher = release[n].publisher /\ row.distribution = release[n].distribution
      BY <2>2 DEF ReleaseRow
    <3>2. release' = [release EXCEPT ![n] = row] /\ UNCHANGED <<upload, gate, shelf, receiver, verifier>> /\ UNCHANGED ownershipVars
          /\ release[n].publication # "absent"
      BY <2>3 DEF PublishRelease
    <3> QED
      BY <3>1, <3>2
  <2>4. ASSUME NEW state \in {"available", "yanked", "revoked"}, Distribution(a, n, state)
        PROVE  \E row \in ReleaseRow :
                  /\ release' = [release EXCEPT ![n] = row] /\ UNCHANGED <<upload, gate, shelf, receiver, verifier>> /\ UNCHANGED ownershipVars
                  /\ release[n].publication # "absent" /\ row.publication # "absent" /\ row.archive = release[n].archive
                  /\ row.publisher = release[n].publisher /\ (release[n].distribution = "revoked" => row.distribution = "revoked")
    <3> DEFINE row == [release[n] EXCEPT !.distribution = state, !.status = release[n].status + 1]
    <3>1. row \in ReleaseRow /\ row.publication = release[n].publication /\ row.archive = release[n].archive
          /\ row.publisher = release[n].publisher
      <4>1. release[n].status + 1 \in Nat
        BY <2>2 DEF ReleaseRow
      <4> QED
        BY <2>2, <4>1 DEF ReleaseRow
    <3>2. release' = [release EXCEPT ![n] = row] /\ UNCHANGED <<upload, gate, shelf, receiver, verifier>> /\ UNCHANGED ownershipVars
          /\ release[n].publication = "published" /\ release[n].distribution # "revoked"
      BY <1>t, <2>4 DEF Distribution
    <3> QED
      BY <3>1, <3>2
  <2> QED
    BY <2>1, <2>3, <2>4
<1>2. /\ release' \in [ReleaseVersions -> ReleaseRow] /\ release'[n] = row /\ \A m \in ReleaseVersions : m # n => release'[m] = release[m]
  BY <1>t, <1>1
<1>3. \A m \in ReleaseVersions : ReleaseFits(release'[m], shelf.final) /\ release'[m].archive = release[m].archive
  BY <1>t, <1>1, <1>2 DEF ReleaseFits
<1>4. UploadsInv'
  <2>1. ASSUME NEW u \in Uploads PROVE UploadFits(upload[u]) /\ UploadBacked(u, upload[u], shelf.quarantined, release')
    <3>1. UploadFits(upload[u]) /\ UploadBacked(u, upload[u], shelf.quarantined, release)
      BY DEF PublicationInv, UploadsInv
    <3>2. upload[u].state = "verified" => VersionOf[upload[u].archive] \in ReleaseVersions
      BY <3>1 DEF UploadFits, ReleaseVersions
    <3> QED
      BY <1>3, <3>1, <3>2 DEF UploadBacked
  <2> QED
    BY <1>1, <2>1 DEF UploadsInv
<1>5. PublicationTypes' /\ ReleasesInv'
  BY <1>1, <1>2, <1>3 DEF PublicationInv, PublicationTypes, ReleasesInv
<1>6. ReceiversInv' /\ VerifiersInv' /\ AdmissionInv'
  BY <1>1 DEF PublicationInv, ReceiversInv, VerifiersInv, AdmissionInv
<1>7. ReleaseKept
  BY <1>1, <1>2 DEF ReleaseKept
<1>8. VerifiedKept
  BY <1>1 DEF VerifiedKept
<1> QED
  BY <1>1, <1>4, <1>5, <1>6, <1>7, <1>8 DEF PublicationInv

LEMMA MarketplaceKeeps ==
  ASSUME MarketInv, [MarketplaceNext]_marketplaceVars
  PROVE  MarketInv' /\ OfferKept /\ ReleaseKept /\ VerifiedKept
<1>1. CASE UNCHANGED ownershipVars
  <2>1. OwnerInv' /\ OfferKept
    BY <1>1 DEF ownershipVars, MarketInv, OwnerInv, Owns, OfferKept
  <2>2. CASE Receiving /\ \A u \in Uploads : ~LeaseExpires(u)
    BY <2>1, <2>2, ReceivingKeeps DEF MarketInv
  <2>3. ASSUME NEW u \in Uploads, LeaseExpires(u) PROVE PublicationInv' /\ ReleaseKept /\ VerifiedKept
    BY <2>3, LeaseKeeps DEF MarketInv
  <2>4. ASSUME NEW v \in Verifiers, Verifying(v) PROVE PublicationInv' /\ ReleaseKept /\ VerifiedKept
    <3>1. ASSUME NEW u \in Uploads, BeginVerify(v, u) PROVE PublicationInv' /\ ReleaseKept /\ VerifiedKept
      BY <3>1, BeginVerifyKeeps DEF MarketInv
    <3>2. CASE Heartbeat(v) \/ FailVerify(v)
      BY <3>2, LeaseKeeps DEF MarketInv
    <3>3. CASE FinalizeArtifact(v) \/ DeleteQuarantine(v) \/ ReleaseGate(v) \/ AbandonVerify(v) \/ CrashVerifier(v)
      BY <3>3, PhaseKeeps DEF MarketInv
    <3>4. CASE Reserve(v)
      BY <3>4, ReserveKeeps DEF MarketInv
    <3> QED
      BY <2>4, <3>1, <3>2, <3>3, <3>4 DEF Verifying
  <2>5. CASE Releasing
    BY <2>1, <2>5, ReleasingKeeps DEF MarketInv
  <2>6. CASE UNCHANGED publicationVars
    BY <2>1, <2>6 DEF publicationVars, MarketInv, PublicationInv, PublicationTypes, UploadsInv, ReleasesInv, ReceiversInv, VerifiersInv,
                AdmissionInv, ReleaseKept, VerifiedKept
  <2>7. CASE Managing
    BY <2>6, <2>7, ManagingKeeps DEF MarketInv
  <2> QED
    BY <2>1, <2>2, <2>3, <2>4, <2>5, <2>6, <2>7 DEF MarketInv, MarketplaceNext, marketplaceVars
<1>2. CASE ~UNCHANGED ownershipVars
  <2>1. ~Receiving /\ ~Releasing /\ \A v \in Verifiers : ~Verifying(v)
    <3>1. ASSUME NEW v \in Verifiers PROVE ~Verifying(v)
      BY <1>2, BeginVerifyKeeps, LeaseKeeps, PhaseKeeps, ReserveKeeps DEF MarketInv, Verifying
    <3> QED
      BY <1>2, <3>1, ReceivingKeeps, LeaseKeeps, ReleasingKeeps DEF MarketInv
  <2>2. Managing
    BY <1>2, <2>1 DEF MarketplaceNext, marketplaceVars
  <2>3. OwnerInv' /\ OfferKept /\ UNCHANGED publicationVars
    BY <2>2, ManagingKeeps DEF MarketInv
  <2>4. PublicationInv' /\ ReleaseKept /\ VerifiedKept
    BY <2>3 DEF publicationVars, MarketInv, PublicationInv, PublicationTypes, UploadsInv, ReleasesInv, ReceiversInv, VerifiersInv,
                AdmissionInv, ReleaseKept, VerifiedKept
  <2> QED
    BY <2>3, <2>4 DEF MarketInv
<1> QED
  BY <1>1, <1>2

\* The inductive invariant of the marketplace.
THEOREM MarketplaceInvariant == MarketplaceSpec => []MarketInv
<1>1. MarketplaceInit => MarketInv
  BY OwnerInitial, PublicationInitial DEF MarketInv
<1>2. MarketInv /\ [MarketplaceNext]_marketplaceVars => MarketInv'
  BY MarketplaceKeeps
<1> QED
  BY <1>1, <1>2, PTL DEF MarketplaceSpec

(* Ownership, signing keys and releases stay in step: only keys of the     *)
(* present ownership may sign, what is served was verified, one archive is *)
(* verified at a time (PublisherManagement, PublicationService).           *)
THEOREM MarketplaceSoundHolds == MarketplaceSpec => []MarketplaceSound
<1>1. MarketInv => MarketplaceSound
  <2> SUFFICES ASSUME MarketInv PROVE MarketplaceSound
    OBVIOUS
  <2>t. \A u \in Uploads : upload[u] \in UploadRow /\ UploadFits(upload[u]) /\ UploadBacked(u, upload[u], shelf.quarantined, release)
    BY DEF MarketInv, PublicationInv, PublicationTypes, UploadsInv
  <2>1. MarketplaceTypeOK
    <3>1. \A u \in Uploads : upload[u].state \in {"absent", "uploading", "uploaded", "verifying", "verified"} /\ upload[u].attempts \in 0..MaxAttempts
      BY <2>t DEF UploadRow
    <3>2. project.owner \in Publishers /\ project.revision \in 1..MaxOwnership
      BY DEF MarketInv, OwnerInv, ProjectRow
    <3> QED
      BY <2>t, <3>1, <3>2 DEF MarketplaceTypeOK, UploadFits
  <2>2. OwnershipSound
    BY DEF MarketInv, OwnerInv, OwnershipSound, GrantFits
  <2>3. ReleaseBacked
    BY <2>t DEF ReleaseBacked, UploadBacked, MarketInv, PublicationInv, ReleasesInv, ReleaseFits
  <2>4. \A v \in Verifiers : Working(v) <=> WorkOf(v, verifier[v], upload)
    BY DEF Working, WorkOf, Holds
  <2>5. OneVerifier
    BY <2>4, WorkIsOne DEF OneVerifier, MarketInv, PublicationInv, AdmissionInv, Admitted
  <2> QED
    BY <2>1, <2>2, <2>3, <2>5 DEF MarketplaceSound
<1> QED
  BY MarketplaceInvariant, <1>1, PTL

(* A version keeps its bytes, a revoked release stays revoked, a project   *)
(* changes hands only by an offer of its present ownership, and an upload  *)
(* is verified only under the ownership it was admitted under              *)
(* (reserve_ready, set_distribution, accept_transfer).                     *)
THEOREM ReleaseFixedHolds == MarketplaceSpec => ReleaseFixed
<1>1. MarketInv /\ [MarketplaceNext]_marketplaceVars => [OfferKept /\ ReleaseKept /\ VerifiedKept]_marketplaceVars
  BY MarketplaceKeeps
<1>2. [OfferKept /\ ReleaseKept /\ VerifiedKept]_marketplaceVars
      => [/\ \A n \in ReleaseVersions : release[n].publication # "absent" =>
                release'[n].archive = release[n].archive /\ release'[n].publisher = release[n].publisher /\ release'[n].publication # "absent"
          /\ \A n \in ReleaseVersions : release[n].distribution = "revoked" => release'[n].distribution = "revoked"
          /\ \A t \in Transfers : transfer'[t].state = "accepted" /\ transfer[t].state # "accepted" => transfer[t].revision = project.revision
          /\ \A u \in Uploads : upload'[u].state = "verified" /\ upload[u].state # "verified" =>
                upload[u].revision = project.revision /\ \E v \in Verifiers : verifier[v].upload = u /\ verifier[v].generation = upload[u].generation
                                                                               /\ verifier'[v].phase = "reserved"]_marketplaceVars
  BY DEF OfferKept, ReleaseKept, VerifiedKept
<1> QED
  BY MarketplaceInvariant, <1>1, <1>2, PTL DEF MarketplaceSpec, ReleaseFixed
=============================================================================
