------------------------------ MODULE Install ------------------------------
(***************************************************************************)
(* The commands that change a workspace: install, remove, lock and ci, and *)
(* verify, which only reads it. A workspace is three records kept in       *)
(* separate files: the manifest (maia.json), the lock (maia.lock.json) and *)
(* the materialized artifacts. No step writes two of them, any step may    *)
(* fail, and the process may die between two steps or inside one; the      *)
(* commands have to keep the records in agreement.                         *)
(*                                                                         *)
(* A command is the sequence Program gives it. A step with an undo is in   *)
(* the command's withRollback block. One command runs at a time.           *)
(*                                                                         *)
(* A dependency is what the manifest declares of a package, a member of    *)
(* Deps. What an artifact holds is a revision, and stands for its hash.    *)
(* Remote skills come from one git source, whose branch may move at any    *)
(* time; local skills and tools come from the running maia. strictVerify   *)
(* is on, its default. Toolkits and agents are steps that succeed or fail. *)
(***************************************************************************)
EXTENDS Integers, Sequences, FiniteSets

CONSTANTS
  RemoteSkills, LocalSkills, Tools, Mcps,  \* the packages, by kind
  Deps,          \* what the manifest may say of a package
  DisabledDeps,  \* those that say enabled: false
  None,          \* no dependency; no snapshot
  NoLock,        \* there is no maia.lock.json
  Offered,       \* the commands that are run
  MaxRevision,   \* bound: revisions of the source, and of maia
  MaxEdits,      \* bound: changes made to the files by hand
  MaxFaults      \* bound: steps that fail and crashes; undos may fail besides

Skills == RemoteSkills \cup LocalSkills
Artifacts == Skills \cup Tools
Packages == Artifacts \cup Mcps
Commands == {"install", "reinstall", "remove", "lock", "ci", "verify"}

ASSUME InstallAssumption ==
  /\ RemoteSkills \cap (LocalSkills \cup Tools \cup Mcps) = {}
  /\ LocalSkills \cap (Tools \cup Mcps) = {}
  /\ Tools \cap Mcps = {}
  /\ DisabledDeps \subseteq Deps
  /\ None \notin Deps
  /\ Offered \subseteq Commands
  /\ MaxRevision \in Nat \ {0}
  /\ MaxEdits \in Nat
  /\ MaxFaults \in Nat

Revisions == 1..MaxRevision
Absent == 0           \* no such file; in the lock, no artifactHash
Torn == -1            \* written or deleted in part
Contents == Revisions \cup {Absent, Torn}

NoSource == -1        \* manifest.sources has no entry for the git source
Branch == 0           \* its ref is a branch; otherwise a commit
Refs == Revisions \cup {NoSource, Branch}

\* Only an install names what it works on, and so does a remove.
VARIABLES
  manifest,    \* the dependency declared for each package
  hub,         \* the ref of the git source in manifest.sources
  lock,        \* the lock file, or NoLock
  disk,        \* what each artifact holds
  tip,         \* the commit the source's branch points to
  bundle,      \* the revision of the skills and tools maia ships
  op, arg,     \* the command under way and the package it names
  pc, phase,   \* its step, and what it is doing
  completed,   \* withRollback's completed: the undos of the steps done
  wave, todo,  \* reinstallFromLock: which Promise.all, and what it still writes
  depBefore,   \* remove: the dependency it found
  lockBefore,  \* the lock before the first change
  before,      \* history: the workspace when the command started
  undone,      \* history: no undo of this command failed
  edits, faults

files == <<manifest, hub, lock, disk>>
world == <<tip, bundle, edits>>
history == <<before, undone>>
locals == <<op, arg, depBefore, lockBefore>>
restore == <<wave, todo>>
vars == <<files, world, history, locals, restore, pc, phase, completed, faults>>

Enabled(d) == d \in Deps \ DisabledDeps
Commit(ref, branchTip) == IF ref = Branch THEN branchTip ELSE ref

\* buildLockFromManifest: what is declared, and the hash of what is on disk now.
Built ==
  [hub    |-> hub,
   commit |-> Commit(hub, tip),
   dep    |-> manifest,
   hash   |-> [p \in Artifacts |-> IF manifest[p] = None THEN Absent ELSE disk[p]]]

Locks == [hub: Refs, commit: Refs, dep: [Packages -> Deps \cup {None}],
          hash: [Artifacts -> Contents]]
ASSUME LockAssumption == NoLock \notin Locks

Snapshots == [manifest: [Packages -> Deps \cup {None}], hub: Refs,
              lock: Locks \cup {NoLock}, disk: [Artifacts -> Contents], tip: Revisions]

\* Mutant: a lock is stale only when a source moved.
StaleBySource == lock.hub # hub \/ lock.commit # Commit(hub, tip)

\* isLockStale: hashes do not count, they are not the manifest's.
Stale == lock.hub # hub \/ lock.commit # Commit(hub, tip) \/ lock.dep # manifest

\* verifySourceLock: an artifact without a hash is a problem as well.
Verifies(l, d, allowMissing) ==
  \A p \in Artifacts : l.dep[p] # None =>
    \/ d[p] = Absent /\ (l.hash[p] = Absent \/ allowMissing)
    \/ d[p] # Absent /\ l.hash[p] = d[p]

\* What reinstallFromLock restores, and with what.
Restored(l, kinds) == {p \in kinds : Enabled(l.dep[p])}
LockedContent(p) == IF p \in RemoteSkills THEN lock.commit ELSE bundle

Outside(run) == [run |-> run, undo |-> "none"]
Within(run, undo) == [run |-> run, undo |-> undo]

InstallArtifact ==
  << Outside("ensureInitialized"), Outside("pinSource"), Outside("materialize"),
     Within("keepPath", "deleteArtifact"),
     Within("addDependency", "removeDependency"),
     Within("buildLock", "saveLock"),
     Outside("restoreAgents") >>

InstallMcp ==
  << Outside("ensureInitialized"),
     Within("envEntries", "nothing"),
     Within("addDependency", "removeDependency"),
     Within("buildLock", "saveLock"),
     Outside("restoreAgents") >>

BareInstall ==
  << Outside("ensureInitialized"), Outside("buildLock"), Outside("reinstallFromLock"),
     Outside("buildLock"), Outside("restoreToolkits"), Outside("restoreAgents") >>

Remove ==
  << Outside("assertPathAllowed"),
     Within("removeDependency", "addDependency"),
     Within("buildLock", "saveLock"),
     Within("deleteArtifact", "nothing") >>

LockCommand == << Outside("buildLock") >>

Ci ==
  << Outside("ensureInitialized"), Outside("gates"),
     Within("reinstallFromLock", "deleteMaterialized"),
     Within("restoreToolkits", "undoToolkits"),
     Outside("verifyLock"), Outside("restoreAgents") >>

Verify == << Outside("verifyLock") >>

Program(o, p) ==
  CASE o = "install" /\ p \in Artifacts -> InstallArtifact
    [] o = "install" /\ p \in Mcps -> InstallMcp
    [] o = "reinstall" -> BareInstall
    [] o = "remove" -> Remove
    [] o = "lock" -> LockCommand
    [] o = "ci" -> Ci
    [] o = "verify" -> Verify

Step == Program(op, arg)[pc]
At(run) == phase = "running" /\ Step.run = run

-----------------------------------------------------------------------------
Init ==
  /\ manifest = [p \in Packages |-> None]
  /\ hub = NoSource
  /\ lock = NoLock
  /\ disk = [p \in Artifacts |-> Absent]
  /\ tip = 1 /\ bundle = 1
  /\ op = "none" /\ arg = None /\ pc = 0 /\ phase = "idle"
  /\ completed = <<>>
  /\ wave = "none" /\ todo = {}
  /\ depBefore = None /\ lockBefore = NoLock
  /\ before = None /\ undone = TRUE
  /\ edits = 0 /\ faults = 0

\* The command's handler is called. remove reads the dependency and the lock
\* first; installs read the lock once ensureInitialized has made one.
Start(o, p) ==
  /\ phase = "idle"
  /\ o \in Offered
  /\ IF o \in {"install", "remove"} THEN p \in Packages ELSE p = None
  /\ op' = o /\ arg' = p /\ pc' = 1 /\ phase' = "running"
  /\ depBefore' = IF o = "remove" THEN manifest[p] ELSE None
  /\ lockBefore' = lock
  /\ before' = [manifest |-> manifest, hub |-> hub, lock |-> lock, disk |-> disk, tip |-> tip]
  /\ undone' = TRUE
  /\ UNCHANGED <<files, world, restore, completed, faults>>

\* Mutant: one step too many.
AdvancePastEnd ==
  /\ completed' = IF Step.undo = "none" THEN <<>> ELSE Append(completed, Step.undo)
  /\ IF pc > Len(Program(op, arg))
     THEN phase' = "ok" /\ pc' = pc
     ELSE phase' = "running" /\ pc' = pc + 1
  /\ UNCHANGED <<op, arg, depBefore, faults>>

\* The step is done. The command's end, or the end of a withRollback block,
\* drops its list of completed steps.
Advance ==
  /\ completed' = IF Step.undo = "none" THEN <<>> ELSE Append(completed, Step.undo)
  /\ IF pc = Len(Program(op, arg))
     THEN phase' = "ok" /\ pc' = pc
     ELSE phase' = "running" /\ pc' = pc + 1
  /\ UNCHANGED <<op, arg, depBefore, faults>>

\* The step throws: inside a block the completed steps are undone, outside one
\* the command ends with the error.
Throw ==
  /\ phase' = IF Step.undo # "none" /\ completed # <<>> THEN "undoing" ELSE "failed"
  /\ wave' = "none"
  /\ UNCHANGED <<locals, pc, completed, history>>

Fault == faults < MaxFaults /\ faults' = faults + 1

-----------------------------------------------------------------------------
\* Steps that succeed.

\* Saves the manifest as it is, and makes the first lock.
EnsureInitialized ==
  /\ At("ensureInitialized")
  /\ lock' = IF lock = NoLock THEN Built ELSE lock
  /\ lockBefore' = lock'
  /\ Advance
  /\ UNCHANGED <<manifest, hub, disk, world, restore, history>>

\* A catalog install saves the source with the branch's commit as its ref; an
\* install from a declared source keeps a ref that is a commit, and replaces a
\* branch by its commit. A source that is not declared is an error (StepFails).
PinSource ==
  /\ At("pinSource")
  /\ IF arg \in RemoteSkills
     THEN hub' \in {tip} \cup (Revisions \cap {hub})
     ELSE hub' = hub
  /\ Advance
  /\ UNCHANGED <<manifest, lock, disk, world, restore, lockBefore, history>>

Materialize ==
  /\ At("materialize")
  /\ disk' = [disk EXCEPT ![arg] = IF arg \in RemoteSkills THEN hub ELSE bundle]
  /\ Advance
  /\ UNCHANGED <<manifest, hub, lock, world, restore, lockBefore, history>>

\* Steps that change none of the three records: the path of the artifact as
\* the first step of the block, the MCP's entries in the environment file, the
\* guardrail, the toolkits and the agents.
Bystander ==
  /\ phase = "running"
  /\ Step.run \in {"keepPath", "envEntries", "assertPathAllowed", "restoreToolkits", "restoreAgents"}
  /\ Advance
  /\ UNCHANGED <<files, world, restore, lockBefore, history>>

AddDependency ==
  /\ At("addDependency")
  /\ \E d \in Deps \ DisabledDeps : manifest' = [manifest EXCEPT ![arg] = d]
  /\ Advance
  /\ UNCHANGED <<hub, lock, disk, world, restore, lockBefore, history>>

RemoveDependency ==
  /\ At("removeDependency")
  /\ manifest' = [manifest EXCEPT ![arg] = None]
  /\ Advance
  /\ UNCHANGED <<hub, lock, disk, world, restore, lockBefore, history>>

\* Mutant: the lock is not written again while it names the same dependencies.
BuildLockIfDeclared ==
  /\ At("buildLock")
  /\ lock' = IF lock # NoLock /\ lock.dep = manifest THEN lock ELSE Built
  /\ Advance
  /\ UNCHANGED <<manifest, hub, disk, world, restore, lockBefore, history>>

BuildLock ==
  /\ At("buildLock")
  /\ lock' = Built
  /\ Advance
  /\ UNCHANGED <<manifest, hub, disk, world, restore, lockBefore, history>>

\* The last step of a removal: the artifact, then the agents.
DeleteArtifact ==
  /\ At("deleteArtifact")
  /\ disk' = [p \in Artifacts |-> IF p = arg THEN Absent ELSE disk[p]]
  /\ Advance
  /\ UNCHANGED <<manifest, hub, lock, world, restore, lockBefore, history>>

\* Mutant: only staleness is checked.
GatesOnStaleness ==
  /\ At("gates")
  /\ IF ~Stale
     THEN Advance /\ UNCHANGED <<wave, lockBefore, history>>
     ELSE Throw /\ UNCHANGED faults
  /\ UNCHANGED <<files, world, todo>>

\* ci's checks before it writes: the lock agrees with the manifest, and with
\* the artifacts that are there.
Gates ==
  /\ At("gates")
  /\ IF ~Stale /\ Verifies(lock, disk, TRUE)
     THEN Advance /\ UNCHANGED <<wave, lockBefore, history>>
     ELSE Throw /\ UNCHANGED faults
  /\ UNCHANGED <<files, world, todo>>

\* ci's last check, and verify. verifyToolkits may add problems (StepFails).
VerifyLock ==
  /\ At("verifyLock")
  /\ IF lock # NoLock /\ Verifies(lock, disk, FALSE)
     THEN Advance /\ UNCHANGED <<wave, lockBefore, history>>
     ELSE Throw /\ UNCHANGED faults
  /\ UNCHANGED <<files, world, todo>>

-----------------------------------------------------------------------------
\* Mutant: the second wave restores the skills again, and no tools.
StartWaveSkillsTwice ==
  /\ At("reinstallFromLock") /\ todo = {} /\ wave \in {"none", "skills"}
  /\ wave' = IF wave = "none" THEN "skills" ELSE "tools"
  /\ todo' = Restored(lock, Skills)
  /\ UNCHANGED <<files, world, history, locals, pc, phase, completed, faults>>

\* reinstallFromLock: all enabled skills at once, then all enabled tools, then
\* the MCPs' environment entries. Each artifact is written without an await.
StartWave ==
  /\ At("reinstallFromLock") /\ todo = {} /\ wave \in {"none", "skills"}
  /\ wave' = IF wave = "none" THEN "skills" ELSE "tools"
  /\ todo' = Restored(lock, IF wave = "none" THEN Skills ELSE Tools)
  /\ UNCHANGED <<files, world, history, locals, pc, phase, completed, faults>>

\* An artifact is written. A rejected Promise.all does not stop the others:
\* they go on after the command has failed, until the process ends.
Rewrite(p) ==
  /\ At("reinstallFromLock") \/ phase = "failed"
  /\ p \in todo
  /\ disk' = [disk EXCEPT ![p] = LockedContent(p)]
  /\ todo' = todo \ {p}
  /\ UNCHANGED <<manifest, hub, lock, world, history, locals, wave, pc, phase, completed, faults>>

\* It cannot be fetched, or is written in part.
RewriteFails(p) ==
  /\ Fault
  /\ p \in todo
  /\ disk' \in {disk, [disk EXCEPT ![p] = Torn]}
  /\ todo' = todo \ {p}
  /\ \/ At("reinstallFromLock") /\ Throw
     \/ phase = "failed" /\ UNCHANGED <<locals, wave, pc, phase, completed, history>>
  /\ UNCHANGED <<manifest, hub, lock, world>>

EndReinstall ==
  /\ At("reinstallFromLock") /\ todo = {} /\ wave = "tools"
  /\ wave' = "none"
  /\ Advance
  /\ UNCHANGED <<files, world, todo, lockBefore, history>>

-----------------------------------------------------------------------------
\* What goes wrong.

LastUndo == completed[Len(completed)]

\* The artifacts being written or deleted: what is interrupted leaves a part.
Deleting ==
  \/ phase = "running" /\ Step.run = "deleteArtifact"
  \/ phase = "undoing" /\ LastUndo = "deleteArtifact"
Working ==
  todo \cup {p \in Artifacts \cap {arg} :
    IF phase = "running" /\ Step.run = "materialize" THEN TRUE ELSE Deleting /\ disk[p] # Absent}
Parts == {[disk EXCEPT ![p] = Torn] : p \in Working}

\* A step throws. The manifest and the lock are replaced as a whole or not at
\* all (writeFileAtomic); an artifact may be left written or deleted in part,
\* and a removal may fail on the agents once the artifact is gone.
StepFails ==
  /\ Fault
  /\ phase = "running" /\ Step.run # "keepPath"
  /\ Step.run = "reinstallFromLock" => todo = {} /\ wave # "skills"
  /\ \/ disk' \in {disk} \cup Parts
     \/ Step.run = "deleteArtifact" /\ disk' = [p \in Artifacts |-> IF p = arg THEN Absent ELSE disk[p]]
  /\ Throw
  /\ UNCHANGED <<manifest, hub, lock, world, todo>>

\* Mutant: only the last completed step is undone.
UndoLastOnly ==
  /\ phase = "undoing"
  /\ completed' = <<>>
  /\ phase' = "failed"
  /\ UNCHANGED <<hub, world, locals, restore, pc, before>>

\* Every undo is tried, whether or not an earlier one failed.
NextUndo ==
  /\ phase = "undoing"
  /\ completed' = SubSeq(completed, 1, Len(completed) - 1)
  /\ phase' = IF Len(completed) = 1 THEN "failed" ELSE "undoing"
  /\ UNCHANGED <<hub, world, locals, restore, pc, before>>

Undo ==
  /\ NextUndo
  /\ manifest' = CASE LastUndo = "removeDependency" -> [manifest EXCEPT ![arg] = None]
                   [] LastUndo = "addDependency" /\ depBefore # None ->
                        [manifest EXCEPT ![arg] = depBefore]
                   [] OTHER -> manifest
  /\ lock' = IF LastUndo = "saveLock" /\ lockBefore # NoLock THEN lockBefore ELSE lock
  /\ disk' = CASE LastUndo = "deleteArtifact" -> [disk EXCEPT ![arg] = Absent]
               [] LastUndo = "deleteMaterialized" ->
                    [p \in Artifacts |-> IF p \in Restored(lock, Artifacts) THEN Absent ELSE disk[p]]
               [] OTHER -> disk
  /\ UNCHANGED <<undone, faults>>

\* The undo throws: withRollback reports it and goes on with the next one.
UndoFails ==
  /\ NextUndo
  /\ disk' \in CASE LastUndo = "deleteArtifact" -> {disk} \cup Parts
                 [] LastUndo = "deleteMaterialized" ->
                      {[p \in Artifacts |-> IF p \in gone THEN Absent ELSE disk[p]] :
                         gone \in SUBSET Restored(lock, Artifacts)}
                 [] OTHER -> {disk}
  /\ undone' = FALSE
  /\ UNCHANGED <<manifest, lock, faults>>

\* The process is killed, perhaps while it writes or deletes an artifact.
Crash ==
  /\ Fault
  /\ phase \in {"running", "undoing"} \/ (phase = "failed" /\ todo # {})
  /\ disk' \in {disk} \cup Parts
  /\ phase' = "crashed"
  /\ completed' = <<>> /\ wave' = "none" /\ todo' = {}
  /\ UNCHANGED <<manifest, hub, lock, world, locals, pc, history>>

\* Nothing keeps the process alive any more.
Stopped == phase \in {"ok", "failed", "crashed"} /\ todo = {}

End ==
  /\ Stopped
  /\ phase' = "idle" /\ op' = "none" /\ arg' = None /\ pc' = 0
  /\ completed' = <<>> /\ depBefore' = None /\ lockBefore' = NoLock
  /\ before' = None /\ undone' = TRUE
  /\ UNCHANGED <<files, world, restore, faults>>

-----------------------------------------------------------------------------
\* The world around the commands.

\* Someone pushes to the branch, at any time.
Push ==
  /\ tip < MaxRevision
  /\ tip' = tip + 1
  /\ UNCHANGED <<files, bundle, edits, history, locals, restore, pc, phase, completed, faults>>

\* maia is upgraded between two commands.
Upgrade ==
  /\ phase = "idle" /\ bundle < MaxRevision
  /\ bundle' = bundle + 1
  /\ UNCHANGED <<files, tip, edits, history, locals, restore, pc, phase, completed, faults>>

Edit ==
  /\ phase = "idle" /\ edits < MaxEdits
  /\ edits' = edits + 1
  /\ UNCHANGED <<tip, bundle, history, locals, restore, pc, phase, completed, faults>>

\* maia.json is edited: a dependency is added, changed, disabled or dropped. A
\* remote skill is declared together with its source.
EditManifest ==
  /\ Edit
  /\ \E p \in Packages, d \in Deps \cup {None} :
       /\ manifest' = [manifest EXCEPT ![p] = d]
       /\ hub' = IF p \in RemoteSkills /\ d # None /\ hub = NoSource THEN Branch ELSE hub
  /\ UNCHANGED <<lock, disk>>

\* An artifact is changed by hand.
EditArtifact ==
  /\ Edit
  /\ \E p \in Artifacts, c \in Contents : disk' = [disk EXCEPT ![p] = c]
  /\ UNCHANGED <<manifest, hub, lock>>

\* A clean checkout: the manifest and the lock are committed, artifacts are not.
Checkout ==
  /\ Edit
  /\ disk' = [p \in Artifacts |-> Absent]
  /\ UNCHANGED <<manifest, hub, lock>>

LoseLock ==
  /\ Edit
  /\ lock' = NoLock
  /\ UNCHANGED <<manifest, hub, disk>>

Next ==
  \/ \E o \in Offered, p \in Packages \cup {None} : Start(o, p)
  \/ EnsureInitialized \/ PinSource \/ Materialize \/ Bystander
  \/ AddDependency \/ RemoveDependency \/ BuildLock \/ DeleteArtifact
  \/ Gates \/ VerifyLock
  \/ StartWave \/ (\E p \in Artifacts : Rewrite(p) \/ RewriteFails(p)) \/ EndReinstall
  \/ StepFails \/ Undo \/ UndoFails \/ Crash \/ End
  \/ Push \/ Upgrade \/ EditManifest \/ EditArtifact \/ Checkout \/ LoseLock

Spec == Init /\ [][Next]_vars

-----------------------------------------------------------------------------
\* The files, the command and its locals have the values the code gives them.
TypeOK ==
  /\ manifest \in [Packages -> Deps \cup {None}]
  /\ hub \in Refs
  /\ lock \in Locks \cup {NoLock}
  /\ disk \in [Artifacts -> Contents]
  /\ tip \in Revisions /\ bundle \in Revisions
  /\ op \in Commands \cup {"none"} /\ arg \in Packages \cup {None}
  /\ phase \in {"idle", "running", "undoing", "ok", "failed", "crashed"}
  /\ phase # "idle" => pc \in 1..Len(Program(op, arg))
  /\ completed \in Seq({"deleteArtifact", "removeDependency", "addDependency", "saveLock",
                       "deleteMaterialized", "undoToolkits", "nothing"})
  /\ wave \in {"none", "skills", "tools"} /\ todo \subseteq Artifacts
  /\ depBefore \in Deps \cup {None} /\ lockBefore \in Locks \cup {NoLock}
  /\ before \in Snapshots \cup {None} /\ undone \in BOOLEAN
  /\ edits \in 0..MaxEdits /\ faults \in 0..MaxFaults

\* After an install, a removal, a bare install or a lock that got past its last
\* buildLock, however it ended, the lock records what the manifest declares and
\* the hash of what is on disk (specs/003, FR-008), whatever crashed before it.
SuccessRecorded ==
  Stopped /\ op \in {"install", "reinstall", "remove", "lock"}
  /\ (phase = "ok" \/ Step.run = "restoreAgents") =>
    /\ lock # NoLock
    /\ lock = [Built EXCEPT !.commit = lock.commit]

\* A bare install that succeeds mends the workspace whatever state crashes,
\* failures and edits left it in: each enabled artifact is whole, recorded, and,
\* unless the branch moved meanwhile, at the commit the lock names.
InstallHeals ==
  Stopped /\ phase = "ok" /\ op = "reinstall" =>
    \A p \in Artifacts : Enabled(manifest[p]) =>
      /\ disk[p] \in Revisions /\ lock.hash[p] = disk[p]
      /\ hub # Branch \/ tip = before.tip => disk[p] = LockedContent(p)

\* withRollback: a removal, or the install of a package that was neither declared
\* nor on disk, that fails inside its block leaves the manifest and the lock as
\* it found them, and an install leaves no artifact behind.
BlockUndone ==
  /\ Stopped /\ phase = "failed" /\ undone /\ Step.undo # "none"
  /\ \/ op = "remove" /\ before.lock # NoLock
     \/ op = "install" /\ before.manifest[arg] = None /\ (arg \in Artifacts => before.disk[arg] = Absent)
  => /\ manifest = before.manifest
     /\ lock = lockBefore
     /\ \A p \in Artifacts : disk[p] = before.disk[p] \/ (op = "remove" /\ p = arg)

\* A ci that succeeds vouches for the workspace: the manifest is what is locked,
\* and each enabled artifact is whole, at the locked commit, with its hash in
\* the lock (README: "restores the locked artifacts, and then verifies").
CiVouches ==
  Stopped /\ phase = "ok" /\ op = "ci" =>
    /\ lock.dep = manifest /\ lock.hub = hub
    /\ \A p \in Artifacts : Enabled(manifest[p]) =>
         disk[p] = LockedContent(p) /\ lock.hash[p] = disk[p]

\* ci has touched no artifact unless the lock it found, or made, agreed with the
\* manifest and with every artifact that was there (specs/004, SC-004).
CiChecksFirst ==
  op = "ci" /\ disk # before.disk =>
    /\ lock.dep = before.manifest /\ lock.hub = before.hub
    /\ Verifies(lock, before.disk, TRUE)
    /\ before.lock # NoLock => lock = before.lock

\* Claimed of the lock command (specs/004, FR-007): its lock is always something
\* ci can restore, so no hash in it is that of another commit than the one named.
LockRestorable ==
  Stopped /\ phase = "ok" /\ op = "lock" =>
    \A p \in RemoteSkills : Enabled(lock.dep[p]) => lock.hash[p] \in {Absent, lock.commit}

\* Claimed of withRollback (install.rollback.ts:6-7) and of ci (specs/004,
\* FR-009): an operation that fails leaves the records as they were, and no
\* artifact that was there is gone.
FailureUndone ==
  Stopped /\ phase = "failed" /\ undone /\ op \in {"install", "remove", "ci"} =>
    /\ manifest = before.manifest /\ hub = before.hub
    /\ before.lock # NoLock => lock = before.lock
    /\ \A p \in Artifacts : before.disk[p] # Absent => disk[p] # Absent
=============================================================================
