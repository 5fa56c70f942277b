------------------------------ MODULE Toolkits ------------------------------
(***************************************************************************)
(* The commands about the toolkit: installing it at a version, removing    *)
(* it, and restoring it from the lock (maia i, maia ci). A native          *)
(* installer does the work; Maia decides whether it may run, undoes what a *)
(* failed one left, and records the result in the manifest and the lock.   *)
(* The agents are configured at the end.                                   *)
(*                                                                         *)
(* A native command may fail after writing any of its files. Skills, tools *)
(* and servers, which maia i and maia ci restore first, are in Install.    *)
(***************************************************************************)
EXTENDS AgentConfig, ToolkitPlan

VARIABLES
  toolkit,     \* manifest.toolkits.speckit: its version and scope, or NoToolkit
  disk,        \* the files of the workspace
  globalTool,  \* the version of the tool on the machine, or Gone
  policy,      \* .maia/guardrails.json
  kit,         \* the locals of the command under way
  found        \* history: the workspace when it started

kitVars == <<toolkit, disk, globalTool, policy, kit, found>>
allVars == <<agentVars, kitVars>>

\* The lock's entry follows from the manifest alone.
BuildToolkitLockEntries(dependency, agentIds) ==
  IF dependency = NoToolkit THEN NoToolkit
  ELSE LET integrations == ResolveToolkitIntegrations(agentIds)
       IN [version |-> dependency.version, scope |-> dependency.scope,
           integrations |-> integrations, paths |-> CollectToolkitPathPatterns(integrations)]

\* goal is the version and scope to install, previous what the manifest said
\* and entry what the lock said before.
NoKit ==
  [mode |-> "none", goal |-> NoToolkit, previous |-> NoToolkit, entry |-> NoToolkit, before |-> {}, patterns |-> {},
   queue |-> <<>>, switching |-> FALSE, blocked |-> {}]
Contents == Versions \cup {Gone, Junk}
Dependency(version, scope) == [version |-> version, scope |-> scope]
Expected == IF kit.mode = "restore" THEN locked ELSE kit.goal

Leave(result) == pc' = "idle" /\ outcome' = result /\ UNCHANGED <<task, unsettled>>
\* After the lock has changed: the agents' blocks do not say so yet.
LeaveBehind == pc' = "idle" /\ outcome' = "failed" /\ unsettled' = Agents /\ UNCHANGED task
At(step) == pc' = step /\ UNCHANGED <<task, outcome, unsettled>>

BeginKit ==
  /\ Begin("toolkits")
  /\ start' = NoStart
  /\ found' = [toolkit |-> toolkit, locked |-> locked, disk |-> disk, policy |-> policy]
  /\ UNCHANGED <<agents, installed, materialized, files, disk, globalTool, policy>>

\* What toolkit i knows before it asks; switching versions overwrites files,
\* so the guardrail is asked first.
InstallToolkit(version, requestedGlobal) ==
  LET goal == Dependency(version, ResolveEffectiveScope(requestedGlobal))
      state == DetectToolkitState(goal, disk, globalTool)
      integrations == ResolveToolkitIntegrations(agents)
      patterns == CollectToolkitPathPatterns(integrations)
      verdict == AssertToolkitPathsAllowed(disk, SnapshotToolkitPaths(disk, patterns), policy)
      plan == [NoKit EXCEPT !.mode = "install", !.goal = goal, !.entry = locked,
                 !.patterns = patterns, !.switching = state = "mismatch",
                 !.queue = BuildToolkitInstallCommands(goal, integrations, state, globalTool)]
  IN /\ BeginKit
     /\ kit' = IF state = "installed" THEN [plan EXCEPT !.queue = <<>>] ELSE plan
     /\ IF state = "installed"
        THEN IF toolkit = goal THEN Leave("ok")
             ELSE pc' = "record" /\ outcome' = "none" /\ UNCHANGED <<task, unsettled>>
        ELSE IF plan.switching /\ (verdict.throws \/ verdict.blocked # {})
        THEN Leave("failed")
        ELSE pc' = "proceed" /\ outcome' = "none" /\ UNCHANGED <<task, unsettled>>
     /\ UNCHANGED <<toolkit, locked>>

\* The release cannot be resolved, or a prerequisite is missing.
RefuseToolkit ==
  /\ BeginKit
  /\ Leave("failed")
  /\ kit' = [NoKit EXCEPT !.mode = "install"]
  /\ UNCHANGED <<toolkit, locked>>

Proceed(accepted) ==
  /\ pc = "proceed"
  /\ IF accepted THEN At("run") ELSE Leave("failed")
  /\ kit' = [kit EXCEPT !.before = SnapshotToolkitPaths(disk, kit.patterns)]
  /\ UNCHANGED <<records, files, bounds, history, toolkit, disk, globalTool, policy, found>>

\* A native command: all of its files, or, when it fails, any of them.
Written(S) == [f \in Paths |-> IF f \in S THEN Expected.version ELSE disk[f]]

RunToolkitCommand ==
  /\ pc = "run"
  /\ kit.queue # <<>>
  /\ disk' = Written(Writes(Head(kit.queue)))
  /\ globalTool' = IF Head(kit.queue).run = "installGlobalTool" THEN Expected.version ELSE globalTool
  /\ kit' = [kit EXCEPT !.queue = Tail(@)]
  /\ UNCHANGED <<records, files, control, bounds, history, toolkit, policy, found>>

ToolkitCommandFails ==
  /\ pc = "run"
  /\ kit.queue # <<>>
  /\ \E S \in SUBSET Writes(Head(kit.queue)) : disk' = Written(S)
  /\ At("rollback")
  /\ UNCHANGED <<records, files, bounds, history, toolkit, globalTool, policy, kit, found>>

ToolkitCommandsDone ==
  /\ pc = "run"
  /\ kit.queue = <<>>
  /\ IF kit.mode = "install" THEN At("record") ELSE RestoreConfiguredAgents(FALSE, {})
  /\ UNCHANGED <<records, files, bounds, history, toolkit, disk, globalTool, policy, kit, found>>

\* deleteToolkitPaths: a path is deleted with everything below it.
Deleted(paths) == [f \in Paths |-> IF \E p \in paths : IsPrefix(p, f) THEN Gone ELSE disk[f]]

\* Mutant: a toolkit whose version file is there counts as installed, and is left.
RollbackUnlessInstalled ==
  /\ pc = "rollback"
  /\ LET created == SnapshotToolkitPaths(disk, kit.patterns) \ kit.before
         verdict == AssertToolkitPathsAllowed(disk, created, policy)
     IN disk' = IF verdict.throws \/ ProjectVersion(disk) = Expected.version THEN disk
                ELSE Deleted(verdict.allowed)
  /\ Leave("failed")
  /\ UNCHANGED <<records, files, bounds, history, toolkit, globalTool, policy, kit, found>>

\* Only what was not there before, and the guardrail allows.
RollbackNewToolkitPaths ==
  /\ pc = "rollback"
  /\ LET created == SnapshotToolkitPaths(disk, kit.patterns) \ kit.before
         verdict == AssertToolkitPathsAllowed(disk, created, policy)
     IN disk' = IF verdict.throws THEN disk ELSE Deleted(verdict.allowed)
  /\ Leave("failed")
  /\ UNCHANGED <<records, files, bounds, history, toolkit, globalTool, policy, kit, found>>

\* recordToolkit: the manifest, then the lock, or neither.
RecordToolkit ==
  /\ pc = "record"
  /\ toolkit' = kit.goal
  /\ kit' = [kit EXCEPT !.previous = toolkit]
  /\ At("relock")
  /\ UNCHANGED <<records, files, bounds, history, disk, globalTool, policy, found>>

\* buildLock, then the agents' blocks.
Relock ==
  /\ pc = "relock"
  /\ locked' = BuildToolkitLockEntries(toolkit, agents)
  /\ IF kit.mode = "remove" THEN At("question") ELSE RestoreConfiguredAgents(FALSE, {})
  /\ UNCHANGED <<agents, installed, materialized, files, bounds, history, kitVars>>

\* Mutant: the manifest is not put back.
RelockFailsHalf ==
  /\ pc = "relock"
  /\ Leave("failed")
  /\ UNCHANGED <<records, files, bounds, history, kitVars>>

\* A source's commit cannot be resolved, or the lock cannot be written.
RelockFails ==
  /\ pc = "relock"
  /\ toolkit' = kit.previous
  /\ Leave("failed")
  /\ UNCHANGED <<records, files, bounds, history, disk, globalTool, policy, kit, found>>

RemoveToolkit ==
  /\ BeginKit
  /\ IF toolkit = NoToolkit
     THEN Leave("failed") /\ kit' = NoKit /\ UNCHANGED toolkit
     ELSE /\ toolkit' = NoToolkit
          /\ kit' = [NoKit EXCEPT !.mode = "remove", !.previous = toolkit, !.entry = locked]
          /\ pc' = "relock" /\ outcome' = "none" /\ UNCHANGED <<task, unsettled>>
  /\ UNCHANGED locked

EntryPaths == IF kit.entry = NoToolkit THEN Speckit.projectPaths ELSE kit.entry.paths

\* The files are deleted only when the user says so.
AnswerDeletion(accepted) ==
  /\ pc = "question"
  /\ IF accepted /\ SnapshotToolkitPaths(disk, EntryPaths) # {}
     THEN /\ kit' = [kit EXCEPT !.queue =
                       IF kit.entry = NoToolkit THEN <<>>
                       ELSE [i \in DOMAIN kit.entry.integrations |->
                               Command("removeIntegration", kit.entry.integrations[i])]]
          /\ At("uninstall")
     ELSE RestoreConfiguredAgents(FALSE, {}) /\ UNCHANGED kit
  /\ UNCHANGED <<records, files, bounds, history, toolkit, disk, globalTool, policy, found>>

\* Mutant: the uninstaller runs whatever the guardrail says.
UninstallUnguarded ==
  /\ pc = "uninstall"
  /\ kit.queue # <<>>
  /\ LET own == Under({Speckit.integrationPaths[Head(kit.queue).key]})
     IN \E S \in SUBSET own : disk' = [f \in Paths |-> IF f \in S THEN Gone ELSE disk[f]]
  /\ kit' = [kit EXCEPT !.queue = Tail(@)]
  /\ UNCHANGED <<records, files, control, bounds, history, toolkit, globalTool, policy, found>>

\* The integration's uninstaller deletes any of its files, when the guardrail
\* lets it run at all; that it fails is only reported.
UninstallIntegration ==
  /\ pc = "uninstall"
  /\ kit.queue # <<>>
  /\ LET pattern == {Speckit.integrationPaths[Head(kit.queue).key]}
         verdict == AssertToolkitPathsAllowed(disk, SnapshotToolkitPaths(disk, pattern), policy)
     IN IF verdict.throws THEN LeaveBehind /\ UNCHANGED <<disk, kit>>
        ELSE /\ kit' = [kit EXCEPT !.queue = Tail(@), !.blocked = @ \cup verdict.blocked]
             /\ IF verdict.blocked # {} THEN UNCHANGED disk
                ELSE \E S \in SUBSET Under(pattern) :
                       disk' = [f \in Paths |-> IF f \in S THEN Gone ELSE disk[f]]
             /\ UNCHANGED control
  /\ UNCHANGED <<records, files, bounds, history, toolkit, globalTool, policy, found>>

DeleteToolkitPaths ==
  /\ pc = "uninstall"
  /\ kit.queue = <<>>
  /\ LET remaining == SnapshotToolkitPaths(disk, EntryPaths) \ kit.blocked
         verdict == AssertToolkitPathsAllowed(disk, remaining, policy)
     IN IF verdict.throws THEN LeaveBehind /\ UNCHANGED disk
        ELSE disk' = Deleted(verdict.allowed) /\ RestoreConfiguredAgents(FALSE, {})
  /\ UNCHANGED <<records, files, bounds, history, toolkit, globalTool, policy, kit, found>>

\* restoreToolkits, with the lock maia i has just built or ci has read; ci
\* refuses a lock that is not what the manifest says.
RestoreToolkits(mode) ==
  LET built == BuildToolkitLockEntries(toolkit, agents)
      lock == IF mode = "install" THEN built ELSE locked
      state == DetectToolkitState(lock, disk, globalTool)
  IN /\ BeginKit
     /\ locked' = lock
     /\ IF (mode = "ci" /\ locked # built) \/ (lock # NoToolkit /\ state = "mismatch")
        THEN Leave("failed") /\ kit' = NoKit
        ELSE IF lock = NoToolkit
        THEN RestoreConfiguredAgents(FALSE, {}) /\ kit' = NoKit
        ELSE /\ kit' = [NoKit EXCEPT !.mode = "restore", !.patterns = lock.paths,
                          !.before = SnapshotToolkitPaths(disk, lock.paths),
                          !.queue = IF state = "installed" THEN <<>>
                                    ELSE BuildToolkitInstallCommands(lock, lock.integrations, state, globalTool)]
             /\ pc' = "run" /\ outcome' = "none" /\ UNCHANGED <<task, unsettled>>
     /\ UNCHANGED toolkit

\* The process dies, and with it the native command it waits for.
KillToolkit ==
  /\ pc \in {"run", "rollback", "relock", "uninstall"}
  /\ edits + kills < MaxFaults
  /\ kills' = kills + 1
  /\ pc' = "idle" /\ outcome' = "killed" /\ unsettled' = Agents /\ kit' = NoKit
  /\ IF pc = "run" /\ kit.queue # <<>>
     THEN \E S \in SUBSET Writes(Head(kit.queue)) : disk' = Written(S)
     ELSE UNCHANGED disk
  /\ UNCHANGED <<task, records, files, commands, edits, menu, history, toolkit, globalTool, policy, found>>

\* While a question waits; what was there before is the initial disk.
EditDisk(f) ==
  /\ pc \in {"proceed", "question"}
  /\ edits + kills < MaxFaults
  /\ edits' = edits + 1
  /\ touched' = TRUE
  /\ disk' = [disk EXCEPT ![f] = IF @ = Gone THEN Junk ELSE Gone]
  /\ UNCHANGED <<records, files, control, commands, kills, menu, torn, start, toolkit, globalTool,
                 policy, kit, found>>

ToolkitNext ==
  \/ \E v \in Versions, g \in BOOLEAN : InstallToolkit(v, g)
  \/ RefuseToolkit
  \/ \E accepted \in BOOLEAN : Proceed(accepted) \/ AnswerDeletion(accepted)
  \/ RunToolkitCommand
  \/ ToolkitCommandFails
  \/ ToolkitCommandsDone
  \/ RollbackNewToolkitPaths
  \/ RecordToolkit
  \/ Relock
  \/ RelockFails
  \/ RemoveToolkit
  \/ UninstallIntegration
  \/ DeleteToolkitPaths
  \/ \E mode \in {"install", "ci"} : RestoreToolkits(mode)
  \/ KillToolkit
  \/ \E f \in Paths : EditDisk(f)

ToolkitInit(scene) ==
  /\ toolkit = NoToolkit
  /\ disk = scene.disk
  /\ globalTool = Gone
  /\ policy = scene.policy
  /\ kit = NoKit
  /\ found = NoStart

-----------------------------------------------------------------------------
ToolkitTypeOK ==
  /\ toolkit # NoToolkit => toolkit.version \in Versions /\ toolkit.scope \in Scopes
  /\ disk \in [Paths -> Contents]
  /\ globalTool \in Versions \cup {Gone}
  /\ kit.mode \in {"none", "install", "remove", "restore"}
  /\ \A p \in kit.before : \E f \in Paths : IsPrefix(p, f)

\* The guardrail denies the file, or a directory of it that is the toolkit's own.
Denied(f, p) == \E n \in Len(p)..Len(f) : AssertPathAllowed(SubSeq(f, 1, n), policy) # 0
Guarded(f) == \E p \in PathsOf(ToolkitPatterns) : IsPrefix(p, f) /\ Denied(f, p)

(***************************************************************************)
(* An installation or a restore that fails leaves what it found: no file   *)
(* that was there is deleted, and the manifest and the lock still say what *)
(* they said, or what is installed. When a native command failed, what is  *)
(* new is deleted again unless it is in a directory of the toolkit that    *)
(* was there before or the guardrail keeps it. Only the installer's own    *)
(* failure undoes its files: when all of it ran and what follows fails,    *)
(* they stay and are complete, even unrecorded, which is what buildLock    *)
(* failing in recordToolkit leaves of a first installation.                *)
(***************************************************************************)
InstallerRan == kit.queue = <<>> /\ ProjectVersion(disk) = Expected.version
KeptByGuardrail(f) == \E g \in Paths : disk[g] # Gone /\ Guarded(g) /\ Head(f) = Head(g)
FailedInstallUndone ==
  pc = "idle" /\ outcome = "failed" /\ kit.mode \in {"install", "restore"} /\ ~touched =>
    /\ \A f \in Paths : found.disk[f] # Gone => disk[f] # Gone
    /\ \A f \in Paths : disk[f] # Gone /\ found.disk[f] = Gone =>
         \/ KeptByGuardrail(f)
         \/ \E p \in kit.before : IsPrefix(p, f)
         \/ InstallerRan
    /\ kit.mode = "install" =>
         \/ toolkit = found.toolkit /\ locked = found.locked
         \/ toolkit # NoToolkit /\ ProjectVersion(disk) = toolkit.version

(***************************************************************************)
(* Maia deletes no file that the guardrail protects, in a rollback or in a *)
(* removal, itself or through an uninstaller, and lets no installer change *)
(* one when it switches versions, unless the user made it in the meantime.   *)
(***************************************************************************)
GuardedKept ==
  [][\A f \in Paths : disk[f] # Gone /\ disk'[f] # disk[f] /\ edits' = edits /\ Guarded(f) =>
       pc = "run" /\ (~kit.switching \/ touched) /\ disk'[f] # Gone]_allVars

(***************************************************************************)
(* Between commands the lock pins the toolkit the manifest declares, at    *)
(* its version and in its scope, whatever step failed; a kill between the  *)
(* two writes is the exception.                                            *)
(***************************************************************************)
LockFollowsManifest ==
  pc = "idle" /\ kills = 0 =>
    IF toolkit = NoToolkit THEN locked = NoToolkit
    ELSE locked # NoToolkit /\ Dependency(locked.version, locked.scope) = toolkit
=============================================================================
