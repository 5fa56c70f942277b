--------------------------- MODULE InstallProofs ---------------------------
(***************************************************************************)
(* Proofs about Install, for any packages, dependencies and bounds.        *)
(*                                                                         *)
(* The argument is positional: what a command has changed so far follows   *)
(* from its step and from completed, the undos of the steps done. IInv is  *)
(* what every state satisfies; CiInv, BlockInv, RecordedInv and HealInv    *)
(* add, for each property, how the files differ from what the command      *)
(* found, or what it has restored so far.                                  *)
(***************************************************************************)
EXTENDS Install, TLAPS, SequenceTheorems

\* Lists of undos: one more, and without the last.
LEMMA AppendOne ==
  ASSUME NEW S, NEW s \in Seq(S), NEW x \in S
  PROVE  /\ Len(Append(s, x)) = Len(s) + 1 /\ Append(s, x)[Len(s) + 1] = x
         /\ \A i \in 1..Len(s) : Append(s, x)[i] = s[i]
  OBVIOUS

LEMMA One ==
  ASSUME NEW n, n = 1
  PROVE  1 \in 1..n /\ n + 1 = 2
  OBVIOUS

LEMMA AppendSecond ==
  ASSUME NEW S, NEW s \in Seq(S), NEW x \in S, Len(s) = 1
  PROVE  Len(Append(s, x)) = 2 /\ Append(s, x)[1] = s[1] /\ Append(s, x)[2] = x
<1>1. /\ Len(Append(s, x)) = Len(s) + 1 /\ Append(s, x)[Len(s) + 1] = x
      /\ \A i \in 1..Len(s) : Append(s, x)[i] = s[i]
  BY AppendOne, SMTT(30)
<1>2. 1 \in 1..Len(s) /\ Len(s) + 1 = 2
  BY One, Zenon
<1> QED
  BY <1>1, <1>2, Zenon

LEMMA DropLast ==
  ASSUME NEW S, NEW s \in Seq(S), s # <<>>
  PROVE  /\ Len(s) \in Nat \ {0} /\ s[Len(s)] \in S
         /\ SubSeq(s, 1, Len(s) - 1) \in Seq(S)
         /\ Len(SubSeq(s, 1, Len(s) - 1)) = Len(s) - 1
         /\ \A i \in 1..(Len(s) - 1) : SubSeq(s, 1, Len(s) - 1)[i] = s[i]
<1> DEFINE n == Len(s) - 1
<1>1. n \in Nat /\ (\A i \in 1..n : s[i] \in S) /\ Len(s) \in Nat \ {0} /\ s[Len(s)] \in S
  OBVIOUS
<1>2. n = Len(s) - 1
  OBVIOUS
<1> HIDE DEF n
<1>3. /\ SubSeq(s, 1, n) \in Seq(S)
      /\ Len(SubSeq(s, 1, n)) = IF 1 <= n THEN n - 1 + 1 ELSE 0
  BY <1>1, SubSeqProperties
<1>4. Len(SubSeq(s, 1, n)) = n
  BY <1>1, <1>3
<1>5. \A i \in 1..n : SubSeq(s, 1, n)[i] = s[i]
  <2>1. \A i \in 1..(n - 1 + 1) : SubSeq(s, 1, n)[i] = s[1 + i - 1]
    BY <1>1, SubSeqProperties
  <2> QED
    BY <1>1, <2>1
<1> QED
  BY <1>1, <1>3, <1>4, <1>5 DEF n

USE InstallAssumption

-----------------------------------------------------------------------------
\* The programs.

Undos == {"deleteArtifact", "removeDependency", "addDependency", "saveLock",
          "deleteMaterialized", "undoToolkits", "nothing"}

\* What a command that names a package works on.
ValidCommand(o, p) ==
  /\ o \in Commands
  /\ o \in {"install", "remove"} => p \in Packages

\* The steps of each program, one by one.
LEMMA InstallArtifactProgram ==
  ASSUME NEW p \in Artifacts
  PROVE  LET P == Program("install", p) IN
         /\ Len(P) = 7
         /\ P[1].run = "ensureInitialized" /\ P[1].undo = "none"
         /\ P[2].run = "pinSource" /\ P[2].undo = "none"
         /\ P[3].run = "materialize" /\ P[3].undo = "none"
         /\ P[4].run = "keepPath" /\ P[4].undo = "deleteArtifact"
         /\ P[5].run = "addDependency" /\ P[5].undo = "removeDependency"
         /\ P[6].run = "buildLock" /\ P[6].undo = "saveLock"
         /\ P[7].run = "restoreAgents" /\ P[7].undo = "none"
<1>1. p \notin Mcps
  BY DEF InstallAssumption, Artifacts, Skills
<1> QED
  BY <1>1 DEF Program, InstallArtifact, Outside, Within

LEMMA InstallMcpProgram ==
  ASSUME NEW p \in Mcps
  PROVE  LET P == Program("install", p) IN
         /\ Len(P) = 5
         /\ P[1].run = "ensureInitialized" /\ P[1].undo = "none"
         /\ P[2].run = "envEntries" /\ P[2].undo = "nothing"
         /\ P[3].run = "addDependency" /\ P[3].undo = "removeDependency"
         /\ P[4].run = "buildLock" /\ P[4].undo = "saveLock"
         /\ P[5].run = "restoreAgents" /\ P[5].undo = "none"
<1>1. p \notin Artifacts
  BY DEF InstallAssumption, Artifacts, Skills
<1> QED
  BY <1>1 DEF Program, InstallMcp, Outside, Within

LEMMA ReinstallProgram ==
  ASSUME NEW p
  PROVE  LET P == Program("reinstall", p) IN
         /\ Len(P) = 6
         /\ P[1].run = "ensureInitialized" /\ P[1].undo = "none"
         /\ P[2].run = "buildLock" /\ P[2].undo = "none"
         /\ P[3].run = "reinstallFromLock" /\ P[3].undo = "none"
         /\ P[4].run = "buildLock" /\ P[4].undo = "none"
         /\ P[5].run = "restoreToolkits" /\ P[5].undo = "none"
         /\ P[6].run = "restoreAgents" /\ P[6].undo = "none"
  BY DEF Program, BareInstall, Outside, Within

LEMMA RemoveProgram ==
  ASSUME NEW p
  PROVE  LET P == Program("remove", p) IN
         /\ Len(P) = 4
         /\ P[1].run = "assertPathAllowed" /\ P[1].undo = "none"
         /\ P[2].run = "removeDependency" /\ P[2].undo = "addDependency"
         /\ P[3].run = "buildLock" /\ P[3].undo = "saveLock"
         /\ P[4].run = "deleteArtifact" /\ P[4].undo = "nothing"
  BY DEF Program, Remove, Outside, Within

LEMMA CiProgram ==
  ASSUME NEW p
  PROVE  LET P == Program("ci", p) IN
         /\ Len(P) = 6
         /\ P[1].run = "ensureInitialized" /\ P[1].undo = "none"
         /\ P[2].run = "gates" /\ P[2].undo = "none"
         /\ P[3].run = "reinstallFromLock" /\ P[3].undo = "deleteMaterialized"
         /\ P[4].run = "restoreToolkits" /\ P[4].undo = "undoToolkits"
         /\ P[5].run = "verifyLock" /\ P[5].undo = "none"
         /\ P[6].run = "restoreAgents" /\ P[6].undo = "none"
  BY DEF Program, Ci, Outside, Within

LEMMA ShortPrograms ==
  ASSUME NEW p
  PROVE  /\ Len(Program("lock", p)) = 1 /\ Len(Program("verify", p)) = 1
         /\ Program("lock", p)[1].run = "buildLock" /\ Program("lock", p)[1].undo = "none"
         /\ Program("verify", p)[1].run = "verifyLock" /\ Program("verify", p)[1].undo = "none"
  BY DEF Program, LockCommand, Verify, Outside, Within

LEMMA ProgramType ==
  ASSUME NEW o, NEW p, ValidCommand(o, p)
  PROVE  /\ Len(Program(o, p)) \in 1..7
         /\ \A i \in 1..Len(Program(o, p)) : Program(o, p)[i].undo \in Undos \cup {"none"}
<1>1. CASE o = "install" /\ p \in Artifacts
  BY <1>1, InstallArtifactProgram DEF Undos
<1>2. CASE o = "install" /\ p \in Mcps
  BY <1>2, InstallMcpProgram DEF Undos
<1>3. CASE o # "install"
  BY <1>3, ReinstallProgram, RemoveProgram, CiProgram, ShortPrograms
     DEF ValidCommand, Commands, Undos
<1> QED
  BY <1>1, <1>2, <1>3 DEF ValidCommand, Packages

-----------------------------------------------------------------------------
\* Types.

Manifests == [Packages -> Deps \cup {None}]
Disks == [Artifacts -> Contents]

\* The records, and the copies of them a command keeps.
RecordsOK ==
  /\ manifest \in Manifests /\ hub \in Refs /\ lock \in Locks \cup {NoLock} /\ disk \in Disks
  /\ tip \in Revisions /\ bundle \in Revisions
  /\ depBefore \in Deps \cup {None} /\ lockBefore \in Locks \cup {NoLock}
  /\ before \in Snapshots \cup {None}

\* The command under way: its step is a step of its program, and a rollback has
\* something left to undo.
ControlOK ==
  /\ phase \in {"idle", "running", "undoing", "ok", "failed", "crashed"}
  /\ op \in Commands \cup {"none"} /\ arg \in Packages \cup {None}
  /\ phase # "idle" => ValidCommand(op, arg) /\ pc \in 1..Len(Program(op, arg))
  /\ completed \in Seq(Undos)
  /\ (phase = "undoing" => completed # <<>>) /\ (phase = "idle" => completed = <<>> /\ op = "none")
  /\ wave \in {"none", "skills", "tools"} /\ todo \subseteq Artifacts
  /\ undone \in BOOLEAN /\ edits \in 0..MaxEdits /\ faults \in 0..MaxFaults

TypeInv == RecordsOK /\ ControlOK

\* Once a command is past ensureInitialized there is a lock, which nothing removes
\* before it ends, and only a restore has artifacts left to write.
LockOK ==
  /\ phase # "idle" /\ op \in {"install", "reinstall", "ci"} /\ pc > 1 => lock \in Locks
  /\ todo # {} => phase # "idle" /\ op \in {"reinstall", "ci"} /\ pc = 3

LEMMA TypeInvTypeOK == TypeInv <=> TypeOK /\ ControlOK
  BY DEF TypeInv, TypeOK, RecordsOK, ControlOK, Manifests, Disks, Undos

LEMMA BuiltType ==
  ASSUME manifest \in Manifests, hub \in Refs, disk \in Disks, tip \in Revisions
  PROVE  Built \in Locks
<1>1. Commit(hub, tip) \in Refs
  BY DEF Commit, Refs
<1>2. [p \in Artifacts |-> IF manifest[p] = None THEN Absent ELSE disk[p]] \in [Artifacts -> Contents]
  BY DEF Disks, Contents
<1> QED
  BY <1>1, <1>2 DEF Built, Locks, Manifests

\* The step the command is at, in a state of the right type.
LEMMA StepType ==
  ASSUME ControlOK, phase # "idle"
  PROVE  /\ Step.undo \in Undos \cup {"none"}
         /\ Len(Program(op, arg)) \in 1..7
  BY ProgramType DEF ControlOK, Step

\* Where a command makes its first lock, and where it restores one.
LEMMA StepPlace ==
  ASSUME ControlOK, phase # "idle"
  PROVE  /\ op \in {"install", "reinstall", "ci"} /\ pc = 1 => Step.run = "ensureInitialized"
         /\ Step.run = "reinstallFromLock" <=> op \in {"reinstall", "ci"} /\ pc = 3
         /\ Step.run = "ensureInitialized" => pc = 1
<1> DEFINE P == Program(op, arg)
<1>1. Step = P[pc] /\ pc \in 1..Len(P)
  BY DEF ControlOK, Step
<1> HIDE DEF P
<1>2. CASE op = "install" /\ arg \in Artifacts
  <2>1. Len(P) = 7 /\ P[1].run = "ensureInitialized" /\ P[3].run = "materialize"
        /\ \A i \in 2..7 : P[i].run # "ensureInitialized" /\ (i # 3 => P[i].run # "reinstallFromLock")
    BY <1>2, InstallArtifactProgram DEF P
  <2> QED
    BY <1>1, <1>2, <2>1
<1>3. CASE op = "install" /\ arg \in Mcps
  <2>1. Len(P) = 5 /\ P[1].run = "ensureInitialized" /\ P[3].run = "addDependency"
        /\ \A i \in 2..5 : P[i].run # "ensureInitialized" /\ (i # 3 => P[i].run # "reinstallFromLock")
    BY <1>3, InstallMcpProgram DEF P
  <2> QED
    BY <1>1, <1>3, <2>1
<1>4. CASE op = "reinstall"
  <2>1. Len(P) = 6 /\ P[1].run = "ensureInitialized" /\ P[3].run = "reinstallFromLock"
        /\ \A i \in 2..6 : P[i].run # "ensureInitialized" /\ (i # 3 => P[i].run # "reinstallFromLock")
    BY <1>4, ReinstallProgram DEF P
  <2> QED
    BY <1>1, <1>4, <2>1
<1>5. CASE op = "ci"
  <2>1. Len(P) = 6 /\ P[1].run = "ensureInitialized" /\ P[3].run = "reinstallFromLock"
        /\ \A i \in 2..6 : P[i].run # "ensureInitialized" /\ (i # 3 => P[i].run # "reinstallFromLock")
    BY <1>5, CiProgram DEF P
  <2> QED
    BY <1>1, <1>5, <2>1
<1>6. CASE op = "remove"
  <2>1. Len(P) = 4 /\ P[1].run = "assertPathAllowed" /\ P[3].run = "buildLock"
        /\ \A i \in 2..4 : P[i].run # "ensureInitialized" /\ (i # 3 => P[i].run # "reinstallFromLock")
    BY <1>6, RemoveProgram DEF P
  <2> QED
    BY <1>1, <1>6, <2>1
<1>7. CASE op \in {"lock", "verify"}
  BY <1>1, <1>7, ShortPrograms DEF P
<1> QED
  BY <1>2, <1>3, <1>4, <1>5, <1>6, <1>7 DEF ControlOK, ValidCommand, Commands, Packages

LEMMA AdvanceControl ==
  ASSUME ControlOK, phase = "running", Advance,
         wave' \in {"none", "skills", "tools"}, todo' \subseteq Artifacts,
         UNCHANGED <<undone, edits>>
  PROVE  ControlOK'
<1>1. /\ Step.undo \in Undos \cup {"none"}
      /\ Len(Program(op, arg)) \in 1..7
  BY StepType
<1>2. completed' \in Seq(Undos)
  BY <1>1 DEF Advance, ControlOK
<1>3. phase' \in {"ok", "running"} /\ op' = op /\ arg' = arg /\ faults' = faults
      /\ pc' \in 1..Len(Program(op, arg))
  BY <1>1 DEF Advance, ControlOK
<1> QED
  BY <1>2, <1>3 DEF ControlOK

LEMMA ThrowControl ==
  ASSUME ControlOK, phase = "running", Throw,
         todo' \subseteq Artifacts, edits' = edits, faults' \in 0..MaxFaults
  PROVE  ControlOK'
  BY DEF ControlOK, Throw, locals, history

LEMMA InitType == Init => TypeInv
  BY DEF Init, TypeInv, RecordsOK, ControlOK, Manifests, Disks, Refs, Revisions, Contents,
         InstallAssumption

LEMMA StartType ==
  ASSUME TypeInv, NEW o \in Offered, NEW p \in Packages \cup {None}, Start(o, p)
  PROVE  TypeInv'
<1>1. ValidCommand(o, p)
  BY DEF Start, ValidCommand, InstallAssumption
<1>2. Len(Program(o, p)) \in 1..7
  BY <1>1, ProgramType
<1>3. RecordsOK'
  <2>1. depBefore' \in Deps \cup {None}
    BY DEF Start, TypeInv, RecordsOK, Manifests
  <2>2. before' \in Snapshots
    BY DEF Start, TypeInv, RecordsOK, Manifests, Disks, Snapshots
  <2> QED
    BY <2>1, <2>2 DEF Start, TypeInv, RecordsOK, files, world
<1>4. ControlOK'
  <2>0. UNCHANGED restore /\ UNCHANGED world
    BY DEF Start
  <2>1. /\ op' = o /\ arg' = p /\ pc' = 1 /\ phase' = "running" /\ undone' = TRUE
        /\ UNCHANGED <<completed, wave, todo, edits, faults>>
    <3>1. op' = o /\ arg' = p /\ pc' = 1 /\ phase' = "running" /\ undone' = TRUE
      BY DEF Start
    <3>2. completed' = completed /\ faults' = faults
      BY DEF Start
    <3>3. wave' = wave /\ todo' = todo /\ edits' = edits
      <4>1. restore' = restore /\ world' = world
        BY <2>0, Zenon
      <4> QED
        BY <4>1 DEF restore, world
    <3> QED
      BY <3>1, <3>2, <3>3, Zenon
  <2>2. o \in Commands
    BY InstallAssumption DEF InstallAssumption
  <2>3. /\ completed \in Seq(Undos) /\ wave \in {"none", "skills", "tools"} /\ todo \subseteq Artifacts
        /\ edits \in 0..MaxEdits /\ faults \in 0..MaxFaults
    BY DEF TypeInv, ControlOK
  <2>4. ValidCommand(op', arg') /\ pc' \in 1..Len(Program(op', arg'))
    <3>1. op' = o /\ arg' = p /\ pc' = 1
      BY <2>1, Zenon
    <3>2. 1 \in 1..Len(Program(o, p))
      BY <1>2
    <3> QED
      BY <1>1, <3>1, <3>2
  <2>5. op' \in Commands /\ completed' \in Seq(Undos) /\ wave' \in {"none", "skills", "tools"}
        /\ todo' \subseteq Artifacts /\ edits' \in 0..MaxEdits /\ faults' \in 0..MaxFaults
    BY <2>1, <2>2, <2>3, Zenon
  <2> QED
    BY <2>1, <2>4, <2>5 DEF ControlOK
<1> QED
  BY <1>3, <1>4 DEF TypeInv

\* The steps of a command that succeed.
LEMMA WorkType ==
  ASSUME TypeInv,
         \/ EnsureInitialized \/ PinSource \/ Materialize \/ Bystander
         \/ AddDependency \/ RemoveDependency \/ BuildLock \/ DeleteArtifact
  PROVE  TypeInv'
<1>1. /\ phase = "running" /\ Advance
      /\ UNCHANGED <<wave, todo, undone, edits, before, tip, bundle>>
  BY DEF EnsureInitialized, PinSource, Materialize, Bystander, AddDependency, RemoveDependency,
         BuildLock, DeleteArtifact, At, restore, history, world
<1>2. ControlOK'
  BY <1>1, AdvanceControl DEF TypeInv, ControlOK
<1>3. Built \in Locks
  BY BuiltType DEF TypeInv, RecordsOK
<1>4. depBefore' = depBefore
  BY <1>1 DEF Advance
<1>5. RecordsOK'
  <2>1. CASE EnsureInitialized
    BY <1>1, <1>3, <1>4, <2>1 DEF EnsureInitialized, TypeInv, RecordsOK
  <2>2. CASE PinSource
    BY <1>1, <1>4, <2>2 DEF PinSource, TypeInv, RecordsOK, Refs
  <2>3. CASE Materialize
    <3>1. hub \in Contents /\ bundle \in Contents
      BY DEF TypeInv, RecordsOK, Refs, Contents, NoSource, Branch, Absent, Torn
    <3> QED
      BY <1>1, <1>4, <2>3, <3>1 DEF Materialize, TypeInv, RecordsOK, Disks
  <2>4. CASE Bystander
    BY <1>1, <1>4, <2>4 DEF Bystander, TypeInv, RecordsOK, files
  <2>5. CASE AddDependency
    BY <1>1, <1>4, <2>5 DEF AddDependency, TypeInv, RecordsOK, Manifests
  <2>6. CASE RemoveDependency
    BY <1>1, <1>4, <2>6 DEF RemoveDependency, TypeInv, RecordsOK, Manifests
  <2>7. CASE BuildLock
    BY <1>1, <1>3, <1>4, <2>7 DEF BuildLock, TypeInv, RecordsOK
  <2>8. CASE DeleteArtifact
    BY <1>1, <1>4, <2>8 DEF DeleteArtifact, TypeInv, RecordsOK, Disks, Contents
  <2> QED
    BY <2>1, <2>2, <2>3, <2>4, <2>5, <2>6, <2>7, <2>8
<1> QED
  BY <1>2, <1>5 DEF TypeInv

\* ci's checks, verify, and the end of a restore.
LEMMA CheckType ==
  ASSUME TypeInv, Gates \/ VerifyLock \/ EndReinstall
  PROVE  TypeInv'
<1>1. /\ phase = "running" /\ UNCHANGED <<files, world, todo>>
      /\ \/ Advance /\ wave' \in {wave, "none"} /\ UNCHANGED <<lockBefore, history>>
         \/ Throw /\ UNCHANGED faults
  BY DEF Gates, VerifyLock, EndReinstall, At
<1>2. ControlOK'
  BY <1>1, AdvanceControl, ThrowControl DEF TypeInv, ControlOK, world, history
<1>3. RecordsOK'
  BY <1>1 DEF TypeInv, RecordsOK, files, world, history, locals, Advance, Throw
<1> QED
  BY <1>2, <1>3 DEF TypeInv

\* reinstallFromLock's artifacts.
LEMMA RestoreType ==
  ASSUME TypeInv, LockOK,
         StartWave \/ (\E p \in Artifacts : Rewrite(p) \/ RewriteFails(p))
  PROVE  TypeInv'
<1>1. CASE StartWave
  <2>1. todo' \subseteq Artifacts
    BY <1>1 DEF StartWave, Restored, Artifacts
  <2> QED
    BY <1>1, <2>1 DEF StartWave, TypeInv, RecordsOK, ControlOK, files, world, history, locals
<1>2. ASSUME NEW p \in Artifacts, Rewrite(p) PROVE TypeInv'
  <2>1. disk' \in Disks
    <3>1. CASE p \in RemoteSkills
      <4>1. lock.commit \in Contents
        <5>1. lock \in Locks
          BY <1>2 DEF Rewrite, LockOK
        <5> QED
          BY <5>1 DEF Locks, Refs, Contents, NoSource, Branch, Absent, Torn
      <4> QED
        BY <1>2, <3>1, <4>1 DEF Rewrite, TypeInv, RecordsOK, Disks, LockedContent
    <3>2. CASE p \notin RemoteSkills
      BY <1>2, <3>2 DEF Rewrite, TypeInv, RecordsOK, Disks, LockedContent, Contents
    <3> QED
      BY <3>1, <3>2
  <2> QED
    BY <1>2, <2>1 DEF Rewrite, TypeInv, RecordsOK, ControlOK, world, history, locals
<1>3. ASSUME NEW p \in Artifacts, RewriteFails(p) PROVE TypeInv'
  <2>1. disk' \in Disks
    BY <1>3 DEF RewriteFails, TypeInv, RecordsOK, Disks, Contents
  <2>2. ControlOK'
    <3>1. CASE phase = "running" /\ Throw
      BY <1>3, <3>1, ThrowControl DEF RewriteFails, TypeInv, ControlOK, Fault, world
    <3>2. CASE phase = "failed" /\ UNCHANGED <<locals, wave, pc, phase, completed, history>>
      BY <1>3, <3>2 DEF RewriteFails, TypeInv, ControlOK, Fault, world, locals, history
    <3> QED
      BY <1>3, <3>1, <3>2 DEF RewriteFails, At
  <2> QED
    BY <1>3, <2>1, <2>2 DEF RewriteFails, TypeInv, RecordsOK, world, history, locals, Throw
<1> QED
  BY <1>1, <1>2, <1>3

\* What an interrupted write or deletion leaves.
LEMMA PartsType ==
  ASSUME RecordsOK, NEW d \in Parts
  PROVE  d \in Disks
  BY DEF RecordsOK, Parts, Disks, Contents

LEMMA StepFailsType == TypeInv /\ StepFails => TypeInv'
<1> SUFFICES ASSUME TypeInv, StepFails PROVE TypeInv'
  OBVIOUS
<1>1. disk' \in Disks
  BY PartsType DEF StepFails, TypeInv, RecordsOK, Disks, Contents
<1>2. ControlOK'
  BY ThrowControl DEF StepFails, TypeInv, ControlOK, Fault, world
<1> QED
  BY <1>1, <1>2 DEF StepFails, TypeInv, RecordsOK, world, Throw, history, locals

LEMMA UndoControl ==
  ASSUME ControlOK, NextUndo, undone' \in BOOLEAN, faults' = faults
  PROVE  ControlOK'
<1>1. completed \in Seq(Undos) /\ completed # <<>>
  BY DEF ControlOK, NextUndo
<1>2. completed' = SubSeq(completed, 1, Len(completed) - 1)
  BY DEF NextUndo
<1>3. Len(completed) \in Nat \ {0}
  BY <1>1
<1>4. completed' \in Seq(Undos) /\ Len(completed') = Len(completed) - 1
  BY <1>1, <1>2, DropLast
<1>5. /\ phase' \in {"failed", "undoing"}
      /\ phase' = "undoing" => Len(completed) # 1
      /\ UNCHANGED <<op, arg, pc, wave, todo, edits>> /\ phase # "idle"
  BY DEF NextUndo, locals, restore, world
<1>6. phase' = "undoing" => completed' # <<>>
  <2> SUFFICES ASSUME phase' = "undoing" PROVE Len(completed') # 0
    BY <1>4
  <2> QED
    BY <1>3, <1>4, <1>5
<1> QED
  BY <1>4, <1>5, <1>6 DEF ControlOK

LEMMA UndoType == TypeInv /\ (Undo \/ UndoFails) => TypeInv'
<1> SUFFICES ASSUME TypeInv, Undo \/ UndoFails PROVE TypeInv'
  OBVIOUS
<1>1. ControlOK'
  BY UndoControl DEF Undo, UndoFails, TypeInv, ControlOK
<1>2. CASE Undo
  <2>1. manifest' \in Manifests
    BY <1>2 DEF Undo, TypeInv, RecordsOK, Manifests
  <2>2. lock' \in Locks \cup {NoLock}
    BY <1>2 DEF Undo, TypeInv, RecordsOK
  <2>3. disk' \in Disks
    BY <1>2 DEF Undo, TypeInv, RecordsOK, Disks, Contents
  <2> QED
    BY <1>1, <1>2, <2>1, <2>2, <2>3 DEF Undo, NextUndo, TypeInv, RecordsOK, world, locals
<1>3. CASE UndoFails
  <2>1. disk' \in Disks
    BY <1>3, PartsType DEF UndoFails, TypeInv, RecordsOK, Disks, Contents
  <2> QED
    BY <1>1, <1>3, <2>1 DEF UndoFails, NextUndo, TypeInv, RecordsOK, world, locals
<1> QED
  BY <1>2, <1>3

LEMMA EndingType == TypeInv /\ (Crash \/ End) => TypeInv'
<1> SUFFICES ASSUME TypeInv, Crash \/ End PROVE TypeInv'
  OBVIOUS
<1>1. CASE Crash
  <2>1. disk' \in Disks
    BY <1>1, PartsType DEF Crash, TypeInv, RecordsOK
  <2> QED
    BY <1>1, <2>1 DEF Crash, TypeInv, RecordsOK, ControlOK, Fault, world, locals, history
<1>2. CASE End
  BY <1>2 DEF End, TypeInv, RecordsOK, ControlOK, files, world, restore
<1> QED
  BY <1>1, <1>2

LEMMA WorldType ==
  ASSUME TypeInv, Push \/ Upgrade \/ EditManifest \/ EditArtifact \/ Checkout \/ LoseLock
  PROVE  TypeInv'
<1>1. ControlOK'
  BY DEF Push, Upgrade, EditManifest, EditArtifact, Checkout, LoseLock, Edit, TypeInv, ControlOK,
         history, locals, restore, files, InstallAssumption
<1>2. UNCHANGED <<depBefore, lockBefore, before>>
  BY DEF Push, Upgrade, EditManifest, EditArtifact, Checkout, LoseLock, Edit, history, locals
<1>3. RecordsOK'
  <2>1. CASE Push \/ Upgrade
    BY <1>2, <2>1 DEF Push, Upgrade, files, TypeInv, RecordsOK, Revisions, InstallAssumption
  <2>2. CASE EditManifest
    BY <1>2, <2>2 DEF EditManifest, Edit, TypeInv, RecordsOK, Manifests, Refs
  <2>3. CASE EditArtifact \/ Checkout
    BY <1>2, <2>3 DEF EditArtifact, Checkout, Edit, TypeInv, RecordsOK, Disks, Contents
  <2>4. CASE LoseLock
    BY <1>2, <2>4 DEF LoseLock, Edit, TypeInv, RecordsOK
  <2> QED
    BY <2>1, <2>2, <2>3, <2>4
<1> QED
  BY <1>1, <1>3 DEF TypeInv

LEMMA NextType == TypeInv /\ LockOK /\ [Next]_vars => TypeInv'
<1> SUFFICES ASSUME TypeInv, LockOK, [Next]_vars PROVE TypeInv'
  OBVIOUS
<1>1. CASE UNCHANGED vars
  BY <1>1 DEF vars, files, world, history, locals, restore, TypeInv, RecordsOK, ControlOK
<1> QED
  BY <1>1, StartType, WorkType, CheckType, RestoreType, StepFailsType, UndoType, EndingType,
     WorldType DEF Next

\* A step that succeeds, and one that throws, as far as the lock is concerned.
LEMMA AdvanceLock ==
  ASSUME TypeInv, LockOK, phase = "running", Advance, todo = {}, todo' = {},
         lock' \in Locks \/ (lock' = lock /\ Step.run # "ensureInitialized")
  PROVE  LockOK'
<1>1. op' = op /\ pc' \in {pc, pc + 1} /\ pc \in Nat
  BY StepType DEF Advance, TypeInv, ControlOK
<1>2. op \in {"install", "reinstall", "ci"} => pc > 1 \/ lock' \in Locks
  BY StepPlace DEF TypeInv, ControlOK
<1> QED
  BY <1>1, <1>2 DEF LockOK

LEMMA LockKept ==
  ASSUME LockOK, UNCHANGED <<lock, op, pc>>, todo' \subseteq todo, phase # "idle", phase' # "idle"
  PROVE  LockOK'
  BY DEF LockOK

LEMMA InitLock == Init => LockOK
  BY DEF Init, LockOK

LEMMA NextLock == TypeInv /\ LockOK /\ [Next]_vars => LockOK'
<1> SUFFICES ASSUME TypeInv, LockOK, [Next]_vars PROVE LockOK'
  OBVIOUS
<1>1. Built \in Locks
  BY BuiltType DEF TypeInv, RecordsOK
<1>2. phase = "running" => (todo = {} \/ Step.run = "reinstallFromLock")
  BY StepPlace DEF TypeInv, LockOK
<1>3. ASSUME NEW o \in Offered, NEW p \in Packages \cup {None}, Start(o, p) PROVE LockOK'
  BY <1>3 DEF Start, LockOK, restore
<1>4. CASE EnsureInitialized \/ BuildLock
  <2>1. lock' \in Locks
    BY <1>1, <1>4 DEF EnsureInitialized, BuildLock, TypeInv, RecordsOK
  <2> QED
    BY <1>2, <1>4, <2>1, AdvanceLock DEF EnsureInitialized, BuildLock, At, restore
<1>5. CASE PinSource \/ Materialize \/ Bystander \/ AddDependency \/ RemoveDependency \/ DeleteArtifact
  BY <1>2, <1>5, AdvanceLock
     DEF PinSource, Materialize, Bystander, AddDependency, RemoveDependency, DeleteArtifact, At,
         restore, files
<1>6. CASE Gates \/ VerifyLock
  <2>1. phase = "running" /\ Step.run \notin {"ensureInitialized", "reinstallFromLock"}
        /\ lock' = lock /\ todo' = todo /\ (Advance \/ Throw)
    BY <1>6 DEF Gates, VerifyLock, At, files
  <2>2. CASE Advance
    BY <1>2, <2>1, <2>2, AdvanceLock
  <2>3. CASE Throw
    BY <2>1, <2>3, LockKept DEF Throw, locals
  <2> QED
    BY <2>1, <2>2, <2>3
<1>7. CASE StartWave
  BY <1>7, StepPlace DEF StartWave, At, TypeInv, LockOK, files, locals
<1>8. ASSUME NEW p \in Artifacts, Rewrite(p) \/ RewriteFails(p) PROVE LockOK'
  <2>1. phase # "idle" /\ phase' # "idle" /\ todo' \subseteq todo /\ UNCHANGED <<lock, op, pc>>
    BY <1>8 DEF Rewrite, RewriteFails, At, Throw, locals
  <2> QED
    BY <2>1, LockKept
<1>9. CASE EndReinstall
  BY <1>9, AdvanceLock DEF EndReinstall, At, files
<1>10. CASE StepFails
  BY <1>10, LockKept DEF StepFails, Throw, locals
<1>11. CASE Undo \/ UndoFails
  <2>1. phase # "idle" /\ phase' # "idle" /\ UNCHANGED <<op, pc, todo>>
    BY <1>11 DEF Undo, UndoFails, NextUndo, locals, restore
  <2>2. lock' = lock \/ lock' \in Locks
    BY <1>11 DEF Undo, UndoFails, TypeInv, RecordsOK
  <2> QED
    BY <2>1, <2>2 DEF LockOK
<1>12. CASE Crash
  BY <1>12, LockKept DEF Crash, locals
<1>13. CASE End
  BY <1>13 DEF End, Stopped, LockOK, restore
<1>14. CASE Push \/ Upgrade \/ EditManifest \/ EditArtifact \/ Checkout
  BY <1>14 DEF Push, Upgrade, EditManifest, EditArtifact, Checkout, Edit, LockOK, files, locals, restore
<1>15. CASE LoseLock
  BY <1>15 DEF LoseLock, Edit, LockOK, locals, restore
<1>16. CASE UNCHANGED vars
  BY <1>16 DEF vars, files, locals, restore, LockOK
<1> QED
  BY <1>3, <1>4, <1>5, <1>6, <1>7, <1>8, <1>9, <1>10, <1>11, <1>12, <1>13, <1>14, <1>15, <1>16 DEF Next

\* What every reachable state satisfies.
IInv == TypeInv /\ LockOK

LEMMA InvCorrect == Spec => []IInv
<1>1. Init => IInv
  BY InitType, InitLock DEF IInv
<1>2. IInv /\ [Next]_vars => IInv'
  BY NextType, NextLock DEF IInv
<1> QED
  BY <1>1, <1>2, PTL DEF Spec

\* The files, the command and its locals have the values the code gives them.
THEOREM TypeCorrect == Spec => []TypeOK
<1>1. IInv => TypeOK
  BY TypeInvTypeOK DEF IInv
<1> QED
  BY <1>1, InvCorrect, PTL

-----------------------------------------------------------------------------
\* Which command is under way, and what it found, changes at its two ends only.

CommandEnds == (\E o \in Offered, p \in Packages \cup {None} : Start(o, p)) \/ End

LEMMA CommandKept ==
  ASSUME [Next]_vars, ~CommandEnds
  PROVE  UNCHANGED <<op, before>>
  BY DEF CommandEnds, Next, vars, locals, history, EnsureInitialized, PinSource, Materialize,
         Bystander, AddDependency, RemoveDependency, BuildLock, DeleteArtifact, Gates, VerifyLock,
         StartWave, Rewrite, RewriteFails, EndReinstall, StepFails, Undo, UndoFails, Crash, Push,
         Upgrade, EditManifest, EditArtifact, Checkout, LoseLock, Edit, Advance, Throw, NextUndo

\* A command starts from rest, and ends there.
LEMMA OnlyStarts ==
  ASSUME [Next]_vars, ~CommandEnds, phase = "idle"
  PROVE  phase' = "idle"
  BY DEF CommandEnds, Next, vars, EnsureInitialized, PinSource, Materialize, Bystander,
         AddDependency, RemoveDependency, BuildLock, DeleteArtifact, Gates, VerifyLock, StartWave,
         Rewrite, RewriteFails, EndReinstall, StepFails, Undo, UndoFails, NextUndo, Crash, Push,
         Upgrade, EditManifest, EditArtifact, Checkout, LoseLock, Edit, At

BeforeOK == phase # "idle" => before \in Snapshots

LEMMA NextBefore == IInv /\ BeforeOK /\ [Next]_vars => BeforeOK'
<1> SUFFICES ASSUME IInv, BeforeOK, [Next]_vars PROVE BeforeOK'
  OBVIOUS
<1>1. CASE \E o \in Offered, p \in Packages \cup {None} : Start(o, p)
  BY <1>1 DEF Start, IInv, TypeInv, RecordsOK, Manifests, Disks, Snapshots, BeforeOK
<1>2. CASE End
  BY <1>2 DEF End, BeforeOK
<1>3. CASE ~CommandEnds
  <2>1. before' = before
    BY <1>3, CommandKept
  <2>2. phase = "idle" => phase' = "idle"
    BY <1>3, OnlyStarts
  <2> QED
    BY <2>1, <2>2 DEF BeforeOK
<1> QED
  BY <1>1, <1>2, <1>3 DEF CommandEnds

-----------------------------------------------------------------------------
\* What ci does, step by step.

LEMMA CiSteps ==
  ASSUME ControlOK, phase # "idle", op = "ci"
  PROVE  /\ pc \in 1..6
         /\ pc = 1 => Step.run = "ensureInitialized" /\ Step.undo = "none"
         /\ pc = 2 => Step.run = "gates" /\ Step.undo = "none"
         /\ pc = 3 => Step.run = "reinstallFromLock" /\ Step.undo = "deleteMaterialized"
         /\ pc = 4 => Step.run = "restoreToolkits" /\ Step.undo = "undoToolkits"
         /\ pc = 5 => Step.run = "verifyLock" /\ Step.undo = "none"
         /\ pc = 6 => Step.run = "restoreAgents" /\ Step.undo = "none"
<1> DEFINE P == Program(op, arg)
<1>1. Step = P[pc] /\ pc \in 1..Len(P)
  BY DEF ControlOK, Step
<1>2. /\ Len(P) = 6
      /\ P[1].run = "ensureInitialized" /\ P[1].undo = "none"
      /\ P[2].run = "gates" /\ P[2].undo = "none"
      /\ P[3].run = "reinstallFromLock" /\ P[3].undo = "deleteMaterialized"
      /\ P[4].run = "restoreToolkits" /\ P[4].undo = "undoToolkits"
      /\ P[5].run = "verifyLock" /\ P[5].undo = "none"
      /\ P[6].run = "restoreAgents" /\ P[6].undo = "none"
  BY CiProgram
<1> HIDE DEF P
<1> QED
  BY <1>1, <1>2

CiUndos == {"deleteMaterialized", "undoToolkits"}

\* Until its checks ci has changed no artifact and no declaration; past them,
\* the lock agrees with what it started from; and it changes no lock it found.
CiInv ==
  phase # "idle" /\ op = "ci" =>
    /\ completed \in Seq(CiUndos) /\ (completed # <<>> => pc > 2)
    /\ manifest = before.manifest /\ hub = before.hub
    /\ before.lock # NoLock => lock = before.lock
    /\ pc < 3 => disk = before.disk
    /\ pc > 2 => lock.dep = before.manifest /\ lock.hub = before.hub /\ Verifies(lock, before.disk, TRUE)

\* The effect on ci's records of a step that changes at most the artifacts, and
\* those only once the checks are passed.
LEMMA CiKept ==
  ASSUME CiInv, UNCHANGED <<manifest, hub, lock, before, op>>, phase # "idle", pc \in Nat, pc' \in Nat,
         pc' = pc \/ (op = "ci" => pc > 2 /\ pc' > 2), op = "ci" /\ pc < 3 => disk' = disk,
         op = "ci" => completed' \in Seq(CiUndos) /\ (completed' # <<>> => pc' > 2)
  PROVE  CiInv'
<1> SUFFICES ASSUME op = "ci" PROVE CiInv'
  BY DEF CiInv
<1>1. (pc' < 3 => pc < 3) /\ (pc' > 2 => pc > 2)
  OBVIOUS
<1> QED
  BY <1>1 DEF CiInv

\* Before its checks ci is not writing or deleting any artifact.
LEMMA CiIdleParts ==
  ASSUME IInv, CiInv, phase # "idle", op = "ci", pc < 3
  PROVE  Parts = {} /\ Step.run # "deleteArtifact"
<1>1. Step.run \in {"ensureInitialized", "gates"} /\ todo = {} /\ phase # "undoing"
  BY CiSteps DEF IInv, TypeInv, LockOK, ControlOK, CiInv
<1> QED
  BY <1>1 DEF Parts, Working, Deleting

LEMMA CiAdvance ==
  ASSUME IInv, CiInv, op = "ci", phase = "running", Advance
  PROVE  /\ completed' \in Seq(CiUndos) /\ (completed' # <<>> => pc' > 2)
         /\ pc' \in {pc, pc + 1} /\ (pc' = pc => pc = 6) /\ op' = op
<1>1. completed \in Seq(CiUndos) /\ pc \in 1..6 /\ Step.undo \in CiUndos \cup {"none"}
      /\ (pc < 3 => Step.undo = "none") /\ Len(Program(op, arg)) = 6
  BY CiSteps, CiProgram DEF IInv, TypeInv, CiInv, CiUndos
<1>2. completed' \in Seq(CiUndos)
  BY <1>1 DEF Advance
<1>3. completed' # <<>> => pc > 2
  <2>1. completed' = IF Step.undo = "none" THEN <<>> ELSE Append(completed, Step.undo)
    BY DEF Advance
  <2>2. pc < 3 => Step.undo = "none"
    BY <1>1, Zenon
  <2>3. pc < 3 => completed' = <<>>
    BY <2>1, <2>2, Zenon
  <2>4. pc \in 1..6
    BY <1>1, Zenon
  <2>5. ~(pc < 3) => pc > 2
    BY <2>4
  <2> QED
    BY <2>3, <2>5, Zenon
<1>4. pc' \in {pc, pc + 1} /\ (pc' = pc => pc = 6) /\ op' = op
  <2>1. (IF pc = Len(Program(op, arg)) THEN pc' = pc ELSE pc' = pc + 1) /\ op' = op
    BY Zenon DEF Advance
  <2>2. pc \in 1..6 /\ Len(Program(op, arg)) = 6
    BY <1>1, Zenon
  <2>3. IF pc = 6 THEN pc' = pc ELSE pc' = pc + 1
    BY <2>1, <2>2, Zenon
  <2>4. pc # pc + 1
    BY <2>2
  <2> QED
    BY <2>1, <2>3, <2>4, Zenon
<1>5. pc > 2 => pc' > 2
  BY <1>1, <1>4
<1> QED
  BY <1>2, <1>3, <1>4, <1>5

LEMMA InitCi == Init => CiInv
  BY DEF Init, CiInv

LEMMA NextCi == IInv /\ CiInv /\ [Next]_vars => CiInv'
<1> SUFFICES ASSUME IInv, CiInv, [Next]_vars PROVE CiInv'
  OBVIOUS
<1>1. ASSUME NEW o \in Offered, NEW p \in Packages \cup {None}, Start(o, p) PROVE CiInv'
  <2>1. completed' = <<>>
    BY <1>1 DEF Start, IInv, TypeInv, ControlOK
  <2>2. /\ before' = [manifest |-> manifest, hub |-> hub, lock |-> lock, disk |-> disk, tip |-> tip]
        /\ pc' = 1 /\ UNCHANGED <<manifest, hub, lock, disk>>
    BY <1>1 DEF Start, files
  <2> QED
    BY <2>1, <2>2 DEF CiInv
<1>2. CASE op # "ci" /\ op' = op
  BY <1>2 DEF CiInv
<1>3. CASE EnsureInitialized /\ op = "ci"
  <2>1. phase = "running" /\ pc = 1 /\ pc' = 2
    BY <1>3, CiSteps, CiAdvance DEF EnsureInitialized, At, IInv, TypeInv
  <2> QED
    BY <1>3, <2>1, CiAdvance DEF EnsureInitialized, history, CiInv
<1>4. CASE (PinSource \/ Materialize \/ AddDependency \/ RemoveDependency \/ BuildLock \/ DeleteArtifact) /\ op = "ci"
  BY <1>4, CiSteps DEF PinSource, Materialize, AddDependency, RemoveDependency, BuildLock, DeleteArtifact,
                       At, IInv, TypeInv
<1>5. CASE Bystander /\ op = "ci"
  <2>1. phase = "running" /\ pc > 2 /\ UNCHANGED <<files, history>> /\ Advance
    BY <1>5, CiSteps DEF Bystander, IInv, TypeInv
  <2> QED
    BY <1>5, <2>1, CiAdvance, CiKept DEF files, history, IInv, TypeInv, ControlOK
<1>6. CASE Gates /\ op = "ci"
  <2>1. phase = "running" /\ Step.run = "gates" /\ UNCHANGED <<files, history>>
    BY <1>6 DEF Gates, At, Throw
  <2>4. pc = 2
    BY <1>6, <2>1, CiSteps DEF IInv, TypeInv
  <2>2. CASE ~Stale /\ Verifies(lock, disk, TRUE) /\ Advance
    <3>1. pc' \in {2, 3} /\ op' = op /\ completed' \in Seq(CiUndos) /\ (completed' # <<>> => pc' > 2)
      BY <1>6, <2>1, <2>2, <2>4, CiAdvance
    <3>2. lock.dep = before.manifest /\ lock.hub = before.hub /\ Verifies(lock, before.disk, TRUE)
      <4>1. manifest = before.manifest /\ hub = before.hub /\ disk = before.disk
        BY <1>6, <2>1, <2>4 DEF CiInv
      <4> QED
        BY <2>2, <4>1 DEF Stale
    <3> QED
      <4>1. UNCHANGED <<manifest, hub, lock, before>>
        BY <2>1 DEF files, history
      <4>2. manifest = before.manifest /\ hub = before.hub /\ disk' = before.disk
            /\ (before.lock # NoLock => lock = before.lock)
        BY <1>6, <2>1, <2>4 DEF CiInv, files
      <4> QED
        BY <3>1, <3>2, <4>1, <4>2 DEF CiInv
  <2>3. CASE Throw
    BY <1>6, <2>1, <2>3, <2>4, CiKept DEF Throw, locals, CiInv, files, history
  <2> QED
    BY <1>6, <2>2, <2>3 DEF Gates
<1>7. CASE VerifyLock /\ op = "ci"
  <2>1. phase = "running" /\ Step.run = "verifyLock" /\ UNCHANGED <<files, history>>
    BY <1>7 DEF VerifyLock, At, Throw
  <2>4. pc = 5
    BY <1>7, <2>1, CiSteps DEF IInv, TypeInv
  <2>2. CASE Advance
    BY <1>7, <2>1, <2>2, <2>4, CiAdvance, CiKept DEF files, history
  <2>3. CASE Throw
    BY <1>7, <2>1, <2>3, <2>4, CiKept DEF Throw, locals, CiInv, files, history
  <2> QED
    BY <1>7, <2>2, <2>3 DEF VerifyLock
<1>8. CASE StartWave /\ op = "ci"
  BY <1>8, CiKept DEF StartWave, At, files, history, locals, CiInv
<1>9. ASSUME NEW p \in Artifacts, Rewrite(p) \/ RewriteFails(p), op = "ci" PROVE CiInv'
  <2>1. phase # "idle" /\ pc = 3 /\ UNCHANGED <<manifest, hub, lock, before, op, pc, completed>>
    BY <1>9 DEF Rewrite, RewriteFails, IInv, LockOK, Throw, history, locals
  <2>2. completed \in Seq(CiUndos) /\ (completed # <<>> => pc > 2)
    BY <2>1, <1>9 DEF CiInv
  <2> QED
    BY <2>1, <2>2, <1>9, CiKept
<1>10. CASE EndReinstall /\ op = "ci"
  <2>1. phase = "running" /\ pc = 3 /\ UNCHANGED <<files, history>> /\ Advance
    BY <1>10, CiSteps DEF EndReinstall, At, IInv, TypeInv
  <2> QED
    BY <1>10, <2>1, CiAdvance, CiKept DEF files, history
<1>11. CASE (StepFails \/ Crash) /\ op = "ci"
  <2>1. /\ phase # "idle" /\ UNCHANGED <<manifest, hub, lock, before, op, pc>>
        /\ completed' \in {completed, <<>>}
    BY <1>11 DEF StepFails, Crash, Throw, history, locals
  <2>2. pc < 3 => disk' = disk
    BY <1>11, <2>1, CiIdleParts DEF StepFails, Crash
  <2>3. completed' \in Seq(CiUndos) /\ (completed' # <<>> => pc > 2) /\ pc \in Nat
    <3>1. pc \in Nat /\ completed \in Seq(CiUndos) /\ (completed # <<>> => pc > 2)
      BY <1>11, <2>1, CiSteps DEF CiInv, IInv, TypeInv
    <3>2. <<>> \in Seq(CiUndos)
      OBVIOUS
    <3> QED
      BY <2>1, <3>1, <3>2
  <2> QED
    BY <1>11, <2>1, <2>2, <2>3, CiKept
<1>12. CASE (Undo \/ UndoFails) /\ op = "ci"
  <2>1. /\ phase = "undoing" /\ UNCHANGED <<hub, before, op, pc>>
        /\ completed' = SubSeq(completed, 1, Len(completed) - 1)
    BY <1>12 DEF Undo, UndoFails, NextUndo, locals
  <2>2. completed \in Seq(CiUndos) /\ completed # <<>> /\ pc > 2
    BY <1>12, <2>1 DEF CiInv, IInv, TypeInv, ControlOK
  <2>3. LastUndo \in CiUndos /\ completed' \in Seq(CiUndos)
    BY <2>1, <2>2, DropLast DEF LastUndo
  <2>4. UNCHANGED <<manifest, lock>>
    BY <1>12, <2>3 DEF Undo, UndoFails, CiUndos
  <2> QED
    BY <1>12, <2>1, <2>2, <2>3, <2>4, CiSteps, CiKept DEF IInv, TypeInv
<1>13. CASE End
  BY <1>13 DEF End, CiInv
<1>14. CASE Push
  BY <1>14 DEF Push, CiInv, files, history, locals
<1>15. CASE Upgrade \/ EditManifest \/ EditArtifact \/ Checkout \/ LoseLock
  BY <1>15 DEF Upgrade, EditManifest, EditArtifact, Checkout, LoseLock, Edit, CiInv
<1>16. CASE UNCHANGED vars
  BY <1>16 DEF vars, files, history, locals, CiInv
<1>17. op' = op \/ (\E o \in Offered, p \in Packages \cup {None} : Start(o, p)) \/ End
  BY CommandKept DEF CommandEnds
<1> QED
  BY <1>1, <1>2, <1>3, <1>4, <1>5, <1>6, <1>7, <1>8, <1>9, <1>10, <1>11, <1>12, <1>13, <1>14,
     <1>15, <1>16, <1>17 DEF Next

\* ci has touched no artifact unless the lock it found, or made, agreed with the
\* manifest and with every artifact that was there.
THEOREM CiChecksFirstCorrect == Spec => []CiChecksFirst
<1>1. Init => CiInv
  BY InitCi
<1>2. IInv /\ CiInv /\ [Next]_vars => CiInv'
  BY NextCi
<1>3. IInv /\ CiInv => CiChecksFirst
  <2> SUFFICES ASSUME IInv, CiInv, op = "ci", disk # before.disk PROVE CiChecksFirst
    BY DEF CiChecksFirst
  <2>1. phase # "idle"
    BY DEF IInv, TypeInv, ControlOK
  <2>2. pc > 2
    BY <2>1, CiSteps DEF IInv, TypeInv, CiInv
  <2> QED
    BY <2>1, <2>2 DEF CiInv, CiChecksFirst
<1> QED
  BY <1>1, <1>2, <1>3, InvCorrect, PTL DEF Spec

-----------------------------------------------------------------------------
\* withRollback in an install or a removal. The block has three steps; First is
\* its first one, and the undo of the third is never called.

First == IF op = "install" /\ arg \in Artifacts THEN 4 ELSE 2
FirstUndo == IF op = "remove" THEN "addDependency"
             ELSE IF arg \in Artifacts THEN "deleteArtifact" ELSE "nothing"
SecondUndo == IF op = "remove" THEN "saveLock" ELSE "removeDependency"

\* The commands BlockUndone speaks of.
Covered ==
  \/ op = "remove" /\ before.lock # NoLock
  \/ op = "install" /\ before.manifest[arg] = None /\ (arg \in Artifacts => before.disk[arg] = Absent)

InBlock ==
  /\ phase \in {"running", "undoing", "failed"} /\ op \in {"install", "remove"}
  /\ pc <= First + 2 /\ undone /\ Covered

\* completed holds the undos of the block's steps done so far, in order.
UndosOK ==
  LET n == Len(completed) IN
  /\ n \in 0..2
  /\ n > 0 => completed[1] = FirstUndo
  /\ n > 1 => completed[2] = SecondUndo
  /\ phase = "running" => n = IF pc < First THEN 0 ELSE pc - First
  /\ phase = "failed" => n = 0
  /\ phase # "running" /\ op = "install" /\ arg \in Artifacts => pc # First

\* The files differ from the command's start by the steps in completed only.
FilesOK ==
  LET n == Len(completed) IN
  /\ \A q \in Packages \ {arg} : manifest[q] = before.manifest[q]
  /\ \A q \in Artifacts \ {arg} : disk[q] = before.disk[q]
  /\ op = "install" =>
       /\ n < 2 => manifest[arg] = None
       /\ pc > 1 => lock = lockBefore
       /\ arg \in Artifacts /\ n = 0 /\ pc > First => disk[arg] = Absent
  /\ op = "remove" =>
       /\ depBefore = before.manifest[arg] /\ lockBefore # NoLock
       /\ manifest[arg] = IF n = 0 THEN before.manifest[arg] ELSE None
       /\ n < 2 => lock = lockBefore

BlockInv == InBlock => UndosOK /\ FilesOK

LEMMA BlockSteps ==
  ASSUME ControlOK, phase # "idle", op \in {"install", "remove"}
  PROVE  /\ pc \in Nat \ {0} /\ First \in {2, 4} /\ arg \in Packages
         /\ Len(Program(op, arg)) = IF op = "remove" THEN First + 2 ELSE First + 3
         /\ pc < First => /\ Step.undo = "none"
                          /\ op = "remove" => pc = 1 /\ Step.run = "assertPathAllowed"
                          /\ op = "install" => IF pc = 1 THEN Step.run = "ensureInitialized"
                                                         ELSE Step.run \in {"pinSource", "materialize"}
         /\ pc = First => /\ Step.undo = FirstUndo
                          /\ op = "remove" => Step.run = "removeDependency"
                          /\ op = "install" => Step.run = IF arg \in Artifacts THEN "keepPath" ELSE "envEntries"
         /\ pc = First + 1 => /\ Step.undo = SecondUndo
                              /\ Step.run = IF op = "remove" THEN "buildLock" ELSE "addDependency"
         /\ pc = First + 2 => /\ Step.undo = IF op = "remove" THEN "nothing" ELSE "saveLock"
                              /\ Step.run = IF op = "remove" THEN "deleteArtifact" ELSE "buildLock"
         /\ pc > First + 2 => Step.undo = "none" /\ op = "install" /\ Step.run = "restoreAgents"
<1> DEFINE P == Program(op, arg)
<1>1. Step = P[pc] /\ pc \in 1..Len(P) /\ arg \in Packages
  BY DEF ControlOK, Step, ValidCommand
<1> HIDE DEF P
<1>2. CASE op = "install" /\ arg \in Artifacts
  <2>1. /\ Len(P) = 7
        /\ P[1].run = "ensureInitialized" /\ P[1].undo = "none"
        /\ P[2].run = "pinSource" /\ P[2].undo = "none"
        /\ P[3].run = "materialize" /\ P[3].undo = "none"
        /\ P[4].run = "keepPath" /\ P[4].undo = "deleteArtifact"
        /\ P[5].run = "addDependency" /\ P[5].undo = "removeDependency"
        /\ P[6].run = "buildLock" /\ P[6].undo = "saveLock"
        /\ P[7].run = "restoreAgents" /\ P[7].undo = "none"
    BY <1>2, InstallArtifactProgram DEF P
  <2>2. First = 4 /\ FirstUndo = "deleteArtifact" /\ SecondUndo = "removeDependency"
    BY <1>2 DEF First, FirstUndo, SecondUndo
  <2> QED
    BY <1>1, <1>2, <2>1, <2>2 DEF P
<1>3. CASE op = "install" /\ arg \notin Artifacts
  <2>1. /\ Len(P) = 5
        /\ P[1].run = "ensureInitialized" /\ P[1].undo = "none"
        /\ P[2].run = "envEntries" /\ P[2].undo = "nothing"
        /\ P[3].run = "addDependency" /\ P[3].undo = "removeDependency"
        /\ P[4].run = "buildLock" /\ P[4].undo = "saveLock"
        /\ P[5].run = "restoreAgents" /\ P[5].undo = "none"
    BY <1>1, <1>3, InstallMcpProgram DEF P, Packages
  <2>2. First = 2 /\ FirstUndo = "nothing" /\ SecondUndo = "removeDependency"
    BY <1>3 DEF First, FirstUndo, SecondUndo
  <2> QED
    BY <1>1, <1>3, <2>1, <2>2 DEF P
<1>4. CASE op = "remove"
  <2>1. /\ Len(P) = 4
        /\ P[1].run = "assertPathAllowed" /\ P[1].undo = "none"
        /\ P[2].run = "removeDependency" /\ P[2].undo = "addDependency"
        /\ P[3].run = "buildLock" /\ P[3].undo = "saveLock"
        /\ P[4].run = "deleteArtifact" /\ P[4].undo = "nothing"
    BY <1>4, RemoveProgram DEF P
  <2>2. First = 2 /\ FirstUndo = "addDependency" /\ SecondUndo = "saveLock"
    BY <1>4 DEF First, FirstUndo, SecondUndo
  <2> QED
    BY <1>1, <1>4, <2>1, <2>2 DEF P
<1> QED
  BY <1>2, <1>3, <1>4

LEMMA BlockAdvance ==
  ASSUME IInv, BlockInv, op \in {"install", "remove"}, phase = "running", Advance,
         UNCHANGED <<before, undone>>, InBlock'
  PROVE  /\ InBlock /\ UndosOK /\ FilesOK /\ UndosOK'
         /\ pc' = pc + 1 /\ pc <= First + 1 /\ phase' = "running"
         /\ UNCHANGED <<op, arg, depBefore>> /\ First' = First
<1>1. /\ pc \in Nat \ {0} /\ First \in {2, 4} /\ completed \in Seq(Undos)
      /\ UNCHANGED <<op, arg, depBefore, First, FirstUndo, SecondUndo>>
  BY BlockSteps DEF Advance, IInv, TypeInv, ControlOK, First, FirstUndo, SecondUndo
<1>2. phase' = "running" /\ pc' = pc + 1
  BY DEF Advance, InBlock
<1>3. pc <= First + 1
  BY <1>1, <1>2 DEF InBlock
<1>4. InBlock
  BY <1>1, <1>3 DEF InBlock, Covered
<1>5. UndosOK /\ FilesOK
  BY <1>4 DEF BlockInv
<1>6. completed' = IF Step.undo = "none" THEN <<>> ELSE Append(completed, Step.undo)
  BY DEF Advance
<1>7. CASE pc < First
  <2>1. Len(completed') = 0
    BY <1>6, <1>7, BlockSteps DEF IInv, TypeInv
  <2> QED
    BY <1>1, <1>2, <1>3, <1>4, <1>5, <1>7, <2>1 DEF UndosOK
<1>8. CASE pc = First
  <2>1. Len(completed) = 0 /\ Step.undo = FirstUndo /\ FirstUndo # "none"
    BY <1>1, <1>5, <1>8, BlockSteps DEF IInv, TypeInv, UndosOK, FirstUndo
  <2>2. Len(completed') = 1 /\ completed'[1] = FirstUndo
    BY <1>1, <1>6, <2>1
  <2> QED
    BY <1>1, <1>2, <1>3, <1>4, <1>5, <1>8, <2>2 DEF UndosOK
<1>9. CASE pc = First + 1
  <2>1. Len(completed) = 1 /\ completed[1] = FirstUndo /\ Step.undo = SecondUndo /\ SecondUndo # "none"
    BY <1>1, <1>5, <1>9, BlockSteps DEF IInv, TypeInv, UndosOK, SecondUndo
  <2>2. SecondUndo \in Undos /\ completed' = Append(completed, SecondUndo)
    BY <1>6, <2>1 DEF SecondUndo, Undos
  <2>3. Len(completed') = 2 /\ completed'[1] = FirstUndo /\ completed'[2] = SecondUndo
    <3>1. completed \in Seq(Undos) /\ SecondUndo \in Undos /\ Len(completed) = 1
      BY <1>1, <2>1, <2>2
    <3>2. /\ Len(Append(completed, SecondUndo)) = 2
          /\ Append(completed, SecondUndo)[1] = completed[1]
          /\ Append(completed, SecondUndo)[2] = SecondUndo
      BY <3>1, AppendSecond
    <3> QED
      BY <2>1, <2>2, <3>2
  <2> QED
    BY <1>1, <1>2, <1>3, <1>4, <1>5, <1>9, <2>3 DEF UndosOK
<1> QED
  BY <1>1, <1>3, <1>7, <1>8, <1>9

\* The step that writes the manifest or the lock, or an artifact outside the block.
LEMMA BlockWork ==
  ASSUME IInv, BlockInv, op \in {"install", "remove"}, InBlock',
         \/ EnsureInitialized \/ PinSource \/ Materialize \/ Bystander
         \/ AddDependency \/ RemoveDependency \/ BuildLock \/ DeleteArtifact
  PROVE  UndosOK' /\ FilesOK'
<1>1. phase = "running" /\ Advance /\ UNCHANGED <<before, undone>>
  BY DEF EnsureInitialized, PinSource, Materialize, Bystander, AddDependency, RemoveDependency,
         BuildLock, DeleteArtifact, At, history
<1>2. /\ InBlock /\ UndosOK /\ FilesOK /\ UndosOK'
      /\ pc' = pc + 1 /\ pc <= First + 1 /\ phase' = "running"
      /\ UNCHANGED <<op, arg, depBefore>> /\ First' = First
  BY <1>1, BlockAdvance
<1>3. pc \in Nat \ {0} /\ First \in {2, 4} /\ arg \in Packages
  BY <1>1, BlockSteps DEF IInv, TypeInv
<1>4. /\ Len(completed) = IF pc < First THEN 0 ELSE pc - First
      /\ Len(completed') = IF pc + 1 < First THEN 0 ELSE pc + 1 - First
  <2>1. Len(completed) = IF pc < First THEN 0 ELSE pc - First
    BY <1>1, <1>2 DEF UndosOK
  <2>2. Len(completed') = IF pc' < First' THEN 0 ELSE pc' - First'
    BY <1>2 DEF UndosOK
  <2> QED
    BY <1>2, <1>3, <2>1, <2>2
<1>5. manifest \in Manifests /\ disk \in Disks
  BY DEF IInv, TypeInv, RecordsOK
<1>6. CASE EnsureInitialized
  <2>1. Step.run = "ensureInitialized" /\ UNCHANGED <<manifest, disk, before>> /\ lockBefore' = lock'
    BY <1>6 DEF EnsureInitialized, At, history
  <2>2. pc = 1 /\ op = "install"
    BY <1>1, <1>2, <1>3, <2>1, BlockSteps DEF IInv, TypeInv, First
  <2> QED
    BY <1>2, <1>3, <1>4, <2>1, <2>2 DEF FilesOK
<1>7. CASE PinSource
  <2>1. Step.run = "pinSource" /\ UNCHANGED <<manifest, disk, before, lock, lockBefore>>
    BY <1>7 DEF PinSource, At, history
  <2>2. pc > 1 /\ pc < First /\ op = "install"
    BY <1>1, <1>2, <1>3, <2>1, BlockSteps DEF IInv, TypeInv, First
  <2> QED
    BY <1>2, <1>3, <1>4, <2>1, <2>2 DEF FilesOK
<1>8. CASE Materialize
  <2>1. Step.run = "materialize" /\ UNCHANGED <<manifest, before, lock, lockBefore>>
        /\ \A q \in Artifacts \ {arg} : disk'[q] = disk[q]
    BY <1>5, <1>8 DEF Materialize, At, history, Disks
  <2>2. pc > 1 /\ pc < First /\ op = "install"
    BY <1>1, <1>2, <1>3, <2>1, BlockSteps DEF IInv, TypeInv, First
  <2> QED
    BY <1>2, <1>3, <1>4, <2>1, <2>2 DEF FilesOK
<1>9. CASE Bystander
  <2>1. UNCHANGED <<manifest, disk, before, lock, lockBefore>>
        /\ Step.run \in {"keepPath", "envEntries", "assertPathAllowed", "restoreToolkits", "restoreAgents"}
    BY <1>9 DEF Bystander, files, history
  <2>2. \/ op = "remove" /\ pc < First
        \/ op = "install" /\ pc = First
    BY <1>1, <1>2, <1>3, <2>1, BlockSteps DEF IInv, TypeInv, First
  <2> QED
    BY <1>2, <1>3, <1>4, <2>1, <2>2 DEF FilesOK
<1>10. CASE AddDependency
  <2>1. /\ Step.run = "addDependency" /\ UNCHANGED <<disk, before, lock, lockBefore>>
        /\ \A q \in Packages \ {arg} : manifest'[q] = manifest[q]
    BY <1>5, <1>10 DEF AddDependency, At, history, Manifests
  <2>2. op = "install" /\ pc = First + 1
    BY <1>1, <1>2, <1>3, <2>1, BlockSteps DEF IInv, TypeInv
  <2> QED
    BY <1>2, <1>3, <1>4, <2>1, <2>2 DEF FilesOK
<1>11. CASE RemoveDependency
  <2>1. /\ Step.run = "removeDependency" /\ UNCHANGED <<disk, before, lock, lockBefore>>
        /\ (\A q \in Packages \ {arg} : manifest'[q] = manifest[q]) /\ manifest'[arg] = None
    BY <1>3, <1>5, <1>11 DEF RemoveDependency, At, history, Manifests
  <2>2. op = "remove" /\ pc = First
    BY <1>1, <1>2, <1>3, <2>1, BlockSteps DEF IInv, TypeInv
  <2> QED
    BY <1>2, <1>3, <1>4, <2>1, <2>2 DEF FilesOK
<1>12. CASE BuildLock
  <2>1. Step.run = "buildLock" /\ UNCHANGED <<manifest, disk, before, lockBefore>>
    BY <1>12 DEF BuildLock, At, history
  <2>2. op = "remove" /\ pc = First + 1
    BY <1>1, <1>2, <1>3, <2>1, BlockSteps DEF IInv, TypeInv
  <2> QED
    BY <1>2, <1>3, <1>4, <2>1, <2>2 DEF FilesOK
<1>13. CASE DeleteArtifact
  <2>1. Step.run = "deleteArtifact"
    BY <1>13 DEF DeleteArtifact, At
  <2> QED
    BY <1>1, <1>2, <1>3, <2>1, BlockSteps DEF IInv, TypeInv
<1> QED
  BY <1>2, <1>6, <1>7, <1>8, <1>9, <1>10, <1>11, <1>12, <1>13

\* A step of the block that fails may leave its own artifact in part.
LEMMA BlockStepFails ==
  ASSUME IInv, BlockInv, op \in {"install", "remove"}, InBlock', StepFails
  PROVE  UndosOK' /\ FilesOK'
<1>1. /\ phase = "running" /\ Step.run # "keepPath"
      /\ UNCHANGED <<op, arg, pc, completed, depBefore, lockBefore, before, undone, manifest, lock>>
      /\ phase' = IF Step.undo # "none" /\ completed # <<>> THEN "undoing" ELSE "failed"
  BY DEF StepFails, Throw, locals, history
<1>2. InBlock /\ UndosOK /\ FilesOK
  BY <1>1 DEF InBlock, Covered, First, BlockInv
<1>3. pc \in Nat \ {0} /\ First \in {2, 4} /\ arg \in Packages /\ completed \in Seq(Undos)
  BY <1>1, BlockSteps DEF IInv, TypeInv, ControlOK
<1>4. completed # <<>> <=> Len(completed) > 0
  BY <1>3
<1>5. First' = First /\ FirstUndo' = FirstUndo /\ SecondUndo' = SecondUndo
  BY <1>1 DEF First, FirstUndo, SecondUndo
<1>6. UndosOK'
  <2>1. Step.undo = "none" => pc < First
    BY <1>1, <1>2, <1>3, BlockSteps DEF IInv, TypeInv, InBlock, FirstUndo, SecondUndo
  <2>2. Len(completed) = IF pc < First THEN 0 ELSE pc - First
    BY <1>1, <1>2 DEF UndosOK
  <2>3. phase' = "failed" => Len(completed) = 0
    BY <1>1, <1>3, <1>4, <2>1, <2>2
  <2>4. op = "install" /\ arg \in Artifacts => pc # First
    BY <1>1, BlockSteps DEF IInv, TypeInv
  <2> QED
    BY <1>1, <1>2, <1>5, <2>3, <2>4 DEF UndosOK
<1>7. \A q \in Artifacts \ {arg} : disk'[q] = disk[q]
  <2>1. todo = {}
    BY DEF IInv, LockOK
  <2> QED
    BY <2>1 DEF StepFails, Parts, Working, IInv, TypeInv, RecordsOK, Disks
<1>8. ~(op = "install" /\ arg \in Artifacts /\ Len(completed) = 0 /\ pc > First)
  BY <1>1, <1>2, <1>3 DEF UndosOK
<1> QED
  BY <1>1, <1>2, <1>5, <1>6, <1>7, <1>8 DEF FilesOK

\* An undo takes back what its step did.
LEMMA BlockUndo ==
  ASSUME IInv, BlockInv, op \in {"install", "remove"}, InBlock', Undo
  PROVE  UndosOK' /\ FilesOK'
<1> DEFINE n == Len(completed)
<1>1. /\ phase = "undoing" /\ completed' = SubSeq(completed, 1, n - 1)
      /\ phase' = IF n = 1 THEN "failed" ELSE "undoing"
      /\ UNCHANGED <<op, arg, pc, depBefore, lockBefore, before, undone>>
  BY DEF Undo, NextUndo, locals
<1>2. InBlock /\ UndosOK /\ FilesOK
  BY <1>1 DEF InBlock, Covered, First, BlockInv
<1>3. pc \in Nat \ {0} /\ First \in {2, 4} /\ arg \in Packages /\ completed \in Seq(Undos)
      /\ completed # <<>> /\ manifest \in Manifests /\ disk \in Disks
  BY <1>1, BlockSteps DEF IInv, TypeInv, ControlOK, RecordsOK
<1>4. n \in {1, 2} /\ Len(completed') = n - 1 /\ (n = 2 => completed'[1] = completed[1])
  <2>1. n \in {1, 2}
    BY <1>2, <1>3 DEF UndosOK
  <2>2. Len(completed') = n - 1 /\ \A i \in 1..(n - 1) : completed'[i] = completed[i]
    BY <1>1, <1>3, DropLast
  <2> QED
    BY <2>1, <2>2
<1>5. First' = First /\ FirstUndo' = FirstUndo /\ SecondUndo' = SecondUndo
  BY <1>1 DEF First, FirstUndo, SecondUndo
<1>6. UndosOK'
  BY <1>1, <1>2, <1>4, <1>5 DEF UndosOK
<1>7. LastUndo = IF n = 1 THEN FirstUndo ELSE SecondUndo
  BY <1>2, <1>4 DEF UndosOK, LastUndo
<1>8. CASE op = "install"
  <2>1. lock' = lock
    BY <1>7, <1>8 DEF Undo, FirstUndo, SecondUndo
  <2>2. CASE n = 2
    <3>1. disk' = disk /\ manifest' = [manifest EXCEPT ![arg] = None]
      BY <1>7, <1>8, <2>2 DEF Undo, SecondUndo
    <3> QED
      BY <1>1, <1>2, <1>3, <1>4, <1>5, <1>6, <1>8, <2>1, <2>2, <3>1 DEF FilesOK, Manifests
  <2>3. CASE n = 1
    <3>1. manifest' = manifest /\ (arg \in Artifacts => disk' = [disk EXCEPT ![arg] = Absent])
          /\ (arg \notin Artifacts => disk' = disk)
      BY <1>7, <1>8, <2>3 DEF Undo, FirstUndo
    <3> QED
      BY <1>1, <1>2, <1>3, <1>4, <1>5, <1>6, <1>8, <2>1, <2>3, <3>1 DEF FilesOK, Disks
  <2> QED
    BY <1>4, <2>2, <2>3
<1>9. CASE op = "remove"
  <2>1. disk' = disk
    BY <1>7, <1>9 DEF Undo, FirstUndo, SecondUndo
  <2>2. CASE n = 2
    <3>1. manifest' = manifest /\ lock' = lockBefore
      BY <1>2, <1>7, <1>9, <2>2 DEF Undo, SecondUndo, FilesOK
    <3> QED
      BY <1>1, <1>2, <1>3, <1>4, <1>5, <1>6, <1>9, <2>1, <2>2, <3>1 DEF FilesOK
  <2>3. CASE n = 1
    <3>1. lock' = lock /\ manifest' = IF depBefore # None THEN [manifest EXCEPT ![arg] = depBefore] ELSE manifest
      BY <1>7, <1>9, <2>3 DEF Undo, FirstUndo
    <3> QED
      BY <1>1, <1>2, <1>3, <1>4, <1>5, <1>6, <1>9, <2>1, <2>3, <3>1 DEF FilesOK, Manifests
  <2> QED
    BY <1>4, <2>2, <2>3
<1> QED
  BY <1>8, <1>9

LEMMA InitBlock == Init => BlockInv
  BY DEF Init, BlockInv, InBlock

LEMMA NextBlock == IInv /\ BlockInv /\ [Next]_vars => BlockInv'
<1> SUFFICES ASSUME IInv, BlockInv, [Next]_vars, InBlock' PROVE UndosOK' /\ FilesOK'
  BY DEF BlockInv
<1>1. ASSUME NEW o \in Offered, NEW p \in Packages \cup {None}, Start(o, p) PROVE UndosOK' /\ FilesOK'
  <2>1. completed' = <<>>
    BY <1>1 DEF Start, IInv, TypeInv, ControlOK
  <2>2. /\ before' = [manifest |-> manifest, hub |-> hub, lock |-> lock, disk |-> disk, tip |-> tip]
        /\ op' = o /\ arg' = p /\ pc' = 1 /\ phase' = "running"
        /\ depBefore' = IF o = "remove" THEN manifest[p] ELSE None
        /\ lockBefore' = lock /\ UNCHANGED <<manifest, lock, disk>>
    BY <1>1 DEF Start, files
  <2>3. First' \in {2, 4}
    BY DEF First
  <2>4. UndosOK'
    <3>1. Len(completed') = 0 /\ pc' < First'
      BY <2>1, <2>2, <2>3
    <3> QED
      BY <2>2, <3>1 DEF UndosOK
  <2> QED
    BY <2>1, <2>2, <2>3, <2>4 DEF FilesOK, InBlock, Covered
<1>2. CASE /\ op' = op /\ op \notin {"install", "remove"}
  BY <1>2 DEF InBlock
<1>3. CASE /\ op \in {"install", "remove"}
           /\ \/ EnsureInitialized \/ PinSource \/ Materialize \/ Bystander
              \/ AddDependency \/ RemoveDependency \/ BuildLock \/ DeleteArtifact
  BY <1>3, BlockWork
<1>4. CASE op \in {"install", "remove"} /\ (Gates \/ VerifyLock \/ StartWave \/ EndReinstall)
  <2>1. phase = "running" /\ Step.run \in {"gates", "verifyLock", "reinstallFromLock"}
    BY <1>4 DEF Gates, VerifyLock, StartWave, EndReinstall, At
  <2>2. pc < First \/ pc = First \/ pc = First + 1 \/ pc = First + 2 \/ pc > First + 2
    BY <1>4, <2>1, BlockSteps DEF IInv, TypeInv
  <2> QED
    BY <1>4, <2>1, <2>2, BlockSteps DEF IInv, TypeInv
<1>5. ASSUME op \in {"install", "remove"}, NEW p \in Artifacts, Rewrite(p) \/ RewriteFails(p)
      PROVE  UndosOK' /\ FilesOK'
  BY <1>5 DEF Rewrite, RewriteFails, IInv, LockOK
<1>6. CASE op \in {"install", "remove"} /\ StepFails
  BY <1>6, BlockStepFails
<1>7. CASE op \in {"install", "remove"} /\ Undo
  BY <1>7, BlockUndo
<1>8. CASE UndoFails \/ Crash \/ End
  BY <1>8 DEF UndoFails, Crash, End, InBlock
<1>9. CASE Push
  BY <1>9 DEF Push, BlockInv, InBlock, Covered, First, FirstUndo, SecondUndo, UndosOK, FilesOK,
              files, history, locals
<1>10. CASE Upgrade \/ EditManifest \/ EditArtifact \/ Checkout \/ LoseLock
  BY <1>10 DEF Upgrade, EditManifest, EditArtifact, Checkout, LoseLock, Edit, InBlock
<1>11. CASE UNCHANGED vars
  BY <1>11 DEF vars, BlockInv, InBlock, Covered, First, FirstUndo, SecondUndo, UndosOK, FilesOK,
               files, history, locals
<1>12. op' = op \/ (\E o \in Offered, p \in Packages \cup {None} : Start(o, p)) \/ End
  BY CommandKept DEF CommandEnds
<1> QED
  BY <1>1, <1>2, <1>3, <1>4, <1>5, <1>6, <1>7, <1>8, <1>9, <1>10, <1>11, <1>12 DEF Next

\* withRollback undoes a removal, or the first install of a package.
THEOREM BlockUndoneCorrect == Spec => []BlockUndone
<1>1. Init => BlockInv /\ BeforeOK
  BY InitBlock DEF Init, BeforeOK
<1>2. IInv /\ BlockInv /\ [Next]_vars => BlockInv'
  BY NextBlock
<1>3. IInv /\ BeforeOK /\ [Next]_vars => BeforeOK'
  BY NextBefore
<1>4. IInv /\ BlockInv /\ BeforeOK => BlockUndone
  <2> SUFFICES ASSUME IInv, BlockInv, BeforeOK, phase = "failed", undone, Step.undo # "none",
                      \/ op = "remove" /\ before.lock # NoLock
                      \/ /\ op = "install" /\ before.manifest[arg] = None
                         /\ arg \in Artifacts => before.disk[arg] = Absent
               PROVE  /\ manifest = before.manifest
                      /\ lock = lockBefore
                      /\ \A p \in Artifacts : disk[p] = before.disk[p] \/ (op = "remove" /\ p = arg)
    BY DEF BlockUndone
  <2>1. /\ pc \in Nat \ {0} /\ First \in {2, 4} /\ arg \in Packages /\ pc >= First /\ pc <= First + 2
    BY BlockSteps DEF IInv, TypeInv
  <2>2. UndosOK /\ FilesOK
    BY <2>1 DEF BlockInv, InBlock, Covered
  <2>3. Len(completed) = 0 /\ (op = "install" /\ arg \in Artifacts => pc > First)
    BY <2>1, <2>2 DEF UndosOK
  <2>4. before.manifest \in Manifests /\ manifest \in Manifests
    BY DEF BeforeOK, Snapshots, Manifests, IInv, TypeInv, RecordsOK
  <2>5. \A q \in Packages : manifest[q] = before.manifest[q]
    BY <2>1, <2>2, <2>3 DEF FilesOK
  <2>6. manifest = before.manifest
    BY <2>4, <2>5 DEF Manifests
  <2>7. lock = lockBefore
    BY <2>1, <2>2, <2>3 DEF FilesOK
  <2> QED
    BY <2>1, <2>2, <2>3, <2>6, <2>7 DEF FilesOK
<1> QED
  BY <1>1, <1>2, <1>3, <1>4, InvCorrect, PTL DEF Spec

-----------------------------------------------------------------------------
\* The lock a command leaves. Past its last buildLock no step, failure or crash
\* changes what the lock records.

Recorded ==
  /\ lock \in Locks /\ lock.hub = hub /\ lock.dep = manifest
  /\ \A p \in Artifacts : lock.hash[p] = IF manifest[p] = None THEN Absent ELSE disk[p]

PastLastLock ==
  \/ op = "install" /\ pc > First + 2
  \/ op = "reinstall" /\ pc \in {5, 6}
  \/ op = "remove" /\ pc = 4 /\ phase \in {"running", "ok"}
  \/ op = "lock" /\ phase = "ok"

\* The steps of a rollback have undos, a command ends well at its last step, and
\* what a removal drops stays out of the manifest unless the removal fails.
EndsOK ==
  /\ phase = "undoing" => Step.undo # "none"
  /\ phase = "ok" => pc = Len(Program(op, arg))
  /\ op = "remove" /\ pc > 2 /\ phase \in {"running", "ok"} => manifest[arg] = None

RecordedInv == EndsOK /\ (phase # "idle" /\ PastLastLock => Recorded)

LEMMA ReinstallSteps ==
  ASSUME ControlOK, phase # "idle", op = "reinstall"
  PROVE  /\ pc \in 1..6 /\ Step.undo = "none" /\ Len(Program(op, arg)) = 6
         /\ pc = 1 => Step.run = "ensureInitialized"
         /\ pc \in {2, 4} => Step.run = "buildLock"
         /\ pc = 3 => Step.run = "reinstallFromLock"
         /\ pc = 5 => Step.run = "restoreToolkits"
         /\ Step.run = "restoreAgents" <=> pc = 6
<1> DEFINE P == Program(op, arg)
<1>1. Step = P[pc] /\ pc \in 1..Len(P)
  BY DEF ControlOK, Step
<1>2. /\ Len(P) = 6
      /\ P[1].run = "ensureInitialized" /\ P[1].undo = "none"
      /\ P[2].run = "buildLock" /\ P[2].undo = "none"
      /\ P[3].run = "reinstallFromLock" /\ P[3].undo = "none"
      /\ P[4].run = "buildLock" /\ P[4].undo = "none"
      /\ P[5].run = "restoreToolkits" /\ P[5].undo = "none"
      /\ P[6].run = "restoreAgents" /\ P[6].undo = "none"
  BY ReinstallProgram
<1>3. Len(Program(op, arg)) = 6
  BY <1>2
<1> HIDE DEF P
<1> QED
  BY <1>1, <1>2, <1>3

\* Only buildLock brings a command past its last buildLock; what follows changes
\* no record but the artifact a removal deletes.
LEMMA RecordedAdvance ==
  ASSUME IInv, phase = "running", Advance, PastLastLock'
  PROVE  \/ Step.run = "buildLock"
         \/ PastLastLock /\ Step.run \in {"restoreToolkits", "restoreAgents"}
         \/ PastLastLock /\ op = "remove" /\ pc = 4 /\ Step.run = "deleteArtifact"
<1>1. /\ op' = op /\ First' = First /\ pc' \in {pc, pc + 1}
      /\ pc' = pc => pc = Len(Program(op, arg)) /\ phase' = "ok"
      /\ pc' # pc => phase' = "running"
      /\ ControlOK /\ pc \in Nat
  BY DEF Advance, First, IInv, TypeInv, ControlOK
<1>2. CASE op = "install"
  <2>1. First \in {2, 4} /\ pc' > First + 2
    BY <1>1, <1>2, BlockSteps DEF PastLastLock
  <2>2. pc = First + 2 \/ pc > First + 2
    BY <1>1, <2>1
  <2> QED
    BY <1>1, <1>2, <2>2, BlockSteps DEF PastLastLock
<1>3. CASE op = "reinstall"
  <2>1. pc \in {4, 5, 6}
    BY <1>1, <1>3, ReinstallSteps DEF PastLastLock
  <2> QED
    BY <1>1, <1>3, <2>1, ReinstallSteps DEF PastLastLock
<1>4. CASE op = "remove"
  <2>1. First = 2 /\ pc \in {3, 4}
    BY <1>1, <1>4 DEF PastLastLock, First
  <2> QED
    BY <1>1, <1>4, <2>1, BlockSteps DEF PastLastLock
<1>5. CASE op = "lock"
  <2>1. pc = 1
    <3>1. pc \in 1..Len(Program(op, arg))
      BY DEF IInv, TypeInv, ControlOK
    <3>2. Len(Program(op, arg)) = 1
      BY <1>5, ShortPrograms
    <3> QED
      BY <3>1, <3>2
  <2> QED
    BY <1>5, <2>1, ShortPrograms DEF Step
<1> QED
  BY <1>1, <1>2, <1>3, <1>4, <1>5 DEF PastLastLock

\* Past the last buildLock, while the command runs or has failed there, nothing
\* is being written, and no step that fails has an undo.
LEMMA PastWorking ==
  ASSUME IInv, EndsOK, phase # "idle", PastLastLock, op \in {"install", "reinstall"}
  PROVE  /\ Parts = {} /\ todo = {} /\ Step.undo = "none" /\ phase # "undoing"
         /\ Step.run \in {"restoreToolkits", "restoreAgents"}
<1>1. Step.undo = "none" /\ Step.run \in {"restoreToolkits", "restoreAgents"}
  <2>1. CASE op = "install"
    BY <2>1, BlockSteps DEF PastLastLock, IInv, TypeInv
  <2>2. CASE op = "reinstall"
    BY <2>2, ReinstallSteps DEF PastLastLock, IInv, TypeInv
  <2> QED
    BY <2>1, <2>2
<1>2. phase # "undoing" /\ todo = {}
  <2>1. phase # "undoing"
    BY <1>1 DEF EndsOK
  <2>2. op = "reinstall" => pc # 3
    BY DEF PastLastLock
  <2> QED
    BY <2>1, <2>2 DEF IInv, LockOK
<1> QED
  BY <1>1, <1>2 DEF Parts, Working, Deleting

LEMMA InitRecorded == Init => RecordedInv
  BY DEF Init, RecordedInv, EndsOK

LEMMA NextEnds == IInv /\ RecordedInv /\ [Next]_vars => EndsOK'
<1> SUFFICES ASSUME IInv, EndsOK, [Next]_vars PROVE EndsOK'
  BY DEF RecordedInv
<1>1. CASE \E o \in Offered, p \in Packages \cup {None} : Start(o, p)
  BY <1>1 DEF Start, EndsOK
<1>2. CASE \/ EnsureInitialized \/ PinSource \/ Materialize \/ Bystander
           \/ AddDependency \/ RemoveDependency \/ BuildLock \/ DeleteArtifact
           \/ EndReinstall \/ ((Gates \/ VerifyLock) /\ Advance)
  <2>1. /\ phase = "running" /\ Advance
        /\ manifest' = manifest \/ RemoveDependency \/ AddDependency
    BY <1>2 DEF EnsureInitialized, PinSource, Materialize, Bystander, AddDependency, RemoveDependency,
                BuildLock, DeleteArtifact, EndReinstall, Gates, VerifyLock, At, files
  <2>2. /\ op' = op /\ arg' = arg /\ phase' \in {"ok", "running"}
        /\ phase' = "ok" => pc' = pc /\ pc = Len(Program(op, arg))
        /\ pc' \in {pc, pc + 1} /\ (pc' = pc => phase' = "ok") /\ pc \in Nat
    BY <2>1 DEF Advance, IInv, TypeInv, ControlOK
  <2>3. ASSUME op = "remove", pc' > 2 PROVE manifest'[arg] = None
    <3>1. /\ pc \in {2, 3, 4} /\ First = 2 /\ arg \in Packages /\ manifest \in Manifests
          /\ Step.run = IF pc = 2 THEN "removeDependency" ELSE IF pc = 3 THEN "buildLock" ELSE "deleteArtifact"
      BY <2>1, <2>2, <2>3, BlockSteps DEF IInv, TypeInv, RecordsOK, First
    <3>2. CASE pc = 2
      BY <1>2, <3>1, <3>2
         DEF RemoveDependency, EnsureInitialized, PinSource, Materialize, Bystander, AddDependency,
             BuildLock, DeleteArtifact, EndReinstall, Gates, VerifyLock, At, Manifests
    <3>3. CASE pc # 2
      <4>1. manifest' = manifest
        BY <2>1, <3>1, <3>3 DEF RemoveDependency, AddDependency, At
      <4> QED
        BY <2>1, <2>3, <3>1, <3>3, <4>1 DEF EndsOK
    <3> QED
      BY <3>2, <3>3
  <2> QED
    BY <2>2, <2>3 DEF EndsOK
<1>3. CASE (Gates \/ VerifyLock \/ StepFails) /\ Throw
  BY <1>3 DEF Gates, VerifyLock, StepFails, Throw, locals, EndsOK, Step
<1>4. CASE StartWave
  BY <1>4 DEF StartWave, EndsOK, Step, files, locals
<1>5. ASSUME NEW p \in Artifacts, Rewrite(p) \/ RewriteFails(p) PROVE EndsOK'
  BY <1>5 DEF Rewrite, RewriteFails, At, Throw, EndsOK, Step, locals
<1>6. CASE Undo \/ UndoFails
  BY <1>6 DEF Undo, UndoFails, NextUndo, EndsOK, Step, locals
<1>7. CASE Crash \/ End
  BY <1>7 DEF Crash, End, EndsOK
<1>8. CASE Push \/ UNCHANGED vars
  BY <1>8 DEF Push, vars, files, locals, EndsOK, Step
<1>9. CASE Upgrade \/ EditManifest \/ EditArtifact \/ Checkout \/ LoseLock
  BY <1>9 DEF Upgrade, EditManifest, EditArtifact, Checkout, LoseLock, Edit, EndsOK
<1>10. (Gates \/ VerifyLock => Advance \/ Throw) /\ (StepFails => Throw)
  BY DEF Gates, VerifyLock, StepFails
<1> QED
  BY <1>1, <1>2, <1>3, <1>4, <1>5, <1>6, <1>7, <1>8, <1>9, <1>10 DEF Next

LEMMA NextRecorded == IInv /\ RecordedInv /\ [Next]_vars => RecordedInv'
<1> SUFFICES ASSUME IInv, RecordedInv, [Next]_vars, phase' # "idle", PastLastLock' PROVE Recorded'
  BY NextEnds DEF RecordedInv
<1>1. EndsOK /\ (phase # "idle" /\ PastLastLock => Recorded)
  BY DEF RecordedInv
<1>2. ASSUME UNCHANGED <<manifest, hub, lock, disk>>, Recorded PROVE Recorded'
  BY <1>2 DEF Recorded
<1>3. CASE \E o \in Offered, p \in Packages \cup {None} : Start(o, p)
  <2>1. pc' = 1 /\ phase' = "running"
    BY <1>3 DEF Start
  <2>2. First' + 2 > 3
    BY DEF First
  <2>3. ~(1 > First' + 2)
    BY <2>2 DEF First
  <2> QED
    BY <2>1, <2>3 DEF PastLastLock
<1>4. CASE BuildLock
  <2>1. lock' = Built /\ UNCHANGED <<manifest, hub, disk>>
    BY <1>4 DEF BuildLock
  <2>2. Built \in Locks
    BY BuiltType DEF IInv, TypeInv, RecordsOK
  <2>3. /\ Built.hub = hub /\ Built.dep = manifest
        /\ \A p \in Artifacts : Built.hash[p] = IF manifest[p] = None THEN Absent ELSE disk[p]
    BY DEF Built
  <2> QED
    BY <2>1, <2>2, <2>3 DEF Recorded
<1>5. CASE \/ EnsureInitialized \/ PinSource \/ Materialize \/ AddDependency \/ RemoveDependency
           \/ EndReinstall \/ ((Gates \/ VerifyLock) /\ Advance)
  <2>1. phase = "running" /\ Advance
        /\ Step.run \notin {"buildLock", "restoreToolkits", "restoreAgents", "deleteArtifact"}
    BY <1>5 DEF EnsureInitialized, PinSource, Materialize, AddDependency, RemoveDependency,
                EndReinstall, Gates, VerifyLock, At
  <2> QED
    BY <2>1, RecordedAdvance
<1>6. CASE Bystander
  <2>1. /\ phase = "running" /\ Advance /\ UNCHANGED <<manifest, hub, lock, disk>>
        /\ Step.run \notin {"buildLock", "deleteArtifact"}
    BY <1>6 DEF Bystander, files
  <2> QED
    BY <1>1, <1>2, <2>1, RecordedAdvance
<1>7. CASE DeleteArtifact
  <2>1. /\ phase = "running" /\ Advance /\ Step.run = "deleteArtifact" /\ UNCHANGED <<manifest, hub, lock>>
        /\ disk' = [p \in Artifacts |-> IF p = arg THEN Absent ELSE disk[p]]
    BY <1>7 DEF DeleteArtifact, At
  <2>2. PastLastLock /\ op = "remove" /\ pc = 4
    BY <2>1, RecordedAdvance
  <2>3. Recorded /\ manifest[arg] = None
    BY <1>1, <2>1, <2>2 DEF EndsOK
  <2> QED
    BY <2>1, <2>3 DEF Recorded
<1>8. CASE (Gates \/ VerifyLock \/ StepFails) /\ Throw
  <2>1. /\ phase = "running" /\ phase' \notin {"running", "ok"} /\ UNCHANGED <<op, arg, pc>>
        /\ Step.run \in {"gates", "verifyLock"} \/ StepFails
    BY <1>8 DEF Gates, VerifyLock, StepFails, Throw, locals, At
  <2>2. PastLastLock /\ op \in {"install", "reinstall"}
    BY <2>1 DEF PastLastLock, First
  <2>3. Parts = {} /\ Step.run \in {"restoreToolkits", "restoreAgents"}
    BY <1>1, <2>1, <2>2, PastWorking
  <2>4. UNCHANGED <<manifest, hub, lock, disk>>
    BY <2>1, <2>3 DEF StepFails
  <2> QED
    BY <1>1, <1>2, <2>1, <2>2, <2>4
<1>9. CASE StartWave
  <2>1. phase = "running" /\ UNCHANGED <<op, arg, pc, phase, manifest, hub, lock, disk>>
    BY <1>9 DEF StartWave, At, files, locals
  <2>2. PastLastLock
    BY <2>1 DEF PastLastLock, First
  <2> QED
    BY <1>1, <1>2, <2>1, <2>2
<1>10. ASSUME NEW p \in Artifacts, Rewrite(p) \/ RewriteFails(p) PROVE Recorded'
  <2>1. op' = op /\ pc' = pc /\ pc = 3 /\ op \in {"reinstall", "ci"}
    BY <1>10 DEF Rewrite, RewriteFails, IInv, LockOK, Throw, locals
  <2> QED
    BY <2>1 DEF PastLastLock
<1>11. CASE Undo \/ UndoFails \/ Crash
  <2>1. /\ phase # "idle" /\ phase' \notin {"running", "ok"} /\ UNCHANGED <<op, arg, pc>>
        /\ phase = "undoing" \/ Crash
    BY <1>11 DEF Undo, UndoFails, NextUndo, Crash, locals
  <2>2. PastLastLock /\ op \in {"install", "reinstall"}
    BY <2>1 DEF PastLastLock, First
  <2>3. Parts = {} /\ phase # "undoing"
    BY <1>1, <2>1, <2>2, PastWorking
  <2>4. UNCHANGED <<manifest, hub, lock, disk>>
    BY <2>1, <2>3 DEF Crash
  <2> QED
    BY <1>1, <1>2, <2>1, <2>2, <2>4
<1>12. CASE Push \/ UNCHANGED vars
  <2>1. UNCHANGED <<op, arg, pc, phase, manifest, hub, lock, disk>>
    BY <1>12 DEF Push, vars, files, locals
  <2>2. phase # "idle" /\ PastLastLock
    BY <2>1 DEF PastLastLock, First
  <2> QED
    BY <1>1, <1>2, <2>1, <2>2
<1>13. CASE End \/ Upgrade \/ EditManifest \/ EditArtifact \/ Checkout \/ LoseLock
  BY <1>13 DEF End, Upgrade, EditManifest, EditArtifact, Checkout, LoseLock, Edit
<1>14. (Gates \/ VerifyLock => Advance \/ Throw) /\ (StepFails => Throw)
  BY DEF Gates, VerifyLock, StepFails
<1> QED
  BY <1>3, <1>4, <1>5, <1>6, <1>7, <1>8, <1>9, <1>10, <1>11, <1>12, <1>13, <1>14 DEF Next

\* Where the commands of SuccessRecorded end.
LEMMA PastAtEnd ==
  ASSUME IInv, EndsOK, phase \in {"ok", "failed", "crashed"}, op \in {"install", "reinstall", "remove", "lock"},
         phase = "ok" \/ Step.run = "restoreAgents"
  PROVE  PastLastLock
<1>1. ControlOK /\ phase # "idle" /\ (phase = "ok" => pc = Len(Program(op, arg)))
  BY DEF IInv, TypeInv, EndsOK
<1>2. CASE op = "install"
  <2>1. /\ First \in {2, 4} /\ Len(Program(op, arg)) = First + 3 /\ pc \in Nat \ {0}
        /\ Step.run = "restoreAgents" => pc > First + 2
    BY <1>1, <1>2, BlockSteps
  <2> QED
    BY <1>1, <1>2, <2>1 DEF PastLastLock
<1>3. CASE op = "reinstall"
  BY <1>1, <1>3, ReinstallSteps DEF PastLastLock
<1>4. CASE op = "remove"
  <2>1. First = 2 /\ Len(Program(op, arg)) = 4 /\ Step.run # "restoreAgents"
    BY <1>1, <1>4, BlockSteps DEF First
  <2> QED
    BY <1>1, <1>4, <2>1 DEF PastLastLock
<1>5. CASE op = "lock"
  <2>1. pc \in 1..Len(Program(op, arg)) /\ Len(Program(op, arg)) = 1
    BY <1>1, <1>5, ShortPrograms DEF ControlOK
  <2>2. Step.run # "restoreAgents"
    BY <1>5, <2>1, ShortPrograms DEF Step
  <2> QED
    BY <1>5, <2>2 DEF PastLastLock
<1> QED
  BY <1>2, <1>3, <1>4, <1>5

\* An install, a removal or a lock that got past its last buildLock leaves the
\* lock recording what is declared and what is on disk.
THEOREM SuccessRecordedCorrect == Spec => []SuccessRecorded
<1>1. Init => RecordedInv
  BY InitRecorded
<1>2. IInv /\ RecordedInv /\ [Next]_vars => RecordedInv'
  BY NextRecorded
<1>3. IInv /\ RecordedInv => SuccessRecorded
  <2> SUFFICES ASSUME IInv, RecordedInv, Stopped, op \in {"install", "reinstall", "remove", "lock"},
                      phase = "ok" \/ Step.run = "restoreAgents"
               PROVE  lock # NoLock /\ lock = [Built EXCEPT !.commit = lock.commit]
    BY DEF SuccessRecorded
  <2>1. phase # "idle" /\ PastLastLock
    BY PastAtEnd DEF Stopped, RecordedInv
  <2>2. Recorded
    BY <2>1 DEF RecordedInv
  <2>3. lock # NoLock
    BY <2>2, LockAssumption DEF Recorded
  <2>4. lock.hash = [p \in Artifacts |-> IF manifest[p] = None THEN Absent ELSE disk[p]]
    BY <2>2 DEF Recorded, Locks
  <2>5. lock = [hub |-> hub, commit |-> lock.commit, dep |-> manifest,
                hash |-> [p \in Artifacts |-> IF manifest[p] = None THEN Absent ELSE disk[p]]]
    BY <2>2, <2>4 DEF Recorded, Locks
  <2> QED
    BY <2>3, <2>5 DEF Built
<1> QED
  BY <1>1, <1>2, <1>3, InvCorrect, PTL DEF Spec
-----------------------------------------------------------------------------
\* What reinstallFromLock has restored, wave by wave. A remote skill that is
\* declared has a source, so that there is a commit to restore it from.

\* No command, failure or undo leaves a remote skill declared without a source.
SourceInv ==
  /\ \A p \in RemoteSkills : manifest[p] # None => hub # NoSource
  /\ phase # "idle" /\ arg \in RemoteSkills =>
       /\ op = "install" /\ pc > 2 => hub # NoSource
       /\ depBefore # None => hub # NoSource

Restoring == op \in {"reinstall", "ci"}

\* The artifacts that have been restored so far.
Written ==
  IF wave = "none" THEN {}
  ELSE Restored(lock, IF wave = "skills" THEN Skills ELSE Artifacts) \ todo

\* The commits the source had since the command started, and what a restore
\* since then may have written.
Heads == IF hub = Branch THEN before.tip..tip ELSE {hub}
Served(p) == IF p \in RemoteSkills THEN Heads ELSE {bundle}

TipInv == phase # "idle" => before.tip \in 1..tip
WaveInv == wave # "none" => phase = "running" /\ Restoring /\ pc = 3

CiRestored ==
  op = "ci" =>
    /\ pc > 3 => \A p \in Restored(lock, Artifacts) : disk[p] = LockedContent(p)
    /\ pc > 5 => Verifies(lock, disk, FALSE)
Healed ==
  op = "reinstall" =>
    /\ pc > 2 => lock \in Locks /\ lock.hub = hub /\ lock.dep = manifest /\ lock.commit \in Heads
    /\ pc > 3 => \A p \in Restored(lock, Artifacts) : disk[p] \in Served(p)

\* While a command restores, or has restored without an error, what it has
\* written is there, and is what the lock of that moment names.
RestoreInv ==
  phase \in {"running", "ok"} /\ Restoring =>
    /\ pc = 3 => \A p \in Written : disk[p] = LockedContent(p)
    /\ CiRestored /\ Healed

HealInv == SourceInv /\ TipInv /\ WaveInv /\ RestoreInv

\* Where the package named on the command line gets its source and is declared.
LEMMA SourcePlace ==
  ASSUME ControlOK, phase # "idle", arg \in RemoteSkills
  PROVE  /\ Step.run = "addDependency" => op = "install" /\ pc > 2
         /\ op = "install" /\ pc = 2 => Step.run = "pinSource"
<1> DEFINE P == Program(op, arg)
<1>1. Step = P[pc] /\ pc \in 1..Len(P) /\ arg \in Artifacts
  BY DEF ControlOK, Step, Artifacts, Skills
<1> HIDE DEF P
<1>2. CASE op = "install"
  <2>1. /\ Len(P) = 7 /\ P[1].run = "ensureInitialized" /\ P[2].run = "pinSource"
    BY <1>1, <1>2, InstallArtifactProgram DEF P
  <2>2. QED
    BY <1>1, <1>2, <2>1
<1>3. CASE op = "reinstall"
  BY <1>3, ReinstallSteps
<1>4. CASE op = "ci"
  BY <1>4, CiSteps
<1>5. CASE op = "remove"
  <2>1. /\ Len(P) = 4 /\ P[1].run = "assertPathAllowed" /\ P[2].run = "removeDependency"
        /\ P[3].run = "buildLock" /\ P[4].run = "deleteArtifact"
    BY <1>5, RemoveProgram DEF P
  <2>2. QED
    BY <1>1, <1>5, <2>1
<1>6. CASE op \in {"lock", "verify"}
  BY <1>1, <1>6, ShortPrograms DEF P
<1> QED
  BY <1>2, <1>3, <1>4, <1>5, <1>6 DEF ControlOK, ValidCommand, Commands

LEMMA SourceNext == IInv /\ SourceInv /\ [Next]_vars => SourceInv'
<1> SUFFICES ASSUME IInv, SourceInv, [Next]_vars PROVE SourceInv'
  OBVIOUS
<1>1. ControlOK /\ manifest \in Manifests /\ tip \in Revisions /\ hub \in Refs
  BY DEF IInv, TypeInv, RecordsOK
<1>2. \A r \in Revisions : r # NoSource
  BY DEF Revisions, NoSource
<1>3. CASE \E o \in Offered, p \in Packages \cup {None} : Start(o, p)
  <2>1. PICK o \in Offered, p \in Packages \cup {None} : Start(o, p)
    BY <1>3
  <2>2. /\ op' = o /\ arg' = p /\ pc' = 1 /\ manifest' = manifest /\ hub' = hub
        /\ depBefore' = IF o = "remove" THEN manifest[p] ELSE None
    BY <2>1 DEF Start, files
  <2>3. QED
    BY <2>2 DEF SourceInv
<1>4. CASE PinSource
  <2>1. /\ phase = "running" /\ UNCHANGED <<manifest, op, arg, depBefore>>
        /\ arg \in RemoteSkills => hub' \in Revisions
        /\ arg \notin RemoteSkills => hub' = hub
    BY <1>1, <1>4 DEF PinSource, At, Advance
  <2>2. hub # NoSource => hub' # NoSource
    BY <1>2, <2>1
  <2>3. QED
    BY <1>2, <2>1, <2>2 DEF SourceInv
<1>5. CASE \/ EnsureInitialized \/ Materialize \/ Bystander \/ AddDependency \/ RemoveDependency
           \/ BuildLock \/ DeleteArtifact \/ EndReinstall \/ ((Gates \/ VerifyLock) /\ Advance)
  <2>1. /\ phase = "running" /\ Step.run # "pinSource" /\ hub' = hub /\ Advance
        /\ manifest' = manifest \/ RemoveDependency \/ AddDependency
    BY <1>5 DEF EnsureInitialized, Materialize, Bystander, AddDependency, RemoveDependency, BuildLock,
                DeleteArtifact, EndReinstall, Gates, VerifyLock, At, files
  <2>2. UNCHANGED <<op, arg, depBefore>> /\ pc' \in {pc, pc + 1} /\ pc \in Nat
    BY <1>1, <2>1 DEF Advance, ControlOK
  <2>3. op = "install" /\ arg \in RemoteSkills /\ pc' > 2 => hub # NoSource
    BY <1>1, <2>1, <2>2, SourcePlace DEF SourceInv
  <2>4. \A p \in RemoteSkills : manifest'[p] # None => hub # NoSource
    <3>1. SUFFICES ASSUME NEW p \in RemoteSkills, manifest'[p] # None PROVE hub # NoSource
      OBVIOUS
    <3>2. CASE manifest[p] # None
      BY <3>2 DEF SourceInv
    <3>3. CASE manifest[p] = None
      <4>1. p \in Packages /\ manifest'[p] # manifest[p]
        BY <3>1, <3>3 DEF Packages, Artifacts, Skills
      <4>2. AddDependency /\ p = arg
        <5>1. RemoveDependency => manifest'[p] \in {manifest[p], None}
          BY <1>1, <4>1 DEF RemoveDependency, Manifests
        <5>2. AddDependency => p = arg \/ manifest'[p] = manifest[p]
          BY <1>1, <4>1 DEF AddDependency, Manifests
        <5>3. QED
          BY <2>1, <3>1, <4>1, <5>1, <5>2
      <4>3. QED
        BY <1>1, <2>1, <4>2, SourcePlace DEF AddDependency, At, SourceInv
    <3>4. QED
      BY <3>2, <3>3
  <2>5. QED
    BY <2>1, <2>2, <2>3, <2>4 DEF SourceInv
<1>6. ASSUME phase # "idle", UNCHANGED <<manifest, hub, op, arg, pc, depBefore>> PROVE SourceInv'
  BY <1>6 DEF SourceInv
<1>7. CASE ((Gates \/ VerifyLock) /\ Throw) \/ StepFails
  BY <1>6, <1>7 DEF Gates, VerifyLock, StepFails, Throw, At, files, locals
<1>8. CASE StartWave \/ (\E p \in Artifacts : Rewrite(p) \/ RewriteFails(p)) \/ UndoFails \/ Crash
  BY <1>6, <1>8 DEF StartWave, Rewrite, RewriteFails, UndoFails, NextUndo, Crash, Throw, At, files, locals
<1>9. CASE Undo
  <2>1. phase # "idle" /\ UNCHANGED <<hub, op, arg, pc, depBefore>>
    BY <1>9 DEF Undo, NextUndo, locals
  <2>2. \A p \in RemoteSkills : manifest'[p] # None => manifest[p] # None \/ (p = arg /\ depBefore # None)
    BY <1>1, <1>9 DEF Undo, Manifests
  <2>3. QED
    BY <2>1, <2>2 DEF SourceInv
<1>10. CASE End \/ Upgrade \/ EditArtifact \/ Checkout \/ LoseLock
  BY <1>10 DEF End, Upgrade, EditArtifact, Checkout, LoseLock, Edit, files, SourceInv
<1>11. CASE EditManifest
  <2>1. PICK p \in Packages, d \in Deps \cup {None} :
          /\ manifest' = [manifest EXCEPT ![p] = d]
          /\ hub' = IF p \in RemoteSkills /\ d # None /\ hub = NoSource THEN Branch ELSE hub
    BY <1>11 DEF EditManifest
  <2>2. phase' = "idle"
    BY <1>11 DEF EditManifest, Edit
  <2>3. Branch # NoSource
    BY DEF Branch, NoSource
  <2>4. \A q \in RemoteSkills : manifest'[q] # None => hub' # NoSource
    BY <1>1, <2>1, <2>3 DEF SourceInv, Manifests
  <2>5. QED
    BY <2>2, <2>4 DEF SourceInv
<1>12. CASE Push \/ UNCHANGED vars
  BY <1>12 DEF Push, vars, files, locals, SourceInv
<1>13. Gates \/ VerifyLock => Advance \/ Throw
  BY DEF Gates, VerifyLock
<1> QED
  BY <1>3, <1>4, <1>5, <1>7, <1>8, <1>9, <1>10, <1>11, <1>12, <1>13 DEF Next

LEMMA TipMoves ==
  ASSUME [Next]_vars
  PROVE  tip' \in {tip, tip + 1}
  BY DEF Next, vars, world, Start, EnsureInitialized, PinSource, Materialize, Bystander,
         AddDependency, RemoveDependency, BuildLock, DeleteArtifact, Gates, VerifyLock, StartWave,
         Rewrite, RewriteFails, EndReinstall, StepFails, Undo, UndoFails, NextUndo, Crash, End, Push,
         Upgrade, EditManifest, EditArtifact, Checkout, LoseLock, Edit

LEMMA TipNext == IInv /\ TipInv /\ [Next]_vars => TipInv'
<1> SUFFICES ASSUME IInv, TipInv, [Next]_vars PROVE TipInv'
  OBVIOUS
<1>1. tip \in Nat \ {0} /\ tip' \in {tip, tip + 1}
  BY TipMoves DEF IInv, TypeInv, RecordsOK, Revisions
<1>2. CASE \E o \in Offered, p \in Packages \cup {None} : Start(o, p)
  <2>1. before'.tip = tip /\ tip' = tip
    BY <1>2 DEF Start, world
  <2>2. QED
    BY <1>1, <2>1 DEF TipInv
<1>3. CASE End
  BY <1>3 DEF End, TipInv
<1>4. CASE ~CommandEnds
  <2>1. before' = before /\ (phase = "idle" => phase' = "idle")
    BY <1>4, CommandKept, OnlyStarts
  <2>2. QED
    BY <1>1, <2>1 DEF TipInv
<1> QED
  BY <1>2, <1>3, <1>4 DEF CommandEnds

LEMMA WaveNext == IInv /\ WaveInv /\ [Next]_vars => WaveInv'
<1> SUFFICES ASSUME IInv, WaveInv, [Next]_vars PROVE WaveInv'
  OBVIOUS
<1>1. phase = "running" => (Step.run = "reinstallFromLock" <=> Restoring /\ pc = 3)
  BY StepPlace DEF IInv, TypeInv, Restoring
<1>2. ASSUME UNCHANGED <<wave, op, pc, phase>> PROVE WaveInv'
  BY <1>2 DEF WaveInv, Restoring
<1>3. ASSUME wave' = wave, phase # "running" \/ Step.run # "reinstallFromLock" PROVE WaveInv'
  BY <1>1, <1>3 DEF WaveInv
<1>4. CASE \E o \in Offered, p \in Packages \cup {None} : Start(o, p)
  BY <1>3, <1>4 DEF Start, restore
<1>5. CASE \/ EnsureInitialized \/ PinSource \/ Materialize \/ Bystander
           \/ AddDependency \/ RemoveDependency \/ BuildLock \/ DeleteArtifact
  BY <1>3, <1>5 DEF EnsureInitialized, PinSource, Materialize, Bystander, AddDependency, RemoveDependency,
                    BuildLock, DeleteArtifact, At, restore
<1>6. CASE Gates \/ VerifyLock \/ StepFails \/ EndReinstall \/ Crash
  <2>1. wave' = "none" \/ (wave' = wave /\ Step.run # "reinstallFromLock")
    BY <1>6 DEF Gates, VerifyLock, StepFails, EndReinstall, Crash, Throw, At
  <2>2. QED
    BY <1>3, <2>1 DEF WaveInv
<1>7. CASE StartWave
  BY <1>1, <1>7 DEF StartWave, At, WaveInv, Restoring, locals
<1>8. ASSUME NEW p \in Artifacts, Rewrite(p) \/ RewriteFails(p) PROVE WaveInv'
  <2>1. UNCHANGED <<wave, op, pc, phase>> \/ wave' = "none"
    BY <1>8 DEF Rewrite, RewriteFails, Throw, locals
  <2>2. QED
    BY <1>2, <2>1 DEF WaveInv
<1>9. CASE Undo \/ UndoFails \/ End \/ Upgrade \/ EditManifest \/ EditArtifact \/ Checkout \/ LoseLock
  BY <1>3, <1>9 DEF Undo, UndoFails, NextUndo, End, Stopped, Upgrade, EditManifest, EditArtifact,
                    Checkout, LoseLock, Edit, restore
<1>10. CASE Push \/ UNCHANGED vars
  BY <1>2, <1>10 DEF Push, vars, restore, locals
<1> QED
  BY <1>4, <1>5, <1>6, <1>7, <1>8, <1>9, <1>10 DEF Next

\* A step that restores nothing, of a command that restores: its records are as
\* they were, or the lock has just been built from them.
LEMMA RestoreAdvance ==
  ASSUME IInv, TipInv, WaveInv, RestoreInv, Restoring, phase = "running", Advance,
         UNCHANGED <<manifest, hub, disk, tip, bundle, before>>, pc # 3, wave' = wave,
         \/ lock' = lock /\ Step.run # "buildLock"
         \/ lock' = Built /\ Step.run = "buildLock"
         \/ pc = 1,
         op = "ci" /\ pc = 2 => lock' = lock,
         op = "ci" /\ pc = 5 => Verifies(lock, disk, FALSE)
  PROVE  RestoreInv'
<1>1. /\ pc \in 1..6 /\ op' = op /\ wave = "none" /\ pc' \in {pc, pc + 1} /\ (pc' = pc => pc = 6)
      /\ op \in {"reinstall", "ci"}
  <2>1. pc \in 1..6 /\ Len(Program(op, arg)) = 6
    BY ReinstallSteps, CiSteps, CiProgram DEF IInv, TypeInv, Restoring
  <2>2. QED
    BY <2>1 DEF Advance, WaveInv, Restoring
<1>2. Written' = {}
  BY <1>1 DEF Written
<1>3. /\ manifest' = manifest /\ hub' = hub /\ disk' = disk /\ tip' = tip /\ bundle' = bundle
      /\ before' = before /\ Heads' = Heads
  BY DEF Heads
<1>4. CiRestored /\ Healed
  BY DEF RestoreInv
<1>5. CiRestored'
  <2>1. SUFFICES ASSUME op = "ci" PROVE CiRestored'
    BY <1>1 DEF CiRestored
  <2>2. pc \in 2..6 => lock' = lock
    BY <1>1, <2>1, CiSteps DEF IInv, TypeInv
  <2>3. pc' > 3 => pc > 3 /\ lock' = lock
    BY <1>1, <2>2
  <2>4. pc' > 5 => pc \in {5, 6}
    BY <1>1
  <2>5. pc' > 5 => Verifies(lock, disk, FALSE)
    <3>1. pc = 6 => pc > 5
      OBVIOUS
    <3>2. pc' > 5 => pc = 5 \/ pc > 5
      BY <2>4, <3>1
    <3>3. QED
      BY <1>4, <2>1, <3>2, Zenon DEF CiRestored
  <2>6. QED
    <3>1. pc' > 3 => \A p \in Restored(lock, Artifacts) : disk[p] = LockedContent(p)
      BY <1>4, <2>1, <2>3 DEF CiRestored
    <3>2. pc' > 3 => \A p \in Restored(lock', Artifacts) : disk'[p] = LockedContent(p)'
      BY <1>3, <2>3, <3>1 DEF LockedContent
    <3>3. pc' > 5 => pc' > 3
      BY <1>1
    <3>4. pc' > 5 => Verifies(lock', disk', FALSE)
      BY <1>3, <2>3, <2>5, <3>3
    <3>5. QED
      BY <1>3, <3>2, <3>4 DEF CiRestored, Restored, Verifies
<1>6. Healed'
  <2>1. SUFFICES ASSUME op = "reinstall" PROVE Healed'
    BY <1>1 DEF Healed
  <2>2. /\ Step.run = "buildLock" <=> pc \in {2, 4}
        /\ pc \in {2, 4} => lock' = Built
        /\ pc \in {5, 6} => lock' = lock
    BY <1>1, <2>1, ReinstallSteps DEF IInv, TypeInv
  <2>3. CASE pc \in {2, 4}
    <3>1. Built \in Locks /\ Built.hub = hub /\ Built.dep = manifest /\ Built.commit = Commit(hub, tip)
      BY BuiltType DEF IInv, TypeInv, RecordsOK, Built
    <3>2. Commit(hub, tip) \in Heads
      BY DEF Commit, Heads, TipInv, IInv, TypeInv, RecordsOK, Revisions
    <3>3. pc' > 3 => lock.dep = manifest /\ \A p \in Restored(lock, Artifacts) : disk[p] \in Served(p)
      BY <1>1, <1>4, <2>1, <2>3 DEF Healed
    <3>4. pc' > 3 => \A p \in Restored(lock', Artifacts) : disk[p] \in Served(p)
      BY <2>2, <2>3, <3>1, <3>3 DEF Restored
    <3>5. \A p : Served(p)' = Served(p)
      BY <1>3 DEF Served
    <3>6. QED
      BY <1>3, <2>2, <2>3, <3>1, <3>2, <3>4, <3>5 DEF Healed
  <2>4. CASE pc \in {5, 6}
    BY <1>1, <1>3, <1>4, <2>1, <2>2, <2>4 DEF Healed, Served, Restored
  <2>5. CASE pc = 1
    BY <1>1, <2>5 DEF Healed
  <2>6. QED
    BY <1>1, <2>3, <2>4, <2>5
<1> QED
  BY <1>2, <1>5, <1>6 DEF RestoreInv

LEMMA RestoreNext == IInv /\ TipInv /\ WaveInv /\ RestoreInv /\ [Next]_vars => RestoreInv'
<1> SUFFICES ASSUME IInv, TipInv, WaveInv, RestoreInv, [Next]_vars,
                    phase' \in {"running", "ok"}, Restoring'
             PROVE  RestoreInv'
  BY DEF RestoreInv
<1>1. CASE \E o \in Offered, p \in Packages \cup {None} : Start(o, p)
  <2>1. pc' = 1
    BY <1>1 DEF Start
  <2>2. QED
    BY <2>1 DEF RestoreInv, CiRestored, Healed
<1>2. ~(\E o \in Offered, p \in Packages \cup {None} : Start(o, p)) /\ ~End => Restoring
  BY CommandKept DEF CommandEnds, Restoring
<1>3. CASE /\ Restoring
           /\ \/ EnsureInitialized \/ Bystander \/ BuildLock
              \/ ((Gates \/ VerifyLock) /\ Advance)
  <2>1. /\ phase = "running" /\ Advance /\ UNCHANGED <<manifest, hub, disk, tip, bundle, before, wave>>
        /\ Step.run # "reinstallFromLock"
    BY <1>3 DEF EnsureInitialized, Bystander, BuildLock, Gates, VerifyLock, At, files, world, restore, history,
                Throw, Advance
  <2>2. pc # 3
    BY <1>3, <2>1, StepPlace DEF IInv, TypeInv, Restoring
  <2>3. /\ lock' = lock \/ (lock' = Built /\ Step.run = "buildLock") \/ Step.run = "ensureInitialized"
        /\ Step.run = "buildLock" => lock' = Built
    BY <1>3 DEF EnsureInitialized, Bystander, BuildLock, Gates, VerifyLock, At, files
  <2>4. Step.run = "ensureInitialized" => pc = 1
    BY <2>1, StepPlace DEF IInv, TypeInv
  <2>5. op = "ci" /\ pc = 2 => lock' = lock
    BY <2>1, <2>3, CiSteps DEF IInv, TypeInv
  <2>6. op = "ci" /\ pc = 5 => Step.run = "verifyLock"
    BY <2>1, CiSteps DEF IInv, TypeInv
  <2>7. op = "ci" /\ pc = 5 => Verifies(lock, disk, FALSE)
    BY <1>3, <2>1, <2>6
       DEF EnsureInitialized, Bystander, BuildLock, Gates, VerifyLock, At, Advance, Throw
  <2>8. QED
    BY <1>3, <2>1, <2>2, <2>3, <2>4, <2>5, <2>7, RestoreAdvance
<1>4. CASE /\ Restoring
           /\ PinSource \/ Materialize \/ AddDependency \/ RemoveDependency \/ DeleteArtifact
  <2>1. /\ phase = "running"
        /\ Step.run \in {"pinSource", "materialize", "addDependency", "removeDependency", "deleteArtifact"}
    BY <1>4 DEF PinSource, Materialize, AddDependency, RemoveDependency, DeleteArtifact, At
  <2>2. QED
    BY <1>4, <2>1, CiSteps, ReinstallSteps DEF Restoring, IInv, TypeInv
<1>5. CASE Restoring /\ StartWave
  <2>1. /\ phase = "running" /\ pc = 3 /\ todo = {} /\ wave \in {"none", "skills"}
        /\ UNCHANGED <<manifest, hub, lock, disk, tip, bundle, before, op, pc, phase>>
        /\ wave' = IF wave = "none" THEN "skills" ELSE "tools"
        /\ todo' = Restored(lock, IF wave = "none" THEN Skills ELSE Tools)
    BY <1>5, StepPlace DEF StartWave, At, files, world, history, locals, IInv, TypeInv, Restoring
  <2>2. Written' \subseteq Written
    BY <2>1 DEF Written, Restored, Artifacts
  <2>3. QED
    BY <1>5, <2>1, <2>2 DEF RestoreInv, CiRestored, Healed, LockedContent, Heads, Served, Restored, Verifies
<1>6. ASSUME Restoring, NEW p \in Artifacts, Rewrite(p) PROVE RestoreInv'
  <2>1. /\ phase = "running" /\ pc = 3 /\ p \in todo
        /\ UNCHANGED <<manifest, hub, lock, tip, bundle, before, op, pc, phase, wave>>
        /\ disk' = [disk EXCEPT ![p] = LockedContent(p)] /\ todo' = todo \ {p}
    BY <1>6, StepPlace DEF Rewrite, world, history, locals, At, IInv, TypeInv, Restoring
  <2>2. disk \in Disks
    BY DEF IInv, TypeInv, RecordsOK
  <2>3. \A q \in Written' : q \in Artifacts /\ (q = p \/ q \in Written)
    BY <2>1 DEF Written, Restored, Artifacts
  <2>4. \A q \in Written' : disk'[q] = LockedContent(q)
    BY <1>6, <2>1, <2>2, <2>3 DEF RestoreInv, Disks
  <2>5. \A q : LockedContent(q)' = LockedContent(q)
    BY <2>1 DEF LockedContent
  <2>6. QED
    BY <1>6, <2>1, <2>4, <2>5 DEF RestoreInv, CiRestored, Healed, Heads
<1>7. CASE \E p \in Artifacts : RewriteFails(p)
  BY <1>7 DEF RewriteFails, Throw
<1>8. CASE Restoring /\ EndReinstall
  <2>1. /\ phase = "running" /\ pc = 3 /\ todo = {} /\ wave = "tools" /\ wave' = "none" /\ Advance
        /\ UNCHANGED <<manifest, hub, lock, disk, tip, bundle, before>>
    BY <1>8, StepPlace DEF EndReinstall, At, files, world, history, IInv, TypeInv, Restoring
  <2>2. op' = op /\ pc' = 4
    <3>1. Len(Program(op, arg)) = 6
      BY <1>8, ReinstallProgram, CiProgram DEF Restoring
    <3>2. QED
      BY <2>1, <3>1 DEF Advance
  <2>3. \A p \in Restored(lock, Artifacts) : disk[p] = LockedContent(p)
    BY <1>8, <2>1 DEF RestoreInv, Written
  <2>4. op = "reinstall" => \A p \in Restored(lock, Artifacts) : disk[p] \in Served(p)
    BY <1>8, <2>1, <2>3 DEF RestoreInv, Healed, LockedContent, Served
  <2>5. QED
    BY <1>8, <2>1, <2>2, <2>3, <2>4
       DEF RestoreInv, CiRestored, Healed, Heads, Served, LockedContent, Restored
<1>9. CASE ((Gates \/ VerifyLock) /\ Throw) \/ StepFails \/ Undo \/ UndoFails \/ Crash \/ End
  BY <1>9 DEF Gates, VerifyLock, StepFails, Throw, Undo, UndoFails, NextUndo, Crash, End
<1>10. CASE Upgrade \/ EditManifest \/ EditArtifact \/ Checkout \/ LoseLock
  BY <1>10 DEF Upgrade, EditManifest, EditArtifact, Checkout, LoseLock, Edit
<1>11. CASE Push \/ UNCHANGED vars
  <2>1. /\ UNCHANGED <<manifest, hub, lock, disk, bundle, before, op, pc, phase, wave, todo>>
        /\ tip' \in {tip, tip + 1}
    BY <1>11 DEF Push, vars, files, world, history, locals, restore
  <2>2. tip \in Nat /\ before.tip \in Nat
    BY <2>1 DEF TipInv, IInv, TypeInv, RecordsOK, Revisions
  <2>3. Heads \subseteq Heads'
    BY <2>1, <2>2 DEF Heads
  <2>4. \A p : Served(p) \subseteq Served(p)'
    BY <2>1, <2>3 DEF Served
  <2>5. Written' = Written /\ (\A p : LockedContent(p)' = LockedContent(p)) /\ (Restoring' <=> Restoring)
    BY <2>1 DEF Written, LockedContent, Restored, Restoring
  <2>6. QED
    BY <2>1, <2>3, <2>4, <2>5 DEF RestoreInv, CiRestored, Healed, Restored, Verifies
<1>12. Gates \/ VerifyLock => Advance \/ Throw
  BY DEF Gates, VerifyLock
<1> QED
  BY <1>1, <1>2, <1>3, <1>4, <1>5, <1>6, <1>7, <1>8, <1>9, <1>10, <1>11, <1>12 DEF Next

LEMMA HealCorrect == Spec => []HealInv
<1>1. Init => HealInv
  BY DEF Init, HealInv, SourceInv, TipInv, WaveInv, RestoreInv, Packages, Artifacts, Skills
<1>2. IInv /\ HealInv /\ [Next]_vars => HealInv'
  BY SourceNext, TipNext, WaveNext, RestoreNext DEF HealInv
<1> QED
  BY <1>1, <1>2, InvCorrect, PTL DEF Spec

\* A bare install that succeeds leaves each enabled artifact whole, recorded and,
\* unless the branch moved meanwhile, at the commit the lock names, whatever
\* state crashes, failures and edits had left the workspace in.
THEOREM InstallHealsCorrect == Spec => []InstallHeals
<1>1. Init => RecordedInv
  BY InitRecorded
<1>2. IInv /\ RecordedInv /\ [Next]_vars => RecordedInv'
  BY NextRecorded
<1>3. IInv /\ RecordedInv /\ HealInv => InstallHeals
  <2> SUFFICES ASSUME IInv, RecordedInv, HealInv, phase = "ok", op = "reinstall",
                      NEW p \in Artifacts, Enabled(manifest[p])
               PROVE  /\ disk[p] \in Revisions /\ lock.hash[p] = disk[p]
                      /\ hub # Branch \/ tip = before.tip => disk[p] = LockedContent(p)
    BY DEF InstallHeals
  <2>1. pc = 6 /\ Recorded
    <3>1. pc = 6
      BY ReinstallSteps DEF IInv, TypeInv, RecordedInv, EndsOK
    <3>2. QED
      BY <3>1 DEF RecordedInv, PastLastLock
  <2>2. /\ lock.dep = manifest /\ lock.commit \in Heads
        /\ \A q \in Restored(lock, Artifacts) : disk[q] \in Served(q)
    BY <2>1 DEF HealInv, RestoreInv, Restoring, Healed
  <2>3. disk[p] \in Served(p) /\ manifest[p] # None
    BY <2>2 DEF Restored, Enabled, InstallAssumption
  <2>4. lock.hash[p] = disk[p]
    BY <2>1, <2>3 DEF Recorded
  <2>5. before.tip \in 1..tip /\ tip \in Revisions /\ bundle \in Revisions /\ hub \in Refs
    BY DEF HealInv, TipInv, IInv, TypeInv, RecordsOK
  <2>6. CASE p \in RemoteSkills
    <3>1. hub # NoSource
      BY <2>3, <2>6 DEF HealInv, SourceInv
    <3>2. CASE hub = Branch
      <4>1. Heads = before.tip..tip /\ tip \in 1..MaxRevision /\ before.tip \in Nat
        BY <2>5, <3>2 DEF Heads, Revisions, InstallAssumption
      <4>2. Heads \subseteq Revisions /\ (tip = before.tip => Heads = {tip})
        BY <2>5, <4>1 DEF Revisions, InstallAssumption
      <4>3. QED
        BY <2>2, <2>3, <2>4, <2>6, <3>2, <4>2 DEF Served, LockedContent
    <3>3. CASE hub # Branch
      <4>1. Heads = {hub} /\ hub \in Revisions
        BY <2>5, <3>1, <3>3 DEF Heads, Refs
      <4>2. QED
        BY <2>2, <2>3, <2>4, <2>6, <4>1 DEF Served, LockedContent
    <3>4. QED
      BY <3>2, <3>3
  <2>7. CASE p \notin RemoteSkills
    BY <2>3, <2>4, <2>5, <2>7 DEF Served, LockedContent
  <2> QED
    BY <2>6, <2>7
<1> QED
  BY <1>1, <1>2, <1>3, InvCorrect, HealCorrect, PTL DEF Spec

\* A ci that succeeds vouches for the workspace: the manifest is what is locked,
\* and each enabled artifact is at the locked commit, with its hash in the lock.
THEOREM CiVouchesCorrect == Spec => []CiVouches
<1>1. Init => CiInv /\ RecordedInv
  BY InitCi, InitRecorded
<1>2. IInv /\ CiInv /\ [Next]_vars => CiInv'
  BY NextCi
<1>3. IInv /\ RecordedInv /\ [Next]_vars => RecordedInv'
  BY NextRecorded
<1>4. IInv /\ CiInv /\ RecordedInv /\ HealInv => CiVouches
  <2> SUFFICES ASSUME IInv, CiInv, RecordedInv, HealInv, phase = "ok", op = "ci"
               PROVE  /\ lock.dep = manifest /\ lock.hub = hub
                      /\ \A p \in Artifacts : Enabled(manifest[p]) =>
                           disk[p] = LockedContent(p) /\ lock.hash[p] = disk[p]
    BY DEF CiVouches
  <2>1. pc = 6
    BY CiProgram DEF RecordedInv, EndsOK
  <2>2. lock.dep = manifest /\ lock.hub = hub
    BY <2>1 DEF CiInv
  <2>3. /\ \A p \in Restored(lock, Artifacts) : disk[p] = LockedContent(p)
        /\ Verifies(lock, disk, FALSE)
    <3>1. CiRestored /\ pc > 3 /\ pc > 5
      BY <2>1 DEF HealInv, RestoreInv, Restoring
    <3>2. QED
      BY <3>1, Zenon DEF CiRestored
  <2>4. \A p \in Artifacts : Enabled(manifest[p]) => p \in Restored(lock, Artifacts) /\ lock.dep[p] # None
    BY <2>2 DEF Restored, Enabled, InstallAssumption
  <2> QED
    BY <2>2, <2>3, <2>4 DEF Verifies
<1> QED
  BY <1>1, <1>2, <1>3, <1>4, InvCorrect, HealCorrect, PTL DEF Spec
=============================================================================
