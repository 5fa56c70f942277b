-------------------------- MODULE WorkspaceProofs --------------------------
(***************************************************************************)
(* What every command of a workspace keeps: the types, what the files of   *)
(* the agents say, and the values in the files of the credentials.         *)
(***************************************************************************)
EXTENDS ToolkitsProofs

-----------------------------------------------------------------------------
(* The agents.                                                             *)

LEMMA AgentRows ==
  /\ Claude.id = "claude" /\ Claude.format = "mcp-servers" /\ Claude.config = ".mcp.json"
  /\ Claude.notes = "CLAUDE.md" /\ Claude.aliases = {} /\ ~Claude.global
  /\ Claude.legacy.path = "claude_desktop_config.json" /\ Claude.legacy.format = "mcp-servers"
  /\ Cline.id = "cline" /\ Cline.format = "servers" /\ Cline.config = ".cline/mcp.json"
  /\ Cline.notes = ".clinerules/maia.md" /\ Cline.aliases = {} /\ Cline.global
  /\ Cline.legacy.path = ".cline/mcp.json" /\ Cline.legacy.format = "servers"
  /\ Codex.id = "codex" /\ Codex.format = "toml-mcp-servers" /\ Codex.config = ".codex/config.toml"
  /\ Codex.notes = "AGENTS.md" /\ Codex.aliases = {"openai-codex", "gpt-codex"} /\ ~Codex.global
  /\ Codex.legacy = NoPlace
  /\ Continue.id = "continue" /\ Continue.format = "continue-mcp-block" /\ Continue.config = "maia.yaml"
  /\ Continue.notes = "AGENTS.md" /\ Continue.aliases = {"continue-dev"} /\ ~Continue.global
  /\ Continue.legacy.path = ".continue/config.json" /\ Continue.legacy.format = "mcp-servers"
  /\ Copilot.id = "copilot" /\ Copilot.format = "servers" /\ Copilot.config = ".vscode/mcp.json"
  /\ Copilot.notes = "copilot-instructions.md" /\ Copilot.aliases = {"vscode", "code"} /\ ~Copilot.global
  /\ Copilot.legacy = NoPlace
  /\ Cursor.id = "cursor" /\ Cursor.format = "mcp-servers" /\ Cursor.config = ".cursor/mcp.json"
  /\ Cursor.notes = "maia.mdc" /\ Cursor.aliases = {"cursor-ide"} /\ ~Cursor.global
  /\ Cursor.legacy.path = ".cursor/mcp.json" /\ Cursor.legacy.format = "servers"
  /\ Zed.id = "zed" /\ Zed.format = "zed-settings" /\ Zed.config = ".zed/settings.json"
  /\ Zed.notes = "AGENTS.md" /\ Zed.aliases = {} /\ ~Zed.global /\ Zed.legacy = NoPlace
  BY DEF Claude, Cline, Codex, Continue, Copilot, Cursor, Zed, AgentTarget

LEMMA AgentFields ==
  ASSUME NEW t \in Registry
  PROVE  /\ t.id \in Agents /\ t.config \in ConfigFiles /\ t.legacy.path \in ConfigFiles
         /\ t.notes \in NoteFiles
         /\ t.stdioType \in BOOLEAN /\ t.skillsDir \in BOOLEAN /\ t.global \in BOOLEAN
<1>1. t.id \in Agents /\ t.config \in ConfigFiles /\ t.legacy.path \in ConfigFiles /\ t.notes \in NoteFiles
  BY DEF Agents, ConfigFiles, NoteFiles
<1>2. /\ Claude.stdioType = FALSE /\ Claude.skillsDir = TRUE /\ Claude.global = FALSE
      /\ Cline.stdioType = FALSE /\ Cline.skillsDir = FALSE /\ Cline.global = TRUE
      /\ Codex.stdioType = FALSE /\ Codex.skillsDir = FALSE /\ Codex.global = FALSE
      /\ Continue.stdioType = FALSE /\ Continue.skillsDir = FALSE /\ Continue.global = FALSE
      /\ Copilot.stdioType = FALSE /\ Copilot.skillsDir = TRUE /\ Copilot.global = FALSE
      /\ Cursor.stdioType = TRUE /\ Cursor.skillsDir = FALSE /\ Cursor.global = FALSE
      /\ Zed.stdioType = FALSE /\ Zed.skillsDir = FALSE /\ Zed.global = FALSE
  BY DEF Claude, Cline, Codex, Continue, Copilot, Cursor, Zed, AgentTarget
<1>3. QED
  BY <1>1, <1>2 DEF Registry

\* No two agents have an id or a configuration in common.
LEMMA AgentsDiffer ==
  ASSUME NEW t \in Registry, NEW u \in Registry, t.id = u.id \/ t.config = u.config
  PROVE  t = u
  BY AgentRows DEF Registry

LEMMA FindById ==
  ASSUME NEW t \in Registry
  PROVE  FindAgent(t.id) = t
<1>1. \A u \in Registry : t.id = u.id \/ t.id \in u.aliases => u = t
  BY AgentRows DEF Registry
<1>2. QED
  BY <1>1 DEF FindAgent

LEMMA FoundIsKnown ==
  ASSUME NEW name
  PROVE  FindAgent(name) \in Registry \/ FindAgent(name) = NoTarget
  BY DEF FindAgent

LEMMA KnownIsTarget ==
  \A t \in Registry : t # NoTarget
<1>1. NoTarget.id = ""
  BY DEF NoTarget
<1>2. \A t \in Registry : t.id # ""
  BY AgentRows DEF Registry
<1>3. QED
  BY <1>1, <1>2

LEMMA SectionTypes ==
  ASSUME NEW t \in Registry
  PROVE  /\ TopKey(t.format) \in Sections /\ "mcp_servers" \in Sections /\ "inline" \in Sections
         /\ "document" \in Sections
         /\ t.legacy # NoPlace => TopKey(t.legacy.format) \in Sections
<1>1. TopKey("mcp-servers") = "mcpServers" /\ TopKey("servers") = "servers"
      /\ TopKey("zed-settings") = "context_servers" /\ TopKey("toml-mcp-servers") = "mcp_servers"
      /\ TopKey("continue-mcp-block") = "document"
  BY DEF TopKey
<1>2. {"mcpServers", "servers", "context_servers", "mcp_servers", "document", "inline"} \subseteq Sections
  BY <1>1, AgentRows DEF Sections, Registry
<1>3. t.format \in {"mcp-servers", "servers", "zed-settings", "toml-mcp-servers", "continue-mcp-block"}
      /\ (t.legacy # NoPlace => t.legacy.format \in {"mcp-servers", "servers"})
  BY AgentRows DEF Registry
<1>4. QED
  BY <1>1, <1>2, <1>3

-----------------------------------------------------------------------------
(* The command about agents that is under way.                             *)

ConfigureSteps ==
  {"profile", "inject", "resolve", "confirm", "offer", "migrate", "skills", "notes"}
RemovalSteps == {"drop", "entry", "block", "forget", "ask", "unregister"}
AgentSteps == ConfigureSteps \cup RemovalSteps
EnvSteps == {"credentials", "sync", "legacy", "ensure"}

Statuses == {NoStatus, "registered", "pending"}
Tasks ==
  [todo : Seq(Registry), offering : BOOLEAN, status : Statuses, left : Seq(1..Candidates),
   undo : SUBSET Skills]

\* An agent is being worked on exactly while the loop runs.
Working ==
  /\ task \in Tasks
  /\ pc \in AgentSteps \cup KitSteps \cup EnvSteps \cup {"idle"}
  /\ pc \in AgentSteps => task.todo # <<>>
  /\ pc \notin AgentSteps => task.todo = <<>>
  /\ outcome \in {"none", "ok", "failed", "killed"}
  /\ unsettled \in SUBSET Agents
  /\ installed \in SUBSET Skills

LEMMA NoTaskType == NoTask \in Tasks /\ NoTask.todo = <<>> /\ NoTask.undo = {}
  BY DEF NoTask, Tasks, Statuses, NoStatus

LEMMA TaskFields ==
  ASSUME NEW k \in Tasks, NEW x \in Seq(Registry), NEW l \in Seq(1..Candidates), NEW s \in Statuses
  PROVE  /\ [k EXCEPT !.todo = x] \in Tasks /\ [k EXCEPT !.todo = x].todo = x
         /\ [k EXCEPT !.todo = x].left = k.left /\ [k EXCEPT !.todo = x].status = k.status
         /\ [k EXCEPT !.todo = x, !.status = s] \in Tasks /\ [k EXCEPT !.todo = x, !.status = s].todo = x
         /\ [k EXCEPT !.left = l] \in Tasks /\ [k EXCEPT !.left = l].todo = k.todo
         /\ [k EXCEPT !.left = l].status = k.status /\ [k EXCEPT !.left = l].left = l
         /\ [k EXCEPT !.left = l, !.status = s] \in Tasks /\ [k EXCEPT !.left = l, !.status = s].todo = k.todo
         /\ [k EXCEPT !.left = l, !.status = s].status = s /\ [k EXCEPT !.left = l, !.status = s].left = l
         /\ [k EXCEPT !.status = s] \in Tasks /\ [k EXCEPT !.status = s].todo = k.todo
         /\ [k EXCEPT !.status = s].status = s
  BY DEF Tasks

LEMMA Resolved ==
  ASSUME NEW T, NEW names \in Seq(T), Resolvable(names)
  PROVE  /\ ResolveTargets(names) \in Seq(Registry) /\ ResolveTargets(names) # <<>>
         /\ ToSet(ResolveTargets(names)) = {FindAgent(names[i]) : i \in DOMAIN names}
<1> DEFINE found1 == [i \in DOMAIN names |-> FindAgent(names[i])]
<1>1. names # <<>> /\ DOMAIN names = 1..Len(names) /\ Len(names) \in Nat
      /\ \A i \in DOMAIN names : FindAgent(names[i]) \in Registry
  BY FoundIsKnown DEF Resolvable
<1>2. found1 \in Seq(Registry) /\ Len(found1) = Len(names) /\ DOMAIN found1 = DOMAIN names
  BY <1>1
<1>3. \A i \in DOMAIN names : found1[i] = FindAgent(names[i])
  OBVIOUS
<1> HIDE DEF found1
<1>4. Distinct(found1) \in Seq(Registry) /\ ToSet(Distinct(found1)) = ToSet(found1)
  BY <1>2, DistinctElements
<1>5. ToSet(found1) = {FindAgent(names[i]) : i \in DOMAIN names}
  BY <1>2, <1>3 DEF ToSet
<1>6. Distinct(found1) # <<>>
  <2>1. 1 \in DOMAIN names
    BY <1>1
  <2>2. ToSet(Distinct(found1)) # {}
    BY <1>4, <1>5, <2>1
  <2>3. ToSet(<<>>) = {}
    BY DEF ToSet
  <2>4. QED
    BY <2>2, <2>3
<1>7. QED
  BY <1>4, <1>5, <1>6 DEF ResolveTargets, found1

LEMMA SelectedType ==
  ASSUME NEW T, NEW names \in Seq(T), Resolvable(names)
  PROVE  Selected(names) \in Seq(Registry)
<1> DEFINE S == {t \in Registry : Contains(agents, t.id)}
           x == ResolveTargets(names)
<1>1. x \in Seq(Registry)
  BY Resolved
<1> HIDE DEF x, S
<1>2. Keep(x, S) \in Seq(Registry \cap S)
  BY <1>1, KeepType
<1>3. QED
  BY <1>2 DEF Selected, x, S

LEMMA WiderSeq ==
  ASSUME NEW S, NEW T, S \subseteq T, NEW list \in Seq(S)
  PROVE  list \in Seq(T)
  OBVIOUS

LEMMA ExistingType ==
  ASSUME settings \in [1..Candidates -> Settings]
  PROVE  /\ Existing \in Seq(1..Candidates)
         /\ ToSet(Existing) = {i \in 1..Candidates : settings[i] # NoFile}
<1> DEFINE S == {i \in 1..Candidates : settings[i] # NoFile}
           all == [i \in 1..Candidates |-> i]
<1>1. all \in Seq(1..Candidates) /\ Len(all) = Candidates /\ \A i \in 1..Candidates : all[i] = i
  BY AgentAssumption
<1>2. ToSet(all) = 1..Candidates
  BY <1>1 DEF ToSet
<1> HIDE DEF all
<1>3. ToSet(Keep(all, S)) = ToSet(all) \cap S /\ Keep(all, S) \in Seq(1..Candidates)
  <2> HIDE DEF S
  <2>1. ToSet(Keep(all, S)) = ToSet(all) \cap S /\ Keep(all, S) \in Seq((1..Candidates) \cap S)
    BY <1>1, KeepElements, KeepType
  <2>2. Keep(all, S) \in Seq(1..Candidates)
    <3>1. (1..Candidates) \cap S \subseteq 1..Candidates
      OBVIOUS
    <3>2. QED
      BY <2>1, <3>1, WiderSeq
  <2>3. QED
    BY <2>1, <2>2
<1>4. Existing = Keep(all, S)
  BY DEF Existing, all, S
<1>5. ToSet(all) \cap S = S
  BY <1>2 DEF S
<1> HIDE DEF S
<1>6. Existing \in Seq(1..Candidates) /\ ToSet(Existing) = S
  BY <1>3, <1>4, <1>5
<1>7. QED
  BY <1>6 DEF S

\* How a command about agents begins.
LEMMA ConfigureType ==
  ASSUME NEW T, NEW names \in Seq(T), NEW offering \in BOOLEAN, NEW undo \in SUBSET Skills,
         Configure(names, offering, undo), unsettled \in SUBSET Agents
  PROVE  /\ task' \in Tasks /\ outcome' \in {"none", "failed"} /\ unsettled' \in SUBSET Agents
         /\ \/ /\ pc' = "profile" /\ task'.todo = ResolveTargets(names) /\ task'.todo # <<>>
               /\ unsettled' = unsettled /\ Resolvable(names) /\ task'.undo = undo
            \/ pc' = "idle" /\ task'.todo = <<>> /\ unsettled' = Agents /\ outcome' = "failed" /\ ~Resolvable(names)
<1>1. CASE Resolvable(names)
  <2>1. ResolveTargets(names) \in Seq(Registry) /\ ResolveTargets(names) # <<>>
    BY <1>1, Resolved
  <2>2. /\ pc' = "profile" /\ outcome' = "none" /\ unsettled' = unsettled
        /\ task' = [NoTask EXCEPT !.todo = ResolveTargets(names), !.offering = offering, !.undo = undo]
    BY <1>1 DEF Configure
  <2> DEFINE x == ResolveTargets(names)
  <2> HIDE DEF x
  <2>3. task' \in Tasks /\ task'.todo = x /\ task'.undo = undo
    <3>1. x \in Seq(Registry)
      BY <2>1 DEF x
    <3>2. task' = [NoTask EXCEPT !.todo = x, !.offering = offering, !.undo = undo]
      BY <2>2 DEF x
    <3>3. \A k : k = [NoTask EXCEPT !.todo = x, !.offering = offering, !.undo = undo]
                 => k \in Tasks /\ k.todo = x /\ k.undo = undo
      BY <3>1, NoTaskType DEF Tasks
    <3>4. QED
      BY <3>2, <3>3
  <2>4. QED
    BY <1>1, <2>1, <2>2, <2>3 DEF x
<1>2. CASE ~Resolvable(names)
  BY <1>2, NoTaskType DEF Configure
<1>3. QED
  BY <1>1, <1>2

LEMMA RestoreType ==
  ASSUME agents \in Seq(AgentNames), NEW offering \in BOOLEAN, NEW undo \in SUBSET Skills,
         RestoreConfiguredAgents(offering, undo), unsettled \in SUBSET Agents
  PROVE  /\ task' \in Tasks /\ outcome' \in {"none", "failed", "ok"} /\ unsettled' \in SUBSET Agents
         /\ \/ pc' = "idle" /\ task'.todo = <<>> /\ agents = <<>> /\ unsettled' = unsettled
            \/ /\ pc' = "profile" /\ task'.todo = ResolveTargets(agents) /\ task'.todo # <<>>
               /\ unsettled' = unsettled /\ Resolvable(agents) /\ task'.undo = undo
            \/ pc' = "idle" /\ task'.todo = <<>> /\ unsettled' = Agents /\ agents # <<>> /\ ~Resolvable(agents)
<1>1. CASE agents = <<>>
  BY <1>1, NoTaskType DEF RestoreConfiguredAgents, Finish
<1>2. CASE agents # <<>>
  <2>1. Configure(agents, offering, undo)
    BY <1>2 DEF RestoreConfiguredAgents
  <2>2. QED
    BY <1>2, <2>1, ConfigureType
<1>3. QED
  BY <1>1, <1>2

LEMMA TodoIds ==
  ASSUME NEW k \in Tasks
  PROVE  {t.id : t \in ToSet(k.todo)} \subseteq Agents
<1>1. k.todo \in Seq(Registry)
  BY DEF Tasks
<1>2. ToSet(k.todo) \subseteq Registry
  BY <1>1 DEF ToSet
<1>3. QED
  BY <1>2, AgentFields

LEMMA TargetType ==
  ASSUME Working, pc \in AgentSteps
  PROVE  /\ Target \in Registry /\ Len(task.todo) \in Nat \ {0} /\ Tail(task.todo) \in Seq(Registry)
         /\ Target \in ToSet(task.todo) /\ ToSet(task.todo) = {Target} \cup ToSet(Tail(task.todo))
         /\ ToSet(task.todo) \subseteq Registry
         /\ Len(task.todo) # 1 => Tail(task.todo) # <<>>
         /\ Len(task.todo) = 1 => ToSet(task.todo) = {Target}
<1> DEFINE x == task.todo
<1>1. x \in Seq(Registry) /\ x # <<>>
  BY DEF Working, Tasks
<1> HIDE DEF x
<1>2. Head(x) = x[1] /\ Tail(x) \in Seq(Registry) /\ Len(Tail(x)) = Len(x) - 1 /\ Len(x) \in Nat \ {0}
      /\ DOMAIN x = 1..Len(x) /\ DOMAIN Tail(x) = 1..(Len(x) - 1) /\ \A i \in 1..(Len(x) - 1) : Tail(x)[i] = x[i+1]
  BY <1>1
<1>3. ToSet(x) = {Head(x)} \cup ToSet(Tail(x))
  <2>1. ASSUME NEW i \in DOMAIN x PROVE x[i] \in {Head(x)} \cup ToSet(Tail(x))
    <3>1. i = 1 \/ (i - 1 \in DOMAIN Tail(x) /\ Tail(x)[i-1] = x[i])
      BY <1>2
    <3>2. QED
      BY <1>2, <3>1 DEF ToSet
  <2>2. ASSUME NEW i \in DOMAIN Tail(x) PROVE Tail(x)[i] \in ToSet(x)
    <3>1. i + 1 \in DOMAIN x /\ x[i+1] = Tail(x)[i]
      BY <1>2
    <3>2. QED
      BY <3>1 DEF ToSet
  <2>3. Head(x) \in ToSet(x)
    BY <1>2 DEF ToSet
  <2>4. QED
    BY <2>1, <2>2, <2>3 DEF ToSet
<1>4. ToSet(x) \subseteq Registry
  BY <1>1 DEF ToSet
<1>5. Len(x) = 1 => ToSet(Tail(x)) = {}
  BY <1>2 DEF ToSet
<1>6. Head(x) \in ToSet(x)
  BY <1>3
<1>7. Head(x) \in Registry
  BY <1>4, <1>6
<1>8. ASSUME Len(x) # 1 PROVE Tail(x) # <<>>
  BY <1>2, <1>8
<1> DEFINE y == Tail(x)
           h == Head(x)
<1>9. /\ h \in Registry /\ Len(x) \in Nat \ {0} /\ y \in Seq(Registry)
      /\ h \in ToSet(x) /\ ToSet(x) = {h} \cup ToSet(y)
      /\ ToSet(x) \subseteq Registry
      /\ Len(x) # 1 => y # <<>>
      /\ Len(x) = 1 => ToSet(x) = {h}
  <2> HIDE DEF y, h
  <2>1. ToSet(x) = {h} \cup ToSet(y) /\ (Len(x) = 1 => ToSet(y) = {}) /\ (Len(x) # 1 => y # <<>>)
    BY <1>3, <1>5, <1>8 DEF y, h
  <2>2. h \in Registry /\ Len(x) \in Nat \ {0} /\ y \in Seq(Registry) /\ h \in ToSet(x)
    BY <1>2, <1>6, <1>7 DEF y, h
  <2>3. QED
    BY <1>4, <2>1, <2>2
<1>10. QED
  BY <1>9 DEF x, y, h, Target

-----------------------------------------------------------------------------
(* What a step of the other commands leaves alone.                         *)

\* The files of the agents, the manifest and the packages in the lock.
Apart ==
  /\ UNCHANGED <<agents, installed, materialized, config, settings, notes, profile, copies, menu, torn>>
  /\ start' \in {start, NoStart}

\* A command about the toolkit ends by configuring the agents, or without.
KitMove ==
  /\ Apart
  /\ pc \in KitSteps \cup {"idle"}
  /\ pc = "idle" => start' = NoStart
  /\ \/ /\ pc' \in KitSteps \cup {"idle"} /\ task' = task
        /\ unsettled' \in {unsettled, Agents} /\ outcome' \in {outcome, "none", "ok", "failed", "killed"}
     \/ RestoreConfiguredAgents(FALSE, {})

LEMMA KitMoves ==
  ASSUME ToolkitNext
  PROVE  KitMove
<1>1. ASSUME NEW v, NEW g, InstallToolkit(v, g) PROVE KitMove
  BY <1>1 DEF InstallToolkit, BeginKit, Begin, Leave, files, KitMove, Apart, KitSteps
<1>2. ASSUME RefuseToolkit \/ RemoveToolkit PROVE KitMove
  BY <1>2 DEF RefuseToolkit, RemoveToolkit, BeginKit, Begin, Leave, files, KitMove, Apart, KitSteps
<1>3. ASSUME NEW accepted, Proceed(accepted) \/ AnswerDeletion(accepted) PROVE KitMove
  BY <1>3 DEF Proceed, AnswerDeletion, At, Leave, records, files, bounds, history, KitMove, Apart, KitSteps
<1>4. ASSUME RunToolkitCommand \/ ToolkitCommandFails \/ ToolkitCommandsDone PROVE KitMove
  BY <1>4 DEF RunToolkitCommand, ToolkitCommandFails, ToolkitCommandsDone, At, records, files, bounds, control,
       history, KitMove, Apart, KitSteps
<1>5. ASSUME RollbackNewToolkitPaths \/ RecordToolkit \/ Relock \/ RelockFails PROVE KitMove
  BY <1>5 DEF RollbackNewToolkitPaths, RecordToolkit, Relock, RelockFails, At, Leave, records, files, bounds,
       history, KitMove, Apart, KitSteps
<1>6. ASSUME UninstallIntegration \/ DeleteToolkitPaths PROVE KitMove
  BY <1>6 DEF UninstallIntegration, DeleteToolkitPaths, LeaveBehind, records, files, bounds, control,
       history, KitMove, Apart, KitSteps
<1>7. ASSUME NEW mode, RestoreToolkits(mode) PROVE KitMove
  BY <1>7 DEF RestoreToolkits, BeginKit, Begin, Leave, files, KitMove, Apart, KitSteps
<1>8. ASSUME KillToolkit PROVE KitMove
  BY <1>8 DEF KillToolkit, records, files, history, KitMove, Apart, KitSteps
<1>9. ASSUME NEW f, EditDisk(f) PROVE KitMove
  BY <1>9 DEF EditDisk, records, files, control, KitMove, Apart, KitSteps
<1>10. QED
  BY <1>1, <1>2, <1>3, <1>4, <1>5, <1>6, <1>7, <1>8, <1>9 DEF ToolkitNext

\* A command about credentials.
EnvMove ==
  /\ Apart
  /\ UNCHANGED <<locked, task, unsettled>>
  /\ pc \in EnvSteps \cup {"idle"} /\ pc' \in EnvSteps \cup {"idle"}
  /\ pc = "idle" /\ start' # NoStart => touched' = TRUE /\ pc' = "idle"
  /\ outcome' \in {outcome, "none", "ok", "failed", "killed"}

LEMMA EnvMoves ==
  ASSUME EnvNext
  PROVE  EnvMove
<1>1. ASSUME EnsureInitialized \/ WriteEnvFile \/ RemoveLegacyFile \/ EnsureMcpEnvFile \/ CredentialsAnswered
      PROVE  EnvMove
  BY <1>1 DEF EnsureInitialized, WriteEnvFile, RemoveLegacyFile, EnsureMcpEnvFile, CredentialsAnswered,
       BeginEnv, Begin, EnvStep, EnvDone, EnvMove, Apart, EnvSteps, records, files, bounds, history
<1>2. ASSUME NEW names, NEW scope, EnsureEntries(names) \/ ConfigureMcpCredentials(names, scope)
      PROVE  EnvMove
  BY <1>2 DEF EnsureEntries, ConfigureMcpCredentials, BeginEnv, Begin, EnvMove, Apart, EnvSteps, records, files
<1>3. ASSUME NEW n, NEW value, AnswerCredential(n, value) \/ EditEnv(n, value)
      PROVE  EnvMove
  BY <1>3 DEF AnswerCredential, EditEnv, EnvStep, EnvMove, Apart, EnvSteps, records, files, bounds, control, history
<1>4. ASSUME KillEnv PROVE EnvMove
  BY <1>4 DEF KillEnv, EnvMove, Apart, EnvSteps, records, files, history
<1>5. QED
  BY <1>1, <1>2, <1>3, <1>4 DEF EnvNext

-----------------------------------------------------------------------------
(* The content of a configuration.                                         *)

\* What a change of Maia's entries keeps, and what a new file is.
Alike(file, old) == file \in ConfigFile /\ file.state = old.state /\ file.foreign = old.foreign
Whole(file) == file \in ConfigFile /\ file.state = "whole" /\ file.foreign
Sets(file, old, section, entry) == file = [old EXCEPT !.maia[section] = entry]

LEMMA FileTyped ==
  ASSUME NEW c \in ConfigFile
  PROVE  /\ c # NoFile /\ c.state \in {"whole", "cut", "broken"} /\ c.foreign \in BOOLEAN
         /\ c.maia \in [Sections -> McpEntries]
<1>1. c.state \in {"whole", "cut", "broken"} /\ c.foreign \in BOOLEAN /\ c.maia \in [Sections -> McpEntries]
  BY DEF ConfigFile
<1>2. NoFile.state = "absent"
  BY DEF NoFile
<1>3. QED
  BY <1>1, <1>2

LEMMA SectionSet ==
  ASSUME NEW c \in ConfigFile, NEW s \in Sections, NEW e \in McpEntries, NEW d, Sets(d, c, s, e)
  PROVE  /\ Alike(d, c) /\ d.maia[s] = e
         /\ \A other \in Sections : other # s => d.maia[other] = c.maia[other]
<1>1. c \in [state : {"whole", "cut", "broken"}, foreign : BOOLEAN, maia : [Sections -> McpEntries]]
  BY DEF ConfigFile
<1>2. d = [c EXCEPT !.maia[s] = e]
  BY DEF Sets
<1>3. d \in [state : {"whole", "cut", "broken"}, foreign : BOOLEAN, maia : [Sections -> McpEntries]]
  BY <1>1, <1>2
<1>4. d.state = c.state /\ d.foreign = c.foreign /\ d.maia[s] = e
  BY <1>1, <1>2
<1>5. \A other \in Sections : other # s => d.maia[other] = c.maia[other]
  BY <1>1, <1>2
<1>6. Alike(d, c)
  BY <1>3, <1>4 DEF Alike, ConfigFile
<1>7. QED
  BY <1>4, <1>5, <1>6

LEMMA NoEntryType == NoEntry \in McpEntries
  BY DEF McpEntries

LEMMA EmptyWhole == Whole(Empty)
<1>1. Empty.state = "whole" /\ Empty.foreign = TRUE /\ Empty.maia = [s \in Sections |-> NoEntry]
  BY DEF Empty
<1>2. Empty.maia \in [Sections -> McpEntries]
  BY <1>1, NoEntryType
<1>3. Empty \in ConfigFile
  BY <1>2 DEF Empty, ConfigFile
<1>4. QED
  BY <1>1, <1>3 DEF Whole

\* What is written of an agent, in each format.
LEMMA EntryType ==
  ASSUME NEW t \in Registry
  PROVE  /\ McpEntry(t) \in McpEntries
         /\ [McpEntry(t) EXCEPT !.stdio = FALSE] \in McpEntries
         /\ [McpEntry(t) EXCEPT !.stdio = FALSE, !.cwd = FALSE] \in McpEntries
         /\ [McpEntry(t) EXCEPT !.stdio = TRUE, !.cwd = FALSE] \in McpEntries
<1> DEFINE R == [agent : {u.id : u \in Registry}, stdio : BOOLEAN, cwd : BOOLEAN, env : BOOLEAN]
<1>1. McpEntry(t) \in R
  BY AgentFields DEF McpEntry
<1>2. \A m \in R : /\ [m EXCEPT !.stdio = FALSE] \in R
                   /\ [m EXCEPT !.stdio = FALSE, !.cwd = FALSE] \in R
                   /\ [m EXCEPT !.stdio = TRUE, !.cwd = FALSE] \in R
  OBVIOUS
<1>3. R \subseteq McpEntries
  BY DEF McpEntries
<1> HIDE DEF R
<1>4. QED
  BY <1>1, <1>2, <1>3

\* The format says which of the ways an entry is written.
LEMMA Formats ==
  ASSUME NEW t \in Registry
  PROVE  /\ t.format = "continue-mcp-block" <=> t = Continue
         /\ t.format = "toml-mcp-servers" => TopKey(t.format) = "mcp_servers"
         /\ t.format = "continue-mcp-block" => TopKey(t.format) = "document"
         /\ t.format \in {"mcp-servers", "servers", "zed-settings", "toml-mcp-servers", "continue-mcp-block"}
<1>1. t.format \in {"mcp-servers", "servers", "zed-settings", "toml-mcp-servers", "continue-mcp-block"}
      /\ (t.format = "continue-mcp-block" <=> t = Continue)
  BY AgentRows DEF Registry
<1>2. TopKey("toml-mcp-servers") = "mcp_servers" /\ TopKey("continue-mcp-block") = "document"
  BY DEF TopKey
<1>3. QED
  BY <1>1, <1>2

\* The entry that Maia writes does not depend on what the file held.
EntryOf(t) ==
  CASE t.format = "zed-settings" -> [McpEntry(t) EXCEPT !.stdio = FALSE, !.cwd = FALSE]
    [] t.format = "toml-mcp-servers" -> [McpEntry(t) EXCEPT !.stdio = FALSE]
    [] t.format = "continue-mcp-block" -> [McpEntry(t) EXCEPT !.stdio = TRUE, !.cwd = FALSE]
    [] OTHER -> McpEntry(t)

LEMMA TomlRemoved ==
  ASSUME NEW c \in ConfigFile
  PROVE  /\ Alike(RemoveTomlMcpEntryText(c), c)
         /\ \A s \in Sections : s \notin {"mcp_servers", "inline"} =>
              RemoveTomlMcpEntryText(c).maia[s] = c.maia[s]
<1>1. "mcp_servers" \in Sections /\ "inline" \in Sections /\ NoEntry \in McpEntries
  BY SectionTypes, AgentRows, NoEntryType DEF Registry
<1> DEFINE d == [c EXCEPT !.maia["mcp_servers"] = NoEntry]
           e == RemoveTomlMcpEntryText(c)
           toml == "mcp_servers"
           inline == "inline"
<1>2. Sets(d, c, toml, NoEntry) /\ Sets(e, d, inline, NoEntry)
  BY DEF Sets, RemoveTomlMcpEntryText
<1>3. toml \in Sections /\ inline \in Sections
  BY <1>1
<1> HIDE DEF d, e, toml, inline
<1>4. Alike(d, c) /\ \A s \in Sections : s # toml => d.maia[s] = c.maia[s]
  BY <1>1, <1>2, <1>3, SectionSet
<1>5. d \in ConfigFile
  BY <1>4 DEF Alike
<1>6. Alike(e, d) /\ \A s \in Sections : s # inline => e.maia[s] = d.maia[s]
  BY <1>1, <1>2, <1>3, <1>5, SectionSet
<1>7. Alike(e, c) /\ \A s \in Sections : s \notin {toml, inline} => e.maia[s] = c.maia[s]
  BY <1>4, <1>6 DEF Alike
<1>8. QED
  BY <1>7 DEF e, toml, inline

LEMMA Injected ==
  ASSUME NEW t \in Registry, NEW file \in ConfigFile \cup {NoFile}
  PROVE  /\ IF file = NoFile \/ t = Continue THEN Whole(Inject(t, file)) ELSE Alike(Inject(t, file), file)
         /\ Inject(t, file).maia[TopKey(t.format)] = EntryOf(t)
<1> DEFINE key == TopKey(t.format)
           new == Inject(t, file)
           Good == /\ IF file = NoFile \/ t = Continue THEN Whole(new) ELSE Alike(new, file)
                   /\ new.maia[key] = EntryOf(t)
<1>1. key \in Sections /\ Whole(Empty) /\ Empty \in ConfigFile
  BY SectionTypes, EmptyWhole DEF Whole
<1>2. ASSUME NEW data \in ConfigFile, NEW e \in McpEntries, Sets(new, data, key, e), e = EntryOf(t),
             IF file = NoFile \/ t = Continue THEN Whole(data) ELSE Alike(data, file)
      PROVE  Good
  <2> HIDE DEF key, new
  <2>1. Alike(new, data) /\ new.maia[key] = e
    BY <1>1, <1>2, SectionSet
  <2>2. Whole(data) => Whole(new)
    BY <2>1 DEF Alike, Whole
  <2>3. Alike(data, file) => Alike(new, file)
    BY <2>1 DEF Alike
  <2>4. QED
    BY <1>2, <2>1, <2>2, <2>3
<1> DEFINE given == IF file = NoFile THEN Empty ELSE file
<1>3. given \in ConfigFile /\ IF file = NoFile THEN Whole(given) ELSE Alike(given, file)
  BY <1>1 DEF Alike
<1> HIDE DEF Good
<1>4. ASSUME t.format = "zed-settings" PROVE Good
  <2> DEFINE e == [McpEntry(t) EXCEPT !.stdio = FALSE, !.cwd = FALSE]
  <2>1. e \in McpEntries /\ EntryOf(t) = e
    BY <1>4, EntryType DEF EntryOf
  <2>2. Sets(new, given, key, e)
    BY <1>4 DEF Inject, InjectZedSettings, Sets
  <2>3. t # Continue
    BY <1>4, Formats
  <2> HIDE DEF e, given, new, key
  <2>4. QED
    BY <1>2, <1>3, <2>1, <2>2, <2>3
<1>5. ASSUME t.format = "toml-mcp-servers" PROVE Good
  <2> DEFINE e == [McpEntry(t) EXCEPT !.stdio = FALSE]
             data == IF file = NoFile THEN Empty ELSE RemoveTomlMcpEntryText(file)
  <2>1. e \in McpEntries /\ EntryOf(t) = e
    BY <1>5, EntryType DEF EntryOf
  <2>2. Sets(new, data, key, e)
    BY <1>5, Formats DEF Inject, InjectTomlMcpServers, Sets
  <2>3. t # Continue
    BY <1>5, Formats
  <2>4. data \in ConfigFile /\ IF file = NoFile THEN Whole(data) ELSE Alike(data, file)
    BY <1>1, TomlRemoved DEF Alike
  <2> HIDE DEF e, data, new, key
  <2>5. QED
    BY <1>2, <2>1, <2>2, <2>3, <2>4
<1>6. ASSUME t.format = "continue-mcp-block" PROVE Good
  <2> DEFINE e == [McpEntry(t) EXCEPT !.stdio = TRUE, !.cwd = FALSE]
  <2>1. e \in McpEntries /\ EntryOf(t) = e
    BY <1>6, EntryType DEF EntryOf
  <2>2. t = Continue /\ key = "document"
    BY <1>6, Formats
  <2>3. Sets(new, Empty, key, e)
    BY <1>6, <2>2 DEF Inject, RenderContinueMcpBlock, Sets
  <2> HIDE DEF e, new, key
  <2>4. QED
    BY <1>1, <1>2, <2>1, <2>2, <2>3
<1>7. ASSUME t.format \in {"mcp-servers", "servers"} PROVE Good
  <2> DEFINE e == McpEntry(t)
  <2>1. e \in McpEntries /\ EntryOf(t) = e
    BY <1>7, EntryType DEF EntryOf
  <2>2. Sets(new, given, key, e)
    BY <1>7 DEF Inject, InjectMcpServers, Sets
  <2>3. t # Continue
    BY <1>7, Formats
  <2> HIDE DEF e, given, new, key
  <2>4. QED
    BY <1>2, <1>3, <2>1, <2>2, <2>3
<1>8. Good
  BY <1>4, <1>5, <1>6, <1>7, Formats
<1>9. QED
  BY <1>8 DEF Good

LEMMA ProxyRemoved ==
  ASSUME NEW t \in Registry, t.legacy # NoPlace, NEW c \in ConfigFile
  PROVE  /\ Alike(RemoveProxyEntry(c, t.legacy.format), c)
         /\ \A s \in Sections : s # TopKey(t.legacy.format) =>
              RemoveProxyEntry(c, t.legacy.format).maia[s] = c.maia[s]
<1> DEFINE s0 == TopKey(t.legacy.format)
           d == RemoveProxyEntry(c, t.legacy.format)
<1>1. s0 \in Sections /\ NoEntry \in McpEntries
  BY SectionTypes, NoEntryType
<1>2. Sets(d, c, s0, NoEntry)
  BY DEF RemoveProxyEntry, Sets
<1> HIDE DEF s0, d
<1>3. Alike(d, c) /\ \A s \in Sections : s # s0 => d.maia[s] = c.maia[s]
  BY <1>1, <1>2, SectionSet
<1>4. QED
  BY <1>3 DEF s0, d

LEMMA AgentRemoved ==
  ASSUME NEW t \in Registry, NEW file \in ConfigFile \cup {NoFile}
  PROVE  IF file = NoFile \/ t = Continue THEN RemoveAgentMcpEntry(t, file) = NoFile
         ELSE Alike(RemoveAgentMcpEntry(t, file), file)
<1>1. CASE file = NoFile \/ t.format = "continue-mcp-block"
  BY <1>1, Formats DEF RemoveAgentMcpEntry
<1>2. CASE file # NoFile /\ t.format = "toml-mcp-servers"
  BY <1>2, TomlRemoved, Formats DEF RemoveAgentMcpEntry
<1>3. CASE file # NoFile /\ t.format \notin {"toml-mcp-servers", "continue-mcp-block"}
  <2> DEFINE s0 == TopKey(t.format)
             d == RemoveAgentMcpEntry(t, file)
  <2>1. s0 \in Sections /\ NoEntry \in McpEntries
    BY SectionTypes, NoEntryType
  <2>2. Sets(d, file, s0, NoEntry)
    BY <1>3 DEF RemoveProxyEntry, RemoveAgentMcpEntry, Sets
  <2> HIDE DEF s0, d
  <2>3. Alike(d, file)
    BY <1>3, <2>1, <2>2, SectionSet
  <2>4. QED
    BY <1>3, <2>3, Formats DEF d
<1>4. QED
  BY <1>1, <1>2, <1>3

\* A kill, and the user.
LEMMA StateSet ==
  ASSUME NEW c \in ConfigFile, NEW s \in {"whole", "cut", "broken"}
  PROVE  /\ [c EXCEPT !.state = s] \in ConfigFile /\ [c EXCEPT !.state = s].state = s
         /\ [c EXCEPT !.state = s].foreign = c.foreign /\ [c EXCEPT !.state = s].maia = c.maia
         /\ [c EXCEPT !.state = s, !.foreign = TRUE] \in ConfigFile
         /\ [c EXCEPT !.state = s, !.foreign = TRUE].foreign
         /\ [c EXCEPT !.state = s, !.foreign = TRUE].state = s
         /\ [c EXCEPT !.state = s, !.foreign = TRUE].maia = c.maia
         /\ [c EXCEPT !.state = s, !.foreign = FALSE] \in ConfigFile
         /\ [c EXCEPT !.state = s, !.foreign = FALSE].state = s
<1>1. c \in [state : {"whole", "cut", "broken"}, foreign : BOOLEAN, maia : [Sections -> McpEntries]]
  BY DEF ConfigFile
<1>2. QED
  BY <1>1 DEF ConfigFile

-----------------------------------------------------------------------------
(* Cline's settings.                                                       *)

LEMMA SettingsFields ==
  ASSUME NEW c \in Settings, c # NoFile
  PROVE  /\ c.state \in {"whole", "broken"} /\ c.entry \in {"none", "old", "current"}
         /\ c.foreign \in BOOLEAN
  BY DEF Settings

LEMMA SettingsSet ==
  ASSUME NEW c \in Settings, c # NoFile
  PROVE  /\ RemoveStaleEntries(UpsertClineGlobalEntry(c)) \in Settings \ {NoFile}
         /\ RemoveStaleEntries(UpsertClineGlobalEntry(c)).entry = "current"
         /\ RemoveStaleEntries(UpsertClineGlobalEntry(c)).foreign = c.foreign
         /\ RemoveClineGlobalEntry(c) \in Settings \ {NoFile}
         /\ RemoveClineGlobalEntry(c).foreign = c.foreign
         /\ \A s \in {"whole", "broken"} :
              /\ [c EXCEPT !.state = s] \in Settings \ {NoFile}
              /\ [c EXCEPT !.state = s].entry = c.entry /\ [c EXCEPT !.state = s].foreign = c.foreign
<1> DEFINE R == [state: {"whole", "broken"}, entry: {"none", "old", "current"}, stale: BOOLEAN,
                 foreign: BOOLEAN]
<1>1. c \in R
  BY DEF Settings
<1>2. \A x \in R : x # NoFile
  BY DEF NoFile
<1>3. \A x \in R : /\ RemoveStaleEntries(UpsertClineGlobalEntry(x)) \in R
                   /\ RemoveStaleEntries(UpsertClineGlobalEntry(x)).entry = "current"
                   /\ RemoveStaleEntries(UpsertClineGlobalEntry(x)).foreign = x.foreign
                   /\ RemoveClineGlobalEntry(x) \in R
                   /\ RemoveClineGlobalEntry(x).foreign = x.foreign
  BY DEF RemoveStaleEntries, UpsertClineGlobalEntry, RemoveClineGlobalEntry
<1>4. \A x \in R : \A s \in {"whole", "broken"} :
              /\ [x EXCEPT !.state = s] \in R
              /\ [x EXCEPT !.state = s].entry = x.entry /\ [x EXCEPT !.state = s].foreign = x.foreign
  OBVIOUS
<1>5. R \subseteq Settings
  BY DEF Settings
<1> HIDE DEF R
<1>6. QED
  BY <1>1, <1>2, <1>3, <1>4, <1>5

LEMMA NewSettingsType ==
  NewSettings \in Settings \ {NoFile} /\ NewSettings.foreign
<1>1. NewSettings \in [state: {"whole", "broken"}, entry: {"none", "old", "current"}, stale: BOOLEAN,
                 foreign: BOOLEAN] /\ NewSettings.foreign
  BY DEF NewSettings
<1>2. NewSettings.state = "whole" /\ NoFile.state = "absent"
  BY DEF NewSettings, NoFile
<1>3. QED
  BY <1>1, <1>2 DEF Settings

-----------------------------------------------------------------------------
(* Instructions.                                                           *)

Blocks ==
  [kind : {"body"}, agent : Agents, status : Statuses, skills : SUBSET Skills,
   toolkit : Entries \cup {NoToolkit}]
Tokens == {UserText, Start, End} \cup Blocks

LEMMA TokenKinds ==
  /\ UserText.kind = "user" /\ Start.kind = "start" /\ End.kind = "end"
  /\ \A b \in Blocks : b.kind = "body"
  /\ UserText \in Tokens /\ Start \in Tokens /\ End \in Tokens
  BY DEF UserText, Start, End, Token, Blocks, Tokens

LEMMA SmallestMin ==
  ASSUME NEW T \in SUBSET Nat, T # {}
  PROVE  Min(T) \in T /\ \A m \in T : Min(T) <= m
<1>1. PICK n \in T : \A m \in T : n <= m
  BY Least
<1>2. QED
  BY <1>1 DEF Min

LEMMA First ==
  ASSUME NEW T, NEW text \in Seq(T), NEW kind
  PROVE  /\ FirstOf(text, kind) \in 0..Len(text)
         /\ FirstOf(text, kind) # 0 => text[FirstOf(text, kind)].kind = kind
         /\ \A i \in 1..Len(text) :
              text[i].kind = kind => FirstOf(text, kind) # 0 /\ FirstOf(text, kind) <= i
<1> DEFINE I == {i \in 1..Len(text) : text[i].kind = kind}
<1>1. FirstOf(text, kind) = IF I # {} THEN Min(I) ELSE 0
  BY DEF FirstOf, SelectInSeq
<1>2. I \in SUBSET Nat /\ \A i \in I : i \in 1..Len(text) /\ text[i].kind = kind
  OBVIOUS
<1>3. \A i \in 1..Len(text) : text[i].kind = kind => i \in I
  OBVIOUS
<1> HIDE DEF I
<1>4. CASE I = {}
  BY <1>1, <1>3, <1>4
<1>5. CASE I # {}
  <2> DEFINE n == FirstOf(text, kind)
  <2>1. n \in I /\ \A m \in I : n <= m
    BY <1>1, <1>2, <1>5, SmallestMin
  <2> HIDE DEF n
  <2>2. n \in 1..Len(text) /\ text[n].kind = kind /\ Len(text) \in Nat
    BY <1>2, <2>1
  <2>3. n \in 0..Len(text) /\ n # 0
    BY <2>2
  <2>4. \A i \in 1..Len(text) : text[i].kind = kind => n <= i
    BY <1>3, <2>1
  <2>5. QED
    BY <2>2, <2>3, <2>4 DEF n
<1>6. QED
  BY <1>4, <1>5

LEMMA BlockType ==
  ASSUME Working, pc \in AgentSteps, locked \in Entries \cup {NoToolkit}
  PROVE  /\ RenderAgentCapabilityBlock[2] \in Blocks
         /\ RenderAgentCapabilityBlock[2].agent = Target.id
         /\ RenderAgentCapabilityBlock[2].status = task.status
         /\ RenderAgentCapabilityBlock[2].skills = Authorized(Target.id)
         /\ RenderAgentCapabilityBlock[2].toolkit = locked
         /\ RenderAgentCapabilityBlock = <<Start, RenderAgentCapabilityBlock[2], End>>
<1> DEFINE b == [kind |-> "body", agent |-> Target.id, status |-> task.status,
                 skills |-> Authorized(Target.id), toolkit |-> locked]
<1>1. RenderAgentCapabilityBlock = <<Start, b, End>>
  BY DEF RenderAgentCapabilityBlock
<1>2. Target.id \in Agents
  BY TargetType, AgentFields
<1>3. task.status \in Statuses /\ Authorized(Target.id) \in SUBSET Skills
  BY DEF Working, Tasks, Authorized
<1>4. b \in Blocks /\ b.agent = Target.id /\ b.status = task.status
      /\ b.skills = Authorized(Target.id) /\ b.toolkit = locked
  <2> DEFINE id == Target.id
             st == task.status
             sk == Authorized(Target.id)
  <2> HIDE DEF id, st, sk
  <2>1. b = [kind |-> "body", agent |-> id, status |-> st, skills |-> sk, toolkit |-> locked]
    BY DEF id, st, sk
  <2>2. id \in Agents /\ st \in Statuses /\ sk \in SUBSET Skills
    BY <1>2, <1>3 DEF id, st, sk
  <2>3. b \in Blocks /\ b.agent = id /\ b.status = st /\ b.skills = sk /\ b.toolkit = locked
    BY <2>1, <2>2 DEF Blocks
  <2>4. QED
    BY <2>3 DEF id, st, sk
<1> HIDE DEF b
<1>5. RenderAgentCapabilityBlock[2] = b
  BY <1>1
<1>6. QED
  BY <1>1, <1>4, <1>5

\* Instructions that no kill has torn: the user's lines, and at most one block.
Users == Seq({UserText})
Block(body) == <<Start, body, End>>
With(a, body, b) == (a \o Block(body)) \o b
Plainly(text) == text \in Users
Marked(text, body) == \E a, b \in Users : text = With(a, body, b)
Shaped(text) == Plainly(text) \/ \E body \in Blocks : Marked(text, body)
Said(text) == ToSet(text) \cap Blocks

Joins(z, x, y) ==
  /\ Len(z) = Len(x) + Len(y) /\ Len(x) \in Nat /\ Len(y) \in Nat
  /\ \A i \in 1..Len(x) : z[i] = x[i]
  /\ \A i \in 1..Len(y) : z[Len(x) + i] = y[i]

LEMMA Joined ==
  ASSUME NEW T, NEW x \in Seq(T), NEW y \in Seq(T), NEW z, z = x \o y
  PROVE  z \in Seq(T) /\ Joins(z, x, y)
  BY DEF Joins

Laid(text, a, body, b) ==
  /\ text \in Seq(Tokens) /\ Len(text) = Len(a) + 3 + Len(b)
  /\ Len(a) \in Nat /\ Len(b) \in Nat
  /\ \A i \in 1..Len(a) : text[i] = a[i] /\ a[i] = UserText
  /\ text[Len(a) + 1] = Start /\ text[Len(a) + 2] = body /\ text[Len(a) + 3] = End
  /\ \A i \in 1..Len(b) : text[Len(a) + 3 + i] = b[i] /\ b[i] = UserText

LEMMA WithLaid ==
  ASSUME NEW a \in Users, NEW b \in Users, NEW body \in Blocks, NEW text, text = With(a, body, b)
  PROVE  Laid(text, a, body, b)
<1>1. PICK m : m = Block(body)
  OBVIOUS
<1>2. PICK am : am = a \o m
  OBVIOUS
<1>3. /\ a \in Seq(Tokens) /\ b \in Seq(Tokens)
      /\ \A i \in 1..Len(a) : a[i] = UserText
      /\ \A i \in 1..Len(b) : b[i] = UserText
  BY DEF Users, Tokens
<1>4. m \in Seq(Tokens) /\ Len(m) = 3 /\ m[1] = Start /\ m[2] = body /\ m[3] = End
  BY <1>1 DEF Block, Tokens
<1>5. /\ am \in Seq(Tokens) /\ Len(am) = Len(a) + Len(m) /\ Len(a) \in Nat
      /\ \A i \in 1..Len(a) : am[i] = a[i]
      /\ \A i \in 1..Len(m) : am[Len(a) + i] = m[i]
  <2>1. am \in Seq(Tokens) /\ Joins(am, a, m)
    BY <1>2, <1>3, <1>4, Joined
  <2>2. QED
    BY <2>1 DEF Joins
<1>6. am[Len(a) + 1] = m[1] /\ am[Len(a) + 2] = m[2] /\ am[Len(a) + 3] = m[3] /\ Len(am) = Len(a) + 3
  <2>1. 1 \in 1..Len(m) /\ 2 \in 1..Len(m) /\ 3 \in 1..Len(m)
    BY <1>4
  <2>2. QED
    BY <1>4, <1>5, <2>1
<1>7. text = am \o b
  BY <1>1, <1>2 DEF With
<1>8. /\ text \in Seq(Tokens) /\ Len(text) = Len(am) + Len(b) /\ Len(b) \in Nat
      /\ \A i \in 1..Len(am) : text[i] = am[i]
      /\ \A i \in 1..Len(b) : text[Len(am) + i] = b[i]
  <2>1. text \in Seq(Tokens) /\ Joins(text, am, b)
    BY <1>3, <1>5, <1>7, Joined
  <2>2. QED
    BY <2>1 DEF Joins
<1>9. text[Len(a) + 1] = Start /\ text[Len(a) + 2] = body /\ text[Len(a) + 3] = End
  <2>1. Len(a) + 1 \in 1..Len(am) /\ Len(a) + 2 \in 1..Len(am) /\ Len(a) + 3 \in 1..Len(am)
    BY <1>5, <1>6
  <2>2. QED
    BY <1>4, <1>6, <1>8, <2>1
<1>10. \A i \in 1..Len(a) : text[i] = a[i]
  <2>1. \A i \in 1..Len(a) : i \in 1..Len(am)
    BY <1>5, <1>6
  <2>2. QED
    BY <1>5, <1>8, <2>1
<1>11. \A i \in 1..Len(b) : text[Len(a) + 3 + i] = b[i]
  BY <1>6, <1>8
<1>12. Len(text) = Len(a) + 3 + Len(b)
  BY <1>6, <1>8
<1>13. QED
  BY <1>3, <1>5, <1>8, <1>9, <1>10, <1>11, <1>12 DEF Laid

LEMMA PlainType ==
  ASSUME NEW a \in Users
  PROVE  a \in Seq(Tokens) /\ Said(a) = {} /\ ~HasBlock(a)
<1>1. a \in Seq(Tokens) /\ (\A i \in 1..Len(a) : a[i] = UserText) /\ DOMAIN a = 1..Len(a)
  BY DEF Users, Tokens
<1>2. UserText \notin Blocks /\ UserText.kind # "start"
  BY TokenKinds
<1>3. Said(a) = {}
  BY <1>1, <1>2 DEF Said, ToSet
<1>4. FirstOf(a, "start") = 0
  BY <1>1, <1>2, First
<1>5. QED
  BY <1>1, <1>3, <1>4 DEF HasBlock

LEMMA SameSeq ==
  ASSUME NEW T, NEW x \in Seq(T), NEW y \in Seq(T), Len(x) = Len(y), \A i \in 1..Len(y) : x[i] = y[i]
  PROVE  x = y
  OBVIOUS

LEMMA MarkedParts ==
  ASSUME NEW a \in Users, NEW b \in Users, NEW body \in Blocks, NEW text, text = With(a, body, b)
  PROVE  HasBlock(text) /\ Before(text) = a /\ After(text) = b
<1> DEFINE start1 == FirstOf(text, "start")
           end1 == FirstOf(text, "end")
<1>1. /\ text \in Seq(Tokens) /\ Len(text) = Len(a) + 3 + Len(b)
      /\ Len(a) \in Nat /\ Len(b) \in Nat
      /\ \A i \in 1..Len(a) : text[i] = a[i] /\ a[i] = UserText
      /\ text[Len(a) + 1] = Start /\ text[Len(a) + 2] = body /\ text[Len(a) + 3] = End
      /\ \A i \in 1..Len(b) : text[Len(a) + 3 + i] = b[i] /\ b[i] = UserText
  <2>1. Laid(text, a, body, b)
    BY WithLaid
  <2>2. QED
    BY <2>1 DEF Laid
<1>2. UserText.kind = "user" /\ Start.kind = "start" /\ End.kind = "end" /\ body.kind = "body"
  BY TokenKinds
<1>3. /\ start1 \in 0..Len(text) /\ (start1 # 0 => text[start1].kind = "start")
      /\ \A i \in 1..Len(text) : text[i].kind = "start" => start1 # 0 /\ start1 <= i
  BY <1>1, First
<1>4. /\ end1 \in 0..Len(text) /\ (end1 # 0 => text[end1].kind = "end")
      /\ \A i \in 1..Len(text) : text[i].kind = "end" => end1 # 0 /\ end1 <= i
  BY <1>1, First
<1> HIDE DEF start1, end1
<1>5. start1 = Len(a) + 1
  <2>1. start1 # 0 /\ start1 <= Len(a) + 1
    <3>1. Len(a) + 1 \in 1..Len(text)
      BY <1>1
    <3>2. QED
      BY <1>1, <1>2, <1>3, <3>1
  <2>2. start1 \notin 1..Len(a)
    BY <1>1, <1>2, <1>3
  <2>3. QED
    BY <1>1, <1>3, <2>1, <2>2
<1>6. end1 = Len(a) + 3
  <2>1. end1 # 0 /\ end1 <= Len(a) + 3
    <3>1. Len(a) + 3 \in 1..Len(text)
      BY <1>1
    <3>2. QED
      BY <1>1, <1>2, <1>4, <3>1
  <2>2. end1 \notin 1..Len(a) /\ end1 # Len(a) + 1 /\ end1 # Len(a) + 2
    BY <1>1, <1>2, <1>4
  <2>3. QED
    BY <1>1, <1>4, <2>1, <2>2
<1>7. HasBlock(text)
  BY <1>1, <1>5, <1>6 DEF HasBlock, start1, end1
<1>8. Before(text) = a
  <2>1. Before(text) = SubSeq(text, 1, Len(a))
    BY <1>1, <1>5 DEF Before, start1
  <2>2. PICK x : x = SubSeq(text, 1, Len(a))
    OBVIOUS
  <2>3. x \in Seq(Tokens) /\ Len(x) = Len(a) /\ \A i \in 1..Len(a) : x[i] = text[i]
    BY <1>1, <2>2
  <2>4. a \in Seq(Tokens)
    BY PlainType
  <2>5. x = a
    BY <1>1, <2>3, <2>4, SameSeq
  <2>6. QED
    BY <2>1, <2>2, <2>5
<1>9. After(text) = b
  <2>1. After(text) = SubSeq(text, Len(a) + 4, Len(text))
    <3>1. After(text) = SubSeq(text, end1 + 1, Len(text))
      BY Zenon DEF After, end1
    <3>2. end1 + 1 = Len(a) + 4
      <4>1. Len(a) \in Nat
        BY <1>1, Zenon
      <4> QED
        BY <1>6, <4>1
    <3>3. QED
      BY <3>1, <3>2, Zenon
  <2>2. PICK x : x = SubSeq(text, Len(a) + 4, Len(text))
    OBVIOUS
  <2>3. x \in Seq(Tokens) /\ Len(x) = Len(b) /\ \A i \in 1..Len(b) : x[i] = text[Len(a) + 3 + i]
    BY <1>1, <2>2
  <2>4. b \in Seq(Tokens)
    BY PlainType
  <2>5. x = b
    BY <1>1, <2>3, <2>4, SameSeq
  <2>6. QED
    BY <2>1, <2>2, <2>5
<1>10. QED
  BY <1>7, <1>8, <1>9

LEMMA MarkedSays ==
  ASSUME NEW body \in Blocks, NEW text, Marked(text, body)
  PROVE  text \in Seq(Tokens) /\ Said(text) = {body}
<1>1. PICK a, b \in Users : text = With(a, body, b)
  BY DEF Marked
<1>2. /\ text \in Seq(Tokens) /\ Len(text) = Len(a) + 3 + Len(b)
      /\ Len(a) \in Nat /\ Len(b) \in Nat
      /\ \A i \in 1..Len(a) : text[i] = UserText
      /\ text[Len(a) + 1] = Start /\ text[Len(a) + 2] = body /\ text[Len(a) + 3] = End
      /\ \A i \in 1..Len(b) : text[Len(a) + 3 + i] = UserText
  <2>1. Laid(text, a, body, b)
    BY <1>1, WithLaid
  <2>2. QED
    BY <2>1 DEF Laid
<1>3. UserText \notin Blocks /\ Start \notin Blocks /\ End \notin Blocks
  BY TokenKinds
<1>4. ASSUME NEW i \in 1..Len(text), text[i] \in Blocks PROVE text[i] = body
  <2>1. i \in 1..Len(a) \/ i \in {Len(a) + 1, Len(a) + 2, Len(a) + 3} \/
        (i - (Len(a) + 3) \in 1..Len(b) /\ i = Len(a) + 3 + (i - (Len(a) + 3)))
    BY <1>2
  <2>2. CASE i - (Len(a) + 3) \in 1..Len(b) /\ i = Len(a) + 3 + (i - (Len(a) + 3))
    <3>1. text[Len(a) + 3 + (i - (Len(a) + 3))] = UserText
      BY <1>2, <2>2
    <3>2. QED
      BY <1>3, <1>4, <2>2, <3>1
  <2>3. QED
    BY <1>2, <1>3, <1>4, <2>1, <2>2
<1>5. Len(a) + 2 \in 1..Len(text) /\ DOMAIN text = 1..Len(text)
  BY <1>2
<1>6. QED
  BY <1>2, <1>4, <1>5 DEF Said, ToSet

LEMMA LinesAdd ==
  ASSUME NEW x \in Seq(Tokens), NEW y \in Seq(Tokens)
  PROVE  UserLines(x \o y) = UserLines(x) + UserLines(y) /\ UserLines(x) \in Nat
<1>1. PICK kx : kx = Keep(x, {UserText})
  OBVIOUS
<1>2. PICK ky : ky = Keep(y, {UserText})
  OBVIOUS
<1>3. kx \in Seq(Tokens) /\ ky \in Seq(Tokens)
  BY <1>1, <1>2, KeepIsList
<1>4. Keep(x \o y, {UserText}) = kx \o ky
  <2>1. Splits(x, y, {UserText})
    BY KeepConcat
  <2>2. QED
    BY <1>1, <1>2, <2>1 DEF Splits
<1>5. Len(kx \o ky) = Len(kx) + Len(ky) /\ Len(kx) \in Nat
  BY <1>3
<1>6. QED
  BY <1>1, <1>2, <1>4, <1>5 DEF UserLines

LEMMA BlockLines ==
  ASSUME NEW body \in Blocks
  PROVE  Block(body) \in Seq(Tokens) /\ UserLines(Block(body)) = 0
<1> DEFINE T == {Start, End, body}
<1>1. Block(body) \in Seq(T) /\ Block(body) \in Seq(Tokens)
  BY DEF Block, Tokens
<1>2. T \cap {UserText} = {}
  BY TokenKinds
<1> HIDE DEF T
<1>3. Keep(Block(body), {UserText}) = <<>>
  BY <1>1, <1>2, KeepNone
<1>4. QED
  BY <1>1, <1>3 DEF UserLines

LEMMA WithLines ==
  ASSUME NEW a \in Users, NEW b \in Users, NEW body \in Blocks
  PROVE  UserLines(With(a, body, b)) = UserLines(a) + UserLines(b)
<1>1. PICK m : m = Block(body)
  OBVIOUS
<1>2. PICK am : am = a \o m
  OBVIOUS
<1>3. a \in Seq(Tokens) /\ b \in Seq(Tokens) /\ m \in Seq(Tokens) /\ UserLines(m) = 0
  BY <1>1, PlainType, BlockLines
<1>4. am \in Seq(Tokens) /\ UserLines(am) = UserLines(a) + 0 /\ UserLines(a) \in Nat
  BY <1>2, <1>3, LinesAdd, Joined
<1>5. UserLines(am \o b) = UserLines(am) + UserLines(b)
  BY <1>3, <1>4, LinesAdd
<1>6. QED
  BY <1>1, <1>2, <1>4, <1>5 DEF With

\* What the block is put into, or taken from.
LEMMA Upserted ==
  ASSUME NEW text, Shaped(text), NEW body \in Blocks
  PROVE  /\ Marked(UpsertMarkedBlock(text, Block(body)), body)
         /\ UserLines(UpsertMarkedBlock(text, Block(body))) = UserLines(text)
<1>1. CASE Plainly(text)
  <2>1. text \in Users /\ ~HasBlock(text)
    BY <1>1, PlainType DEF Plainly
  <2>2. PICK new : new = UpsertMarkedBlock(text, Block(body))
    OBVIOUS
  <2>3. new = text \o Block(body)
    BY <2>1, <2>2 DEF UpsertMarkedBlock
  <2>4. PICK none : none = <<>>
    OBVIOUS
  <2>5. none \in Users
    BY <2>4 DEF Users
  <2>6. text \o Block(body) \in Seq(Tokens)
    <3>1. text \in Seq(Tokens) /\ Block(body) \in Seq(Tokens)
      BY <2>1, PlainType, BlockLines
    <3>2. QED
      BY <3>1, Joined
  <2>7. new = With(text, body, none)
    <3>1. new \o <<>> = new
      BY <2>3, <2>6
    <3>2. QED
      BY <2>3, <2>4, <3>1 DEF With
  <2>8. UserLines(new) = UserLines(text)
    <3>1. text \in Seq(Tokens) /\ Block(body) \in Seq(Tokens) /\ UserLines(Block(body)) = 0
      BY <2>1, PlainType, BlockLines
    <3>2. UserLines(new) = UserLines(text) + 0 /\ UserLines(text) \in Nat
      BY <2>3, <3>1, LinesAdd
    <3>3. QED
      BY <3>2
  <2>9. Marked(new, body)
    BY <2>1, <2>5, <2>7 DEF Marked
  <2>10. QED
    BY <2>2, <2>8, <2>9
<1>2. ASSUME NEW old \in Blocks, Marked(text, old)
      PROVE  /\ Marked(UpsertMarkedBlock(text, Block(body)), body)
             /\ UserLines(UpsertMarkedBlock(text, Block(body))) = UserLines(text)
  <2>1. PICK a, b \in Users : text = With(a, old, b)
    BY <1>2 DEF Marked
  <2>2. HasBlock(text) /\ Before(text) = a /\ After(text) = b
    BY <2>1, MarkedParts
  <2>3. UpsertMarkedBlock(text, Block(body)) = With(a, body, b)
    BY <2>2 DEF UpsertMarkedBlock, With
  <2>4. UserLines(With(a, body, b)) = UserLines(a) + UserLines(b)
        /\ UserLines(With(a, old, b)) = UserLines(a) + UserLines(b)
    BY WithLines
  <2>5. QED
    BY <2>1, <2>3, <2>4 DEF Marked
<1>3. QED
  BY <1>1, <1>2 DEF Shaped

LEMMA Unmarked ==
  ASSUME NEW text, Shaped(text)
  PROVE  Plainly(RemoveMarkedBlock(text)) /\ UserLines(RemoveMarkedBlock(text)) = UserLines(text)
<1>1. CASE Plainly(text)
  <2>1. RemoveMarkedBlock(text) = text
    BY <1>1, PlainType DEF Plainly, RemoveMarkedBlock
  <2>2. QED
    BY <1>1, <2>1
<1>2. ASSUME NEW old \in Blocks, Marked(text, old)
      PROVE  Plainly(RemoveMarkedBlock(text)) /\ UserLines(RemoveMarkedBlock(text)) = UserLines(text)
  <2>1. PICK a, b \in Users : text = With(a, old, b)
    BY <1>2 DEF Marked
  <2>2. HasBlock(text) /\ Before(text) = a /\ After(text) = b
    BY <2>1, MarkedParts
  <2>3. RemoveMarkedBlock(text) = a \o b
    BY <2>2 DEF RemoveMarkedBlock
  <2>4. UserLines(With(a, old, b)) = UserLines(a) + UserLines(b)
    BY WithLines
  <2>5. UserLines(a \o b) = UserLines(a) + UserLines(b)
    BY PlainType, LinesAdd
  <2>6. a \o b \in Users
    BY Joined DEF Users
  <2>7. QED
    BY <2>1, <2>3, <2>4, <2>5, <2>6 DEF Plainly
<1>3. QED
  BY <1>1, <1>2 DEF Shaped

LEMMA LineAdded ==
  ASSUME NEW text, Shaped(text)
  PROVE  /\ Shaped(Append(text, UserText)) /\ Said(Append(text, UserText)) = Said(text)
         /\ UserLines(Append(text, UserText)) >= UserLines(text)
<1>1. text \in Seq(Tokens) /\ UserText \in Tokens
  BY PlainType, MarkedSays, TokenKinds DEF Shaped, Plainly
<1>2. UserLines(Append(text, UserText)) >= UserLines(text)
  <2>1. PICK k : k = Keep(text, {UserText})
    OBVIOUS
  <2>2. k \in Seq(Tokens)
    BY <1>1, <2>1, KeepIsList
  <2>3. Keep(Append(text, UserText), {UserText}) = Append(k, UserText)
    BY <1>1, <2>1, KeepAppend
  <2>4. Len(Append(k, UserText)) >= Len(k)
    BY <2>2
  <2>5. QED
    BY <2>1, <2>3, <2>4 DEF UserLines
<1>3. Said(Append(text, UserText)) = Said(text)
  <2>1. ToSet(Append(text, UserText)) = ToSet(text) \cup {UserText}
    BY <1>1, ToSetAppend
  <2>2. UserText \notin Blocks
    BY TokenKinds
  <2>3. QED
    BY <2>1, <2>2 DEF Said
<1>4. CASE Plainly(text)
  <2>1. Append(text, UserText) \in Users
    BY <1>4 DEF Plainly, Users
  <2>2. QED
    BY <1>2, <1>3, <2>1 DEF Shaped, Plainly
<1>5. ASSUME NEW body \in Blocks, Marked(text, body) PROVE Shaped(Append(text, UserText))
  <2>1. PICK a, b \in Users : text = With(a, body, b)
    BY <1>5 DEF Marked
  <2>2. PICK am : am = a \o Block(body)
    OBVIOUS
  <2>3. am \in Seq(Tokens) /\ b \in Seq(Tokens)
    BY <2>2, PlainType, BlockLines, Joined
  <2>4. am \o Append(b, UserText) = Append(am \o b, UserText)
    BY <1>1, <2>3
  <2>5. PICK c : c = Append(b, UserText)
    OBVIOUS
  <2>6. c \in Users
    BY <2>5 DEF Users
  <2>7. Append(text, UserText) = With(a, body, c)
    BY <2>1, <2>2, <2>4, <2>5 DEF With
  <2>8. QED
    BY <2>6, <2>7 DEF Shaped, Marked
<1>6. QED
  BY <1>2, <1>3, <1>4, <1>5 DEF Shaped

\* Of instructions that may be torn.
LEMMA UpsertType ==
  ASSUME NEW text \in Seq(Tokens), NEW block \in Seq(Tokens)
  PROVE  UpsertMarkedBlock(text, block) \in Seq(Tokens) /\ RemoveMarkedBlock(text) \in Seq(Tokens)
<1>1. FirstOf(text, "start") \in 0..Len(text) /\ FirstOf(text, "end") \in 0..Len(text) /\ Len(text) \in Nat
  BY First
<1>2. PICK m : m = FirstOf(text, "start") - 1
  OBVIOUS
<1>3. PICK n : n = FirstOf(text, "end") + 1
  OBVIOUS
<1>4. HasBlock(text) => SubSeq(text, 1, m) \in Seq(Tokens) /\ SubSeq(text, n, Len(text)) \in Seq(Tokens)
  BY <1>1, <1>2, <1>3
<1>5. HasBlock(text) => Before(text) \in Seq(Tokens) /\ After(text) \in Seq(Tokens)
  BY <1>2, <1>3, <1>4 DEF Before, After
<1>6. text \o block \in Seq(Tokens)
  OBVIOUS
<1>7. ASSUME NEW x \in Seq(Tokens), NEW y \in Seq(Tokens)
      PROVE  x \o block \o y \in Seq(Tokens) /\ x \o y \in Seq(Tokens)
  OBVIOUS
<1>8. QED
  BY <1>5, <1>6, <1>7 DEF UpsertMarkedBlock, RemoveMarkedBlock

-----------------------------------------------------------------------------
(* What a step does to the files.                                          *)

LEMMA Put ==
  ASSUME NEW D, NEW R, NEW m \in [D -> R], NEW x \in D, NEW v \in R, NEW n, n = [m EXCEPT ![x] = v]
  PROVE  n \in [D -> R] /\ n[x] = v /\ \A y \in D : y # x => n[y] = m[y]
  OBVIOUS

Filed ==
  /\ config \in [ConfigFiles -> ConfigFile \cup {NoFile}]
  /\ settings \in [1..Candidates -> Settings]
  /\ notes \in [NoteFiles -> Seq(Tokens)]
  /\ profile \in [Agents -> SUBSET (Skills \cup NoProfile \cup TornProfile)]
  /\ copies \in [Agents -> SUBSET Skills]
  /\ materialized \subseteq Skills
  /\ torn \subseteq ConfigFiles \cup NoteFiles

\* Which configuration changed, and why.
Edited(f, file) ==
  /\ pc \in {"idle", "confirm", "ask"} /\ edits' = edits + 1 /\ touched' = TRUE
  /\ torn' = torn \ {f}
  /\ file = IF config[f] = NoFile THEN Empty
            ELSE IF config[f].state = "whole" THEN [config[f] EXCEPT !.state = "broken"]
            ELSE [config[f] EXCEPT !.state = "whole", !.foreign = TRUE]
Migrated(f, file) ==
  /\ pc = "migrate" /\ pc' = "skills" /\ Target.legacy # NoPlace /\ f = Target.legacy.path
  /\ config[f] # NoFile /\ ReadJson(config[f]) /\ file = RemoveProxyEntry(config[f], Target.legacy.format)
  /\ torn' = torn
Injects(f, file) ==
  /\ pc = "inject" /\ pc' = "migrate" /\ f = Target.config /\ file = Inject(Target, config[f])
  /\ ValidateAgentMcpEntryRemoval(Target, config[f]) /\ torn' = torn
Removed(f, file) ==
  /\ pc = "entry" /\ pc' = "block" /\ f = Target.config /\ file = RemoveAgentMcpEntry(Target, config[f])
  /\ ValidateAgentMcpEntryRemoval(Target, config[f]) /\ torn' = torn
TornConfig(f, file) ==
  /\ pc \in {"inject", "entry", "migrate"} /\ outcome' = "killed" /\ config[f].state # "broken"
  /\ f \in {Target.config, Target.legacy.path} /\ torn' = torn \cup {f}
  /\ file \in ConfigFile /\ file.state # "whole"
ConfigChange(f, file) ==
  /\ config' = [config EXCEPT ![f] = file]
  /\ \/ Edited(f, file) \/ Migrated(f, file) \/ Injects(f, file) \/ Removed(f, file) \/ TornConfig(f, file)
ConfigMove ==
  \/ config' = config /\ torn \subseteq torn'
  \/ \E f \in ConfigFiles, file \in ConfigFile \cup {NoFile} : ConfigChange(f, file)

\* Which instructions.
Says(f, text) ==
  /\ pc = "notes" /\ f = Target.notes /\ torn' = torn
  /\ text = UpsertMarkedBlock(notes[f], RenderAgentCapabilityBlock)
Silences(f, text) ==
  pc = "block" /\ f = Target.notes /\ torn' = torn /\ text = RemoveMarkedBlock(notes[f])
Adds(f, text) ==
  pc \in {"idle", "confirm", "ask"} /\ touched' = TRUE /\ torn' = torn /\ text = Append(notes[f], UserText)
TornNote(f, text) == pc \in {"notes", "block"} /\ outcome' = "killed" /\ torn' = torn \cup {f}
NotesMove ==
  \/ notes' = notes /\ \A f \in NoteFiles : f \in torn => f \in torn'
  \/ \E f \in NoteFiles, text \in Seq(Tokens) :
       /\ notes' = [notes EXCEPT ![f] = text]
       /\ Says(f, text) \/ Silences(f, text) \/ Adds(f, text) \/ TornNote(f, text)

\* Which of Cline's settings.
Reset(i, file) ==
  \/ settings[i] = NoFile /\ file = NewSettings
  \/ settings[i] # NoFile /\ settings[i].entry # "current" /\ file = NoFile
  \/ \E s \in {"whole", "broken"} : settings[i] # NoFile /\ file = [settings[i] EXCEPT !.state = s]
SettingsMove ==
  \/ settings' = settings
  \/ \E i \in 1..Candidates, file \in Settings :
       /\ settings' = [settings EXCEPT ![i] = file]
       /\ \/ /\ pc = "offer" /\ settings[i] # NoFile /\ settings[i].state = "whole"
             /\ file = RemoveStaleEntries(UpsertClineGlobalEntry(settings[i]))
          \/ /\ pc = "unregister" /\ settings[i] # NoFile /\ settings[i].state = "whole"
             /\ file = RemoveClineGlobalEntry(settings[i])
          \/ /\ pc \in {"idle", "confirm", "ask"} /\ edits' = edits + 1 /\ touched' = TRUE
             /\ Reset(i, file)

ProfileMove ==
  \/ profile' = profile
  \/ \E list \in SUBSET (Skills \cup NoProfile \cup TornProfile) :
       /\ profile' = [profile EXCEPT ![Target.id] = list]
       /\ \/ pc = "profile" /\ pc' # "profile" /\ list = Authorized(Target.id)
          \/ pc = "forget"
          \/ pc = "profile" /\ outcome' = "killed"

LEMMA NamesApart ==
  ASSUME NEW f \in NoteFiles
  PROVE  f \notin ConfigFiles
<1> DEFINE S == {".mcp.json", "claude_desktop_config.json", ".cline/mcp.json", ".codex/config.toml", "maia.yaml",
                 ".continue/config.json", ".vscode/mcp.json", ".cursor/mcp.json", ".zed/settings.json", ""}
<1>1. NoPlace.path = ""
  BY DEF NoPlace
<1>2. \A t \in Registry : t.config \in S /\ t.legacy.path \in S
  <2>1. ASSUME NEW t \in Registry PROVE t.config \in S
    <3>1. t.config \in {Claude.config, Cline.config, Codex.config, Continue.config, Copilot.config,
                        Cursor.config, Zed.config}
      BY DEF Registry
    <3>2. {Claude.config, Cline.config, Codex.config, Continue.config, Copilot.config, Cursor.config, Zed.config}
            \subseteq {".mcp.json", ".cline/mcp.json", ".codex/config.toml", "maia.yaml", ".vscode/mcp.json",
                       ".cursor/mcp.json", ".zed/settings.json"}
      BY AgentRows
    <3>3. QED
      BY <3>1, <3>2
  <2>2. Codex.legacy = NoPlace /\ Copilot.legacy = NoPlace /\ Zed.legacy = NoPlace
    BY AgentRows
  <2>3. {Claude.legacy.path, Cline.legacy.path, Continue.legacy.path, Cursor.legacy.path}
          \subseteq {"claude_desktop_config.json", ".cline/mcp.json", ".continue/config.json", ".cursor/mcp.json"}
    BY AgentRows
  <2>4. ASSUME NEW t \in {Claude, Cline, Continue, Cursor} PROVE t.legacy.path \in S
    BY <2>3
  <2>5. ASSUME NEW t \in {Codex, Copilot, Zed} PROVE t.legacy.path \in S
    BY <1>1, <2>2
  <2>6. Registry = {Claude, Cline, Continue, Cursor} \cup {Codex, Copilot, Zed}
    BY DEF Registry
  <2>7. QED
    BY <2>1, <2>4, <2>5, <2>6
<1>3. f \in {"CLAUDE.md", ".clinerules/maia.md", "AGENTS.md", "copilot-instructions.md", "maia.mdc"}
  BY AgentRows DEF NoteFiles, Registry
<1>4. ConfigFiles \subseteq S
  <2> HIDE DEF S
  <2>1. QED
    BY <1>2 DEF ConfigFiles
<1>5. f \notin S
  BY <1>3
<1>6. QED
  BY <1>4, <1>5

\* What a step does to the files besides.
Quiet == config' = config /\ notes' = notes /\ settings' = settings /\ profile' = profile /\ torn' = torn
FileMove == ConfigMove /\ NotesMove /\ SettingsMove /\ ProfileMove
Entered == Working /\ Filed /\ locked \in Entries \cup {NoToolkit}

LEMMA QuietMoves ==
  ASSUME Quiet
  PROVE  FileMove
  BY DEF Quiet, FileMove, ConfigMove, NotesMove, SettingsMove, ProfileMove

LEMMA QuietActions ==
  ASSUME \/ \E names : AddAgents(names) \/ InitAgents(names) \/ RemoveAgents(names)
         \/ InitAgain
         \/ \E s : InstallSkill(s) \/ RemoveSkill(s)
         \/ ResolveClineRegistration
         \/ \E accepted \in BOOLEAN : AnswerOffer(accepted) \/ AnswerRemoval(accepted)
         \/ MaterializeAgentSkills \/ DropAgent
  PROVE  FileMove
<1>1. ASSUME NEW names, AddAgents(names) \/ InitAgents(names) \/ RemoveAgents(names) PROVE Quiet
  BY <1>1 DEF AddAgents, InitAgents, RemoveAgents, Begin, files, Quiet
<1>2. ASSUME InitAgain PROVE Quiet
  BY <1>2 DEF InitAgain, Begin, files, Quiet
<1>3. ASSUME NEW s, InstallSkill(s) \/ RemoveSkill(s) PROVE Quiet
  BY <1>3 DEF InstallSkill, RemoveSkill, Begin, files, Quiet
<1>4. ASSUME ResolveClineRegistration PROVE Quiet
  BY <1>4 DEF ResolveClineRegistration, files, history, Quiet
<1>5. ASSUME NEW accepted, AnswerOffer(accepted) \/ AnswerRemoval(accepted) PROVE Quiet
  BY <1>5 DEF AnswerOffer, AnswerRemoval, files, history, Quiet
<1>6. ASSUME MaterializeAgentSkills \/ DropAgent PROVE Quiet
  BY <1>6 DEF MaterializeAgentSkills, DropAgent, files, history, Quiet
<1>7. QED
  BY <1>1, <1>2, <1>3, <1>4, <1>5, <1>6, QuietMoves

LEMMA ProfileMoves ==
  ASSUME Entered, WriteProfile \/ RemoveProfile
  PROVE  FileMove
<1>1. Target \in Registry /\ Target.id \in Agents
  <2>1. pc \in AgentSteps
    BY DEF WriteProfile, RemoveProfile, AgentSteps, ConfigureSteps, RemovalSteps
  <2>2. QED
    BY <2>1, TargetType, AgentFields DEF Entered
<1>2. ConfigMove /\ NotesMove /\ SettingsMove
  BY DEF WriteProfile, RemoveProfile, history, ConfigMove, NotesMove, SettingsMove
<1>3. ASSUME WriteProfile PROVE ProfileMove
  <2>1. Authorized(Target.id) \in SUBSET (Skills \cup NoProfile \cup TornProfile)
    BY DEF Authorized, Entered, Working
  <2>2. pc = "profile" /\ pc' # "profile" /\ profile' = [profile EXCEPT ![Target.id] = Authorized(Target.id)]
    BY <1>3 DEF WriteProfile, Step
  <2>3. QED
    BY <2>1, <2>2 DEF ProfileMove
<1>4. ASSUME RemoveProfile PROVE ProfileMove
  BY <1>4 DEF RemoveProfile, ProfileMove
<1>5. QED
  BY <1>2, <1>3, <1>4 DEF FileMove

LEMMA TargetFile ==
  ASSUME Entered, pc \in AgentSteps
  PROVE  /\ Target \in Registry /\ Target.config \in ConfigFiles /\ Target.legacy.path \in ConfigFiles
         /\ Target.notes \in NoteFiles
         /\ config[Target.config] \in ConfigFile \cup {NoFile}
         /\ config[Target.legacy.path] \in ConfigFile \cup {NoFile}
         /\ notes[Target.notes] \in Seq(Tokens)
<1>1. /\ Target \in Registry /\ Target.config \in ConfigFiles /\ Target.legacy.path \in ConfigFiles
      /\ Target.notes \in NoteFiles
  BY TargetType, AgentFields DEF Entered
<1>2. QED
  BY <1>1 DEF Entered, Filed

LEMMA ConfigMoves ==
  ASSUME Entered, InjectAgentConfig \/ MigrateLegacyProxyLocations \/ RemoveEntry
  PROVE  FileMove
<1>1. NotesMove /\ SettingsMove /\ ProfileMove
  BY DEF InjectAgentConfig, MigrateLegacyProxyLocations, RemoveEntry, history, NotesMove, SettingsMove, ProfileMove
<1>2. pc \in AgentSteps
  BY DEF InjectAgentConfig, MigrateLegacyProxyLocations, RemoveEntry, AgentSteps, ConfigureSteps, RemovalSteps
<1> DEFINE c == config[Target.config]
           l == config[Target.legacy.path]
<1>3. /\ Target \in Registry /\ Target.config \in ConfigFiles /\ Target.legacy.path \in ConfigFiles
      /\ c \in ConfigFile \cup {NoFile} /\ l \in ConfigFile \cup {NoFile}
  BY <1>2, TargetFile
<1>4. ASSUME InjectAgentConfig PROVE ConfigMove
  <2>1. torn' = torn
    BY <1>4 DEF InjectAgentConfig, history
  <2>2. ASSUME config' # config
        PROVE  config' = [config EXCEPT ![Target.config] = Inject(Target, c)] /\ Injects(Target.config, Inject(Target, c))
    BY <1>4, <2>1, <2>2 DEF InjectAgentConfig, Injects
  <2>3. Inject(Target, c) \in ConfigFile \cup {NoFile}
    BY <1>3, Injected DEF Alike, Whole
  <2>4. QED
    BY <1>3, <2>1, <2>2, <2>3 DEF ConfigMove, ConfigChange
<1>5. ASSUME RemoveEntry PROVE ConfigMove
  <2>1. torn' = torn
    BY <1>5 DEF RemoveEntry, history
  <2>2. ASSUME config' # config
        PROVE  /\ config' = [config EXCEPT ![Target.config] = RemoveAgentMcpEntry(Target, c)]
               /\ Removed(Target.config, RemoveAgentMcpEntry(Target, c))
    BY <1>5, <2>1, <2>2 DEF RemoveEntry, Removed, Step
  <2>3. RemoveAgentMcpEntry(Target, c) \in ConfigFile \cup {NoFile}
    BY <1>3, AgentRemoved DEF Alike
  <2>4. QED
    BY <1>3, <2>1, <2>2, <2>3 DEF ConfigMove, ConfigChange
<1>6. ASSUME MigrateLegacyProxyLocations PROVE ConfigMove
  <2>1. torn' = torn
    BY <1>6 DEF MigrateLegacyProxyLocations, history
  <2>2. ASSUME config' # config
        PROVE  /\ config' = [config EXCEPT ![Target.legacy.path] = RemoveProxyEntry(l, Target.legacy.format)]
               /\ Migrated(Target.legacy.path, RemoveProxyEntry(l, Target.legacy.format))
               /\ Target.legacy # NoPlace /\ l # NoFile
    BY <1>6, <2>1, <2>2 DEF MigrateLegacyProxyLocations, Migrated, Step
  <2>3. Target.legacy # NoPlace /\ l # NoFile => RemoveProxyEntry(l, Target.legacy.format) \in ConfigFile
    BY <1>3, ProxyRemoved DEF Alike
  <2>4. QED
    BY <1>3, <2>1, <2>2, <2>3 DEF ConfigMove, ConfigChange
<1>7. QED
  BY <1>1, <1>4, <1>5, <1>6 DEF FileMove

LEMMA RenderType ==
  ASSUME Entered, pc \in AgentSteps
  PROVE  RenderAgentCapabilityBlock \in Seq(Tokens)
<1> DEFINE b == RenderAgentCapabilityBlock[2]
<1>1. b \in Blocks /\ RenderAgentCapabilityBlock = <<Start, b, End>>
  BY BlockType DEF Entered
<1> HIDE DEF b
<1>2. Start \in Tokens /\ End \in Tokens /\ b \in Tokens
  BY <1>1 DEF Tokens
<1>3. QED
  BY <1>1, <1>2

LEMMA NotesMoves ==
  ASSUME Entered, WriteAgentInstructions \/ RemoveBlock
  PROVE  FileMove
<1>1. ConfigMove /\ SettingsMove /\ ProfileMove
  BY DEF WriteAgentInstructions, RemoveBlock, history, ConfigMove, SettingsMove, ProfileMove
<1>2. pc \in AgentSteps
  BY DEF WriteAgentInstructions, RemoveBlock, AgentSteps, ConfigureSteps, RemovalSteps
<1>3. Target.notes \in NoteFiles /\ notes[Target.notes] \in Seq(Tokens) /\ RenderAgentCapabilityBlock \in Seq(Tokens)
  BY <1>2, TargetFile, RenderType
<1> DEFINE new == UpsertMarkedBlock(notes[Target.notes], RenderAgentCapabilityBlock)
           old == RemoveMarkedBlock(notes[Target.notes])
<1>4. new \in Seq(Tokens) /\ old \in Seq(Tokens)
  BY <1>3, UpsertType
<1>5. ASSUME WriteAgentInstructions PROVE notes' = [notes EXCEPT ![Target.notes] = new] /\ Says(Target.notes, new)
  BY <1>5 DEF WriteAgentInstructions, Says, history
<1>6. ASSUME RemoveBlock PROVE notes' = [notes EXCEPT ![Target.notes] = old] /\ Silences(Target.notes, old)
  BY <1>6 DEF RemoveBlock, Silences, history
<1> HIDE DEF new, old
<1>7. NotesMove
  BY <1>3, <1>4, <1>5, <1>6 DEF NotesMove
<1>8. QED
  BY <1>1, <1>7 DEF FileMove

LEMMA HeadIn ==
  ASSUME NEW T, NEW list \in Seq(T), list # <<>>
  PROVE  Head(list) \in T /\ Tail(list) \in Seq(T)
  OBVIOUS

LEMMA LeftType ==
  ASSUME Working, task.left # <<>>
  PROVE  Head(task.left) \in 1..Candidates /\ Tail(task.left) \in Seq(1..Candidates)
<1> DEFINE list == task.left
<1>1. list \in Seq(1..Candidates)
  BY DEF Working, Tasks
<1>2. list # <<>>
  OBVIOUS
<1> HIDE DEF list
<1>3. Head(list) \in 1..Candidates /\ Tail(list) \in Seq(1..Candidates)
  BY <1>1, <1>2, HeadIn
<1>4. QED
  BY <1>3 DEF list

LEMMA SettingsMoves ==
  ASSUME Entered, OfferClineGlobalRegistration \/ RemoveClineGlobalRegistration
  PROVE  FileMove
<1>1. ConfigMove /\ NotesMove /\ ProfileMove
  BY DEF OfferClineGlobalRegistration, RemoveClineGlobalRegistration, history, ConfigMove, NotesMove, ProfileMove
<1> DEFINE i == Head(task.left)
           up == RemoveStaleEntries(UpsertClineGlobalEntry(settings[i]))
           out == RemoveClineGlobalEntry(settings[i])
<1>2. task.left # <<>> => i \in 1..Candidates
  BY LeftType DEF Entered
<1>3. ASSUME task.left # <<>>
      PROVE  settings[i] \in Settings /\ (settings[i] # NoFile => up \in Settings /\ out \in Settings)
             /\ NoFile.state # "whole"
             /\ (settings[i] # NoFile => settings[i].state \in {"whole", "broken"})
  <2>1. settings[i] \in Settings
    BY <1>2, <1>3 DEF Entered, Filed
  <2>2. NoFile.state # "whole"
    BY DEF NoFile
  <2> HIDE DEF i
  <2>3. QED
    BY <2>1, <2>2, SettingsSet, SettingsFields
<1>4. ASSUME OfferClineGlobalRegistration, settings' # settings
      PROVE  /\ task.left # <<>> /\ settings[i] # NoFile /\ settings[i].state # "broken" /\ pc = "offer"
             /\ settings' = [settings EXCEPT ![i] = up]
  BY <1>4 DEF OfferClineGlobalRegistration, Invalid
<1>5. ASSUME RemoveClineGlobalRegistration, settings' # settings
      PROVE  /\ task.left # <<>> /\ settings[i].state = "whole" /\ pc = "unregister"
             /\ settings' = [settings EXCEPT ![i] = out]
  BY <1>5 DEF RemoveClineGlobalRegistration
<1> HIDE DEF i
<1>6. ASSUME OfferClineGlobalRegistration PROVE SettingsMove
  BY <1>2, <1>3, <1>4, <1>6 DEF SettingsMove
<1>7. ASSUME RemoveClineGlobalRegistration PROVE SettingsMove
  BY <1>2, <1>3, <1>5, <1>7 DEF SettingsMove
<1>8. QED
  BY <1>1, <1>6, <1>7 DEF FileMove

LEMMA ResetType ==
  ASSUME NEW i, settings[i] \in Settings, NEW file, Reset(i, file)
  PROVE  /\ file \in Settings
         /\ settings[i] = NoFile /\ file # NoFile => file.foreign
         /\ settings[i] # NoFile /\ file # NoFile => file.foreign = settings[i].foreign /\ file.entry = settings[i].entry
<1> DEFINE c == settings[i]
           Good == /\ file \in Settings
                   /\ c = NoFile /\ file # NoFile => file.foreign
                   /\ c # NoFile /\ file # NoFile => file.foreign = c.foreign /\ file.entry = c.entry
<1>1. c \in Settings /\ NoFile \in Settings
  BY DEF Settings
<1>2. \/ c = NoFile /\ file = NewSettings
      \/ file = NoFile
      \/ \E s \in {"whole", "broken"} : c # NoFile /\ file = [c EXCEPT !.state = s]
  BY DEF Reset
<1> HIDE DEF c
<1>3. ASSUME c = NoFile, file = NewSettings PROVE Good
  BY <1>3, NewSettingsType
<1>4. ASSUME file = NoFile PROVE Good
  BY <1>1, <1>4
<1>5. ASSUME c # NoFile, NEW s \in {"whole", "broken"}, file = [c EXCEPT !.state = s] PROVE Good
  BY <1>1, <1>5, SettingsSet
<1> HIDE DEF Good
<1>6. Good
  BY <1>2, <1>3, <1>4, <1>5
<1>7. QED
  BY <1>6 DEF Good, c

LEMMA EditMoves ==
  ASSUME Entered, \/ \E f \in ConfigFiles : EditConfig(f)
                  \/ \E i \in 1..Candidates : EditSettings(i)
                  \/ \E f \in NoteFiles : EditNotes(f)
  PROVE  FileMove
<1>1. ASSUME NEW f \in ConfigFiles, EditConfig(f) PROVE FileMove
  <2> DEFINE c == config[f]
             file == IF c = NoFile THEN Empty
                     ELSE IF c.state = "whole" THEN [c EXCEPT !.state = "broken"]
                     ELSE [c EXCEPT !.state = "whole", !.foreign = TRUE]
  <2>1. c \in ConfigFile \cup {NoFile} /\ Empty \in ConfigFile
    BY EmptyWhole DEF Entered, Filed, Whole
  <2>2. file \in ConfigFile
    <3>1. \A d \in ConfigFile : [d EXCEPT !.state = "broken"] \in ConfigFile
                                /\ [d EXCEPT !.state = "whole", !.foreign = TRUE] \in ConfigFile
      BY StateSet
    <3> HIDE DEF c
    <3>2. QED
      BY <2>1, <3>1
  <2>3. config' = [config EXCEPT ![f] = file]
    BY <1>1 DEF EditConfig
  <2>4. Edited(f, file)
    BY <1>1 DEF EditConfig, EditFile, Edited
  <2> HIDE DEF file
  <2>5. ConfigMove
    BY <2>2, <2>3, <2>4 DEF ConfigMove, ConfigChange
  <2>6. notes' = notes /\ settings' = settings /\ profile' = profile /\ torn' = torn \ {f}
    BY <1>1 DEF EditConfig, EditFile
  <2>7. \A g \in NoteFiles : g \in torn => g \in torn'
    BY <2>6, NamesApart
  <2>8. QED
    BY <2>5, <2>6, <2>7 DEF FileMove, NotesMove, SettingsMove, ProfileMove
<1>2. ASSUME NEW i \in 1..Candidates, EditSettings(i) PROVE FileMove
  <2>1. config' = config /\ notes' = notes /\ profile' = profile /\ torn' = torn
        /\ pc \in {"idle", "confirm", "ask"} /\ edits' = edits + 1 /\ touched' = TRUE
    BY <1>2 DEF EditSettings, EditFile
  <2>2. PICK file : settings' = [settings EXCEPT ![i] = file] /\ Reset(i, file)
    BY <1>2 DEF EditSettings, Reset
  <2>3. file \in Settings
    <3>1. settings[i] \in Settings /\ NewSettings \in Settings /\ NoFile \in Settings
      BY NewSettingsType DEF Entered, Filed, Settings
    <3>2. QED
      BY <2>2, <3>1, ResetType
  <2>4. /\ pc \in {"idle", "confirm", "ask"} /\ edits' = edits + 1 /\ touched' = TRUE /\ Reset(i, file)
        /\ settings' = [settings EXCEPT ![i] = file]
    BY <2>1, <2>2
  <2>5. SettingsMove
    BY <2>3, <2>4, Zenon DEF SettingsMove
  <2>6. QED
    BY <2>1, <2>5 DEF FileMove, ConfigMove, NotesMove, ProfileMove
<1>3. ASSUME NEW f \in NoteFiles, EditNotes(f) PROVE FileMove
  <2>1. config' = config /\ settings' = settings /\ profile' = profile /\ torn' = torn
    BY <1>3 DEF EditNotes, EditFile
  <2> DEFINE text == Append(notes[f], UserText)
  <2>2. text \in Seq(Tokens)
    BY TokenKinds DEF Entered, Filed
  <2>3. notes' = [notes EXCEPT ![f] = text] /\ Adds(f, text)
    BY <1>3, <2>1 DEF EditNotes, EditFile, Adds
  <2> HIDE DEF text
  <2>4. NotesMove
    BY <2>2, <2>3 DEF NotesMove
  <2>5. QED
    BY <2>1, <2>4 DEF FileMove, ConfigMove, SettingsMove, ProfileMove
<1>4. QED
  BY <1>1, <1>2, <1>3

LEMMA CutType ==
  ASSUME NEW text \in Seq(Tokens), NEW n \in 0..(Len(text) - 1)
  PROVE  SubSeq(text, 1, n) \in Seq(Tokens)
  OBVIOUS

LEMMA TornFile ==
  ASSUME NEW s \in {"cut", "broken"}
  PROVE  /\ [Empty EXCEPT !.state = s, !.foreign = FALSE] \in ConfigFile
         /\ [Empty EXCEPT !.state = s, !.foreign = FALSE].state # "whole"
  BY EmptyWhole, StateSet DEF Whole

LEMMA KillMoves ==
  ASSUME Entered, Kill
  PROVE  FileMove
<1>1. pc \in AgentSteps
  BY DEF Kill, Entered, Working
<1>2. /\ Target \in Registry /\ Target.config \in ConfigFiles /\ Target.legacy.path \in ConfigFiles
      /\ Target.notes \in NoteFiles /\ notes[Target.notes] \in Seq(Tokens)
      /\ RenderAgentCapabilityBlock \in Seq(Tokens)
  BY <1>1, TargetFile, RenderType
<1>3. outcome' = "killed"
  BY DEF Kill
<1>4. ASSUME NEW path \in {Target.config, Target.legacy.path}, TearConfig(path), config[path].state # "broken",
             pc \in {"inject", "entry", "migrate"}
      PROVE  FileMove
  <2>1. notes' = notes /\ settings' = settings /\ profile' = profile /\ path \in ConfigFiles
        /\ torn \subseteq torn'
    BY <1>2, <1>4 DEF TearConfig
  <2>2. ASSUME config' # config
        PROVE  \E file \in ConfigFile : /\ config' = [config EXCEPT ![path] = file] /\ torn' = torn \cup {path}
                                       /\ file.state # "whole"
    <3>1. PICK s \in {"cut", "broken"} : config' = [config EXCEPT ![path] = [Empty EXCEPT !.state = s, !.foreign = FALSE]]
      BY <1>4, <2>2 DEF TearConfig, TornConfigs
    <3>2. PICK file : file = [Empty EXCEPT !.state = s, !.foreign = FALSE]
      OBVIOUS
    <3>3. file \in ConfigFile /\ file.state # "whole"
      BY <3>2, TornFile
    <3>4. torn' = torn \cup {path}
      BY <1>4, <2>2 DEF TearConfig
    <3>5. QED
      BY <3>1, <3>2, <3>3, <3>4
  <2>3. ConfigMove
    <3>1. CASE config' = config
      BY <2>1, <3>1 DEF ConfigMove
    <3>2. CASE config' # config
      <4>1. PICK file \in ConfigFile : /\ config' = [config EXCEPT ![path] = file] /\ torn' = torn \cup {path}
                                      /\ file.state # "whole"
        BY <2>2, <3>2
      <4>2. TornConfig(path, file)
        BY <1>3, <1>4, <4>1 DEF TornConfig
      <4>3. QED
        BY <2>1, <4>1, <4>2 DEF ConfigMove, ConfigChange
    <3>3. QED
      BY <3>1, <3>2
  <2>4. QED
    BY <2>1, <2>3 DEF FileMove, NotesMove, SettingsMove, ProfileMove
<1>5. ASSUME NEW next \in Seq(Tokens), TearNotes(Target.notes, next), pc \in {"notes", "block"}
      PROVE  FileMove
  <2>1. config' = config /\ settings' = settings /\ profile' = profile /\ torn \subseteq torn'
    BY <1>5 DEF TearNotes
  <2>2. ASSUME notes' # notes
        PROVE  \E text \in Seq(Tokens) : notes' = [notes EXCEPT ![Target.notes] = text] /\ torn' = torn \cup {Target.notes}
    BY <1>5, <2>2, CutType DEF TearNotes, TornNotes
  <2>3. NotesMove
    <3>1. CASE notes' = notes
      BY <2>1, <3>1 DEF NotesMove
    <3>2. CASE notes' # notes
      <4>1. PICK text \in Seq(Tokens) : notes' = [notes EXCEPT ![Target.notes] = text] /\ torn' = torn \cup {Target.notes}
        BY <2>2, <3>2
      <4>2. TornNote(Target.notes, text)
        BY <1>3, <1>5, <4>1 DEF TornNote
      <4>3. QED
        BY <1>2, <4>1, <4>2 DEF NotesMove
    <3>3. QED
      BY <3>1, <3>2
  <2>4. QED
    BY <2>1, <2>3 DEF FileMove, ConfigMove, SettingsMove, ProfileMove
<1>6. ASSUME profile' = [profile EXCEPT ![Target.id] = TornProfile], pc = "profile",
             UNCHANGED <<config, settings, notes, torn>>
      PROVE  FileMove
  <2>1. TornProfile \in SUBSET (Skills \cup NoProfile \cup TornProfile)
    OBVIOUS
  <2>2. ProfileMove
    BY <1>3, <1>6, <2>1 DEF ProfileMove
  <2>3. QED
    BY <1>6, <2>2 DEF FileMove, ConfigMove, SettingsMove, NotesMove
<1>7. UpsertMarkedBlock(notes[Target.notes], RenderAgentCapabilityBlock) \in Seq(Tokens)
      /\ RemoveMarkedBlock(notes[Target.notes]) \in Seq(Tokens)
  BY <1>2, UpsertType
<1>8. \/ pc \in {"inject", "entry"} /\ config[Target.config].state # "broken"
         /\ TearConfig(Target.config)
      \/ pc = "migrate" /\ config[Target.legacy.path].state = "whole"
         /\ TearConfig(Target.legacy.path)
      \/ pc = "notes"
         /\ TearNotes(Target.notes, UpsertMarkedBlock(notes[Target.notes], RenderAgentCapabilityBlock))
      \/ pc = "block" /\ TearNotes(Target.notes, RemoveMarkedBlock(notes[Target.notes]))
      \/ pc = "profile" /\ profile' = [profile EXCEPT ![Target.id] = TornProfile]
         /\ UNCHANGED <<config, settings, notes, torn>>
      \/ Quiet
  BY DEF Kill, files, Quiet
<1>9. QED
  BY <1>4, <1>5, <1>6, <1>7, <1>8, QuietMoves

LEMMA AgentMoves ==
  ASSUME Entered, AgentNext
  PROVE  FileMove
<1>1. CASE AgentCommand
  BY <1>1, QuietActions DEF AgentCommand
<1>2. CASE ConfigureStep
  BY <1>2, QuietActions, ProfileMoves, ConfigMoves, NotesMoves, SettingsMoves DEF ConfigureStep
<1>3. CASE RemovalStep
  BY <1>3, QuietActions, ProfileMoves, ConfigMoves, NotesMoves, SettingsMoves DEF RemovalStep
<1>4. QED
  BY <1>1, <1>2, <1>3, EditMoves, KillMoves DEF AgentNext

-----------------------------------------------------------------------------
(* The loop over the agents.                                               *)

Bound == Entered /\ agents \in Seq(AgentNames)

LEMMA NextTarget ==
  ASSUME Working, pc \in AgentSteps, NEW k,
         \/ k = [task EXCEPT !.todo = Tail(@)]
         \/ k = [task EXCEPT !.todo = Tail(@), !.status = NoStatus]
  PROVE  k \in Tasks /\ k.todo = Tail(task.todo) /\ (Len(task.todo) # 1 => k.todo # <<>>)
<1> DEFINE x == Tail(task.todo)
<1>1. x \in Seq(Registry) /\ (Len(task.todo) # 1 => x # <<>>) /\ task \in Tasks
  BY TargetType DEF Working
<1>2. k = [task EXCEPT !.todo = x] \/ k = [task EXCEPT !.todo = x, !.status = NoStatus]
  OBVIOUS
<1> HIDE DEF x
<1>3. NoStatus \in Statuses
  BY DEF Statuses
<1>4. k \in Tasks /\ k.todo = x
  BY <1>1, <1>2, <1>3 DEF Tasks
<1>5. QED
  BY <1>1, <1>4 DEF x

LEMMA StepWorks ==
  ASSUME Working, NEW next, pc \in AgentSteps, Step(next), next \in AgentSteps
  PROVE  Working'
  BY DEF Working, Step, AgentSteps

LEMMA AbortWorks ==
  ASSUME Working, Abort
  PROVE  Working' /\ pc' = "idle"
<1>1. task' \in Tasks /\ task'.todo = <<>>
  BY NoTaskType DEF Abort
<1>2. {t.id : t \in ToSet(task.todo)} \subseteq Agents /\ task.undo \in SUBSET Skills
  BY TodoIds DEF Working, Tasks
<1>3. pc' = "idle" /\ outcome' = "failed" /\ installed' = installed \cup task.undo
      /\ unsettled' = unsettled \cup (IF task.undo = {} THEN {t.id : t \in ToSet(task.todo)} ELSE Agents)
  BY DEF Abort
<1>4. "idle" \notin AgentSteps
  BY DEF AgentSteps, ConfigureSteps, RemovalSteps
<1>5. QED
  BY <1>1, <1>2, <1>3, <1>4 DEF Working

LEMMA IdleWorks ==
  ASSUME Working, pc' = "idle", task' = NoTask, outcome' \in {"none", "ok", "failed", "killed"},
         unsettled' \in SUBSET Agents, installed' \in SUBSET Skills
  PROVE  Working'
  BY NoTaskType DEF Working, AgentSteps, ConfigureSteps, RemovalSteps

LEMMA StartWorks ==
  ASSUME task' \in Tasks, outcome' \in {"none", "failed", "ok"}, unsettled' \in SUBSET Agents,
         installed' \in SUBSET Skills,
         \/ pc' = "profile" /\ task'.todo # <<>>
         \/ pc' = "idle" /\ task'.todo = <<>>
  PROVE  Working'
  BY DEF Working, AgentSteps, ConfigureSteps, RemovalSteps

LEMMA CommandsWork ==
  ASSUME Bound, AgentCommand
  PROVE  Working'
<1>1. unsettled \in SUBSET Agents /\ installed \in SUBSET Skills
  BY DEF Bound, Entered, Working
<1>2. ASSUME NEW names \in Requests, AddAgents(names) \/ InitAgents(names) PROVE Working'
  <2>1. names \in Seq(STRING) /\ {} \in SUBSET Skills
    BY AgentAssumption
  <2>2. Configure(names, TRUE, {}) /\ installed' = installed
    BY <1>2 DEF AddAgents, InitAgents
  <2>3. QED
    BY <1>1, <2>1, <2>2, ConfigureType, StartWorks
<1>3. ASSUME InitAgain PROVE Working'
  <2>1. RestoreConfiguredAgents(TRUE, {}) /\ installed' = installed /\ {} \in SUBSET Skills
    BY <1>3 DEF InitAgain, records
  <2>2. QED
    BY <1>1, <2>1, RestoreType, StartWorks DEF Bound
<1>4. ASSUME NEW s \in Skills, InstallSkill(s) PROVE Working'
  <2>1. RestoreConfiguredAgents(FALSE, {}) /\ installed' \in SUBSET Skills /\ {} \in SUBSET Skills
    BY <1>1, <1>4 DEF InstallSkill
  <2>2. QED
    BY <1>1, <2>1, RestoreType, StartWorks DEF Bound
<1>5. ASSUME NEW s \in Skills, RemoveSkill(s) PROVE Working'
  <2>1. RestoreConfiguredAgents(FALSE, {s}) /\ installed' \in SUBSET Skills /\ {s} \in SUBSET Skills
    BY <1>1, <1>5 DEF RemoveSkill
  <2>2. QED
    BY <1>1, <2>1, RestoreType, StartWorks DEF Bound
<1>6. ASSUME NEW names \in Requests, RemoveAgents(names) PROVE Working'
  <2>1. installed' = installed /\ pc = "idle" /\ task \in Tasks /\ task.todo = <<>>
    BY <1>6 DEF RemoveAgents, Begin, records, Bound, Entered, Working, AgentSteps, ConfigureSteps, RemovalSteps
  <2>2. ASSUME StartRemoval(Selected(names)), Resolvable(names), Selected(names) # <<>> PROVE Working'
    <3>1. Selected(names) \in Seq(Registry)
      BY <2>2, AgentAssumption, SelectedType
    <3> DEFINE x == Selected(names)
    <3>2. task' = [NoTask EXCEPT !.todo = x] /\ pc' = "drop" /\ outcome' = "none" /\ unsettled' = unsettled
      BY <2>2 DEF StartRemoval
    <3>3. x \in Seq(Registry) /\ x # <<>>
      BY <2>2, <3>1
    <3> HIDE DEF x
    <3>4. task' \in Tasks /\ task'.todo = x
      BY <3>2, <3>3, NoTaskType DEF Tasks
    <3>5. QED
      BY <1>1, <2>1, <3>2, <3>3, <3>4 DEF Working, AgentSteps, RemovalSteps
  <2>3. ASSUME RefuseRemoval PROVE Working'
    BY <1>1, <2>1, <2>3 DEF RefuseRemoval, Working, Bound, Entered
  <2>4. ASSUME Finish PROVE Working'
    BY <1>1, <2>1, <2>4, IdleWorks DEF Finish, Bound, Entered
  <2>5. QED
    BY <1>6, <2>2, <2>3, <2>4 DEF RemoveAgents
<1>7. QED
  BY <1>2, <1>3, <1>4, <1>5, <1>6 DEF AgentCommand

\* What a step of the loop makes of the locals of the command.
Advance ==
  /\ task' \in Tasks /\ installed' = installed /\ unsettled' \in SUBSET Agents
  /\ outcome' \in {outcome, "ok"}
  /\ \/ pc' \in AgentSteps /\ task'.todo # <<>>
     \/ pc' = "idle" /\ task'.todo = <<>>

LEMMA AdvanceWorks ==
  ASSUME Working, Advance
  PROVE  Working'
  BY DEF Working, Advance, AgentSteps, ConfigureSteps, RemovalSteps

LEMMA ConfigureWorks ==
  ASSUME Bound, ConfigureStep
  PROVE  Working'
<1>1. Working /\ task \in Tasks /\ unsettled \in SUBSET Agents /\ settings \in [1..Candidates -> Settings]
  BY DEF Bound, Entered, Working, Filed
<1>2. \A s \in ConfigureSteps \cup RemovalSteps : s \in AgentSteps
  BY DEF AgentSteps
<1>3. "registered" \in Statuses /\ "pending" \in Statuses /\ NoStatus \in Statuses
  BY DEF Statuses
<1>4. ASSUME WriteProfile PROVE Working'
  BY <1>1, <1>2, <1>4, StepWorks DEF WriteProfile, ConfigureSteps
<1>5. ASSUME InjectAgentConfig PROVE Working'
  <2>1. CASE Abort
    BY <1>1, <2>1, AbortWorks
  <2>2. CASE ~Abort
    <3>1. task' = [task EXCEPT !.status = "registered"] /\ pc' = "migrate" /\ pc = "inject"
          /\ UNCHANGED <<outcome, installed, unsettled>>
      BY <1>5, <2>2 DEF InjectAgentConfig
    <3>2. task.todo # <<>>
      BY <1>1, <3>1 DEF Working, AgentSteps, ConfigureSteps
    <3>3. task' \in Tasks /\ task'.todo = task.todo
      BY <1>1, <1>3, <3>1 DEF Tasks
    <3>4. Advance
      BY <1>1, <3>1, <3>2, <3>3 DEF Advance, AgentSteps, ConfigureSteps
    <3>5. QED
      BY <1>1, <3>4, AdvanceWorks
  <2>3. QED
    BY <2>1, <2>2
<1>6. ASSUME ResolveClineRegistration PROVE Working'
  <2> DEFINE ask == task.offering /\ Existing # <<>> /\ FirstTelling = 0
             l == IF ask THEN Existing ELSE <<>>
             s == IF ClineRegistered THEN "registered" ELSE "pending"
  <2>1. /\ task' = [task EXCEPT !.left = l, !.status = s] /\ pc' \in {"confirm", "migrate"} /\ pc = "resolve"
        /\ UNCHANGED <<outcome, installed, unsettled>>
    BY <1>6 DEF ResolveClineRegistration, records
  <2>2. l \in Seq(1..Candidates) /\ s \in Statuses
    <3> HIDE DEF ask
    <3>1. Existing \in Seq(1..Candidates) /\ <<>> \in Seq(1..Candidates)
      BY <1>1, ExistingType
    <3>2. l \in {Existing, <<>>} /\ s \in {"registered", "pending"}
      OBVIOUS
    <3> HIDE DEF l, s
    <3>3. QED
      BY <1>3, <3>1, <3>2
  <2> HIDE DEF l, s, ask
  <2>3. task' \in Tasks /\ task'.todo = task.todo
    <3>1. \A k \in Tasks : [k EXCEPT !.left = l, !.status = s] \in Tasks
                          /\ [k EXCEPT !.left = l, !.status = s].todo = k.todo
      BY <2>2 DEF Tasks
    <3>2. QED
      BY <1>1, <2>1, <3>1
  <2>4. task.todo # <<>>
    BY <1>1, <2>1 DEF Working, AgentSteps, ConfigureSteps
  <2>5. Advance
    BY <1>1, <2>1, <2>3, <2>4 DEF Advance, AgentSteps, ConfigureSteps
  <2>6. QED
    BY <1>1, <2>5, AdvanceWorks
<1>7. ASSUME NEW accepted, AnswerOffer(accepted) PROVE Working'
  <2>1. pc = "confirm" /\ pc' \in {"offer", "migrate"} /\ UNCHANGED <<task, outcome, installed, unsettled>>
    BY <1>7 DEF AnswerOffer, records
  <2>2. Advance
    BY <1>1, <2>1 DEF Advance, Working, AgentSteps, ConfigureSteps
  <2>3. QED
    BY <1>1, <2>2, AdvanceWorks
<1>8. ASSUME OfferClineGlobalRegistration PROVE Working'
  <2> DEFINE rest == Tail(task.left)
  <2>1. /\ pc = "offer" /\ pc' \in {"offer", "migrate"} /\ UNCHANGED <<outcome, installed, unsettled>>
        /\ \/ task' = task
           \/ task.left # <<>> /\ task' = [task EXCEPT !.left = rest]
           \/ task' = [task EXCEPT !.left = <<>>, !.status = "pending"]
           \/ task.left # <<>> /\ task' = [task EXCEPT !.left = rest, !.status = "registered"]
    BY <1>8 DEF OfferClineGlobalRegistration, records
  <2>2. task.left # <<>> => rest \in Seq(1..Candidates)
    BY <1>1, LeftType
  <2>3. <<>> \in Seq(1..Candidates)
    OBVIOUS
  <2> HIDE DEF rest
  <2>4. task' \in Tasks /\ task'.todo = task.todo
    BY <1>1, <1>3, <2>1, <2>2, <2>3 DEF Tasks
  <2>5. Advance
    BY <1>1, <2>1, <2>4 DEF Advance, Working, AgentSteps, ConfigureSteps
  <2>6. QED
    BY <1>1, <2>5, AdvanceWorks
<1>9. ASSUME MigrateLegacyProxyLocations PROVE Working'
  <2>1. CASE Abort
    BY <1>1, <2>1, AbortWorks
  <2>2. CASE Step("skills") /\ pc = "migrate"
    BY <1>1, <1>2, <2>2, StepWorks DEF ConfigureSteps
  <2>3. QED
    BY <1>9, <2>1, <2>2 DEF MigrateLegacyProxyLocations
<1>10. ASSUME MaterializeAgentSkills PROVE Working'
  BY <1>1, <1>2, <1>10, StepWorks DEF MaterializeAgentSkills, ConfigureSteps
<1>11. ASSUME WriteAgentInstructions PROVE Working'
  <2>1. pc = "notes" /\ pc \in AgentSteps /\ installed' = installed /\ unsettled' \in SUBSET Agents
    BY <1>1, <1>2, <1>11 DEF WriteAgentInstructions, ConfigureSteps, records
  <2>2. \/ pc' = "idle" /\ task' = NoTask /\ outcome' = "ok"
        \/ Len(task.todo) # 1 /\ pc' = "profile" /\ task' = [task EXCEPT !.todo = Tail(@), !.status = NoStatus]
           /\ outcome' = outcome
    BY <1>11 DEF WriteAgentInstructions
  <2>3. /\ task' \in Tasks
        /\ \/ pc' = "idle" /\ task'.todo = <<>>
           \/ pc' = "profile" /\ task'.todo # <<>>
    <3>1. CASE task' = NoTask /\ pc' = "idle"
      BY <3>1, NoTaskType
    <3>2. CASE Len(task.todo) # 1 /\ pc' = "profile" /\ task' = [task EXCEPT !.todo = Tail(@), !.status = NoStatus]
      <4>1. PICK k : k = [task EXCEPT !.todo = Tail(@), !.status = NoStatus]
        OBVIOUS
      <4>2. k \in Tasks /\ k.todo # <<>>
        BY <1>1, <2>1, <3>2, <4>1, NextTarget
      <4>3. QED
        BY <3>2, <4>1, <4>2
    <3>3. QED
      BY <2>2, <3>1, <3>2
  <2>4. Advance
    BY <2>1, <2>2, <2>3 DEF Advance, AgentSteps, ConfigureSteps
  <2>5. QED
    BY <1>1, <2>4, AdvanceWorks
<1>12. QED
  BY <1>4, <1>5, <1>6, <1>7, <1>8, <1>9, <1>10, <1>11 DEF ConfigureStep

LEMMA NextRemovalAdvances ==
  ASSUME Working, pc \in AgentSteps, NextRemoval, installed' = installed, unsettled' = unsettled
  PROVE  Advance
<1>1. \/ pc' = "idle" /\ task' = NoTask /\ outcome' = "ok"
      \/ Len(task.todo) # 1 /\ pc' = "drop" /\ task' = [task EXCEPT !.todo = Tail(@)] /\ outcome' = outcome
  BY DEF NextRemoval
<1>2. NoStatus \in Statuses
  BY DEF Statuses
<1>3. /\ task' \in Tasks
      /\ \/ pc' = "idle" /\ task'.todo = <<>>
         \/ pc' = "drop" /\ task'.todo # <<>>
  <2>1. CASE task' = NoTask /\ pc' = "idle"
    BY <2>1, NoTaskType
  <2>2. CASE Len(task.todo) # 1 /\ pc' = "drop" /\ task' = [task EXCEPT !.todo = Tail(@)]
    <3>1. PICK k : k = [task EXCEPT !.todo = Tail(@)]
      OBVIOUS
    <3>2. k \in Tasks /\ k.todo # <<>>
      BY <2>2, <3>1, NextTarget
    <3>3. QED
      BY <2>2, <3>1, <3>2
  <2>3. QED
    BY <1>1, <2>1, <2>2
<1>4. QED
  BY <1>1, <1>3 DEF Advance, AgentSteps, RemovalSteps, Working

LEMMA RemovalWorks ==
  ASSUME Bound, RemovalStep
  PROVE  Working'
<1>1. Working /\ task \in Tasks /\ unsettled \in SUBSET Agents /\ settings \in [1..Candidates -> Settings]
  BY DEF Bound, Entered, Working, Filed
<1>2. \A s \in RemovalSteps : s \in AgentSteps
  BY DEF AgentSteps
<1>3. ASSUME DropAgent PROVE Working'
  BY <1>1, <1>2, <1>3 DEF DropAgent, Working, RemovalSteps
<1>4. ASSUME RemoveEntry PROVE Working'
  <2>1. CASE Abort
    BY <1>1, <2>1, AbortWorks
  <2>2. CASE Step("block") /\ pc = "entry"
    BY <1>1, <1>2, <2>2, StepWorks DEF RemovalSteps
  <2>3. QED
    BY <1>4, <2>1, <2>2 DEF RemoveEntry
<1>5. ASSUME RemoveBlock PROVE Working'
  BY <1>1, <1>2, <1>5, StepWorks DEF RemoveBlock, RemovalSteps
<1>6. ASSUME NEW l \in Seq(1..Candidates), task' = [task EXCEPT !.left = l], pc \in RemovalSteps,
             pc' \in RemovalSteps, UNCHANGED <<outcome, installed, unsettled>>
      PROVE  Working'
  <2>1. task' \in Tasks /\ task'.todo = task.todo
    BY <1>1, <1>6 DEF Tasks
  <2>2. Advance
    BY <1>1, <1>6, <2>1 DEF Advance, Working, AgentSteps
  <2>3. QED
    BY <1>1, <2>2, AdvanceWorks
<1>7. ASSUME RemoveProfile PROVE Working'
  <2>1. pc = "forget" /\ UNCHANGED <<installed, unsettled>>
    BY <1>7 DEF RemoveProfile, records
  <2>2. CASE NextRemoval
    BY <1>1, <1>2, <2>1, <2>2, NextRemovalAdvances, AdvanceWorks DEF RemovalSteps
  <2>3. CASE ~NextRemoval
    <3>1. pc' = "ask" /\ task' = [task EXCEPT !.left = Existing] /\ UNCHANGED outcome
      BY <1>7, <2>3 DEF RemoveProfile
    <3>2. QED
      BY <1>1, <1>6, <2>1, <3>1, ExistingType DEF RemovalSteps
  <2>4. QED
    BY <2>2, <2>3
<1>8. ASSUME NEW accepted, AnswerRemoval(accepted) PROVE Working'
  <2>1. pc = "ask" /\ UNCHANGED <<installed, unsettled>>
    BY <1>8 DEF AnswerRemoval, records
  <2>2. CASE NextRemoval
    BY <1>1, <1>2, <2>1, <2>2, NextRemovalAdvances, AdvanceWorks DEF RemovalSteps
  <2>3. CASE pc' = "unregister" /\ UNCHANGED <<task, outcome>>
    BY <1>1, <1>2, <2>1, <2>3 DEF Working, RemovalSteps
  <2>4. QED
    BY <1>8, <2>2, <2>3 DEF AnswerRemoval
<1>9. ASSUME RemoveClineGlobalRegistration PROVE Working'
  <2>1. pc = "unregister" /\ UNCHANGED <<installed, unsettled>>
    BY <1>9 DEF RemoveClineGlobalRegistration, records
  <2>2. CASE NextRemoval
    BY <1>1, <1>2, <2>1, <2>2, NextRemovalAdvances, AdvanceWorks DEF RemovalSteps
  <2>3. CASE ~NextRemoval
    <3>1. task.left # <<>> /\ task' = [task EXCEPT !.left = Tail(@)] /\ UNCHANGED <<pc, outcome>>
      BY <1>9, <2>3 DEF RemoveClineGlobalRegistration
    <3>2. Tail(task.left) \in Seq(1..Candidates)
      BY <1>1, <3>1, LeftType
    <3>3. QED
      BY <1>6, <2>1, <3>1, <3>2 DEF RemovalSteps
  <2>4. QED
    BY <2>2, <2>3
<1>10. QED
  BY <1>3, <1>4, <1>5, <1>7, <1>8, <1>9 DEF RemovalStep

LEMMA AgentWorks ==
  ASSUME Bound, AgentNext
  PROVE  Working'
<1>1. Working
  BY DEF Bound, Entered
<1>2. ASSUME Kill PROVE Working'
  <2>1. {t.id : t \in ToSet(task.todo)} \subseteq Agents
    BY <1>1, TodoIds DEF Working
  <2>2. pc' = "idle" /\ task' = NoTask /\ outcome' = "killed" /\ installed' = installed
        /\ unsettled' = unsettled \cup {t.id : t \in ToSet(task.todo)}
    BY <1>2 DEF Kill, records
  <2>3. unsettled' \in SUBSET Agents /\ installed' \in SUBSET Skills
    BY <1>1, <2>1, <2>2 DEF Working
  <2>4. QED
    BY <1>1, <2>2, <2>3, IdleWorks
<1>3. ASSUME NEW f, EditConfig(f) \/ EditSettings(f) \/ EditNotes(f) PROVE Working'
  BY <1>1, <1>3 DEF EditConfig, EditSettings, EditNotes, EditFile, control, records, Working
<1>4. QED
  BY <1>2, <1>3, CommandsWork, ConfigureWorks, RemovalWorks DEF AgentNext

-----------------------------------------------------------------------------
(* The types of the files.                                                 *)

LEMMA CopiesTyped ==
  ASSUME Bound, AgentNext
  PROVE  copies' \in [Agents -> SUBSET Skills] /\ materialized' \subseteq Skills /\ torn' \subseteq ConfigFiles \cup NoteFiles
<1> DEFINE Good == copies' \in [Agents -> SUBSET Skills] /\ materialized' \subseteq Skills
                   /\ torn' \subseteq ConfigFiles \cup NoteFiles
<1>1. copies \in [Agents -> SUBSET Skills] /\ materialized \subseteq Skills /\ torn \subseteq ConfigFiles \cup NoteFiles
      /\ Working
  BY DEF Bound, Entered, Filed
<1>2. ASSUME NEW names, AddAgents(names) \/ InitAgents(names) \/ RemoveAgents(names) \/ InitAgain PROVE Good
  BY <1>1, <1>2 DEF AddAgents, InitAgents, RemoveAgents, InitAgain, Begin, files, records
<1>3. ASSUME NEW s \in Skills, InstallSkill(s) PROVE Good
  BY <1>1, <1>3 DEF InstallSkill, Begin, files
<1>4. ASSUME NEW s \in Skills, RemoveSkill(s) PROVE Good
  <2>1. materialized' \subseteq Skills /\ torn' = torn
    BY <1>1, <1>4 DEF RemoveSkill, Begin
  <2>2. copies' = copies \/ RemoveNativeAgentSkillCopies(s)
    BY <1>4 DEF RemoveSkill
  <2>3. ASSUME RemoveNativeAgentSkillCopies(s) PROVE copies' \in [Agents -> SUBSET Skills]
    BY <1>1, <2>3 DEF RemoveNativeAgentSkillCopies
  <2>4. QED
    BY <1>1, <2>1, <2>2, <2>3
<1>5. ASSUME MaterializeAgentSkills PROVE Good
  <2>1. Target \in Registry /\ Target.id \in Agents
    BY <1>1, <1>5, TargetType, AgentFields DEF MaterializeAgentSkills, AgentSteps, ConfigureSteps
  <2> DEFINE new == copies[Target.id] \cup (IF Target.skillsDir THEN Authorized(Target.id) \cap materialized ELSE {})
  <2>2. new \in SUBSET Skills
    BY <1>1, <2>1
  <2>3. copies' = [copies EXCEPT ![Target.id] = new] /\ materialized' = materialized /\ torn' = torn
    BY <1>5 DEF MaterializeAgentSkills, history
  <2> HIDE DEF new
  <2>4. QED
    BY <1>1, <2>1, <2>2, <2>3
<1>6. ASSUME NEW x, \/ WriteProfile \/ InjectAgentConfig \/ ResolveClineRegistration \/ AnswerOffer(x)
                    \/ OfferClineGlobalRegistration \/ MigrateLegacyProxyLocations \/ WriteAgentInstructions
      PROVE  Good
  BY <1>1, <1>6 DEF WriteProfile, InjectAgentConfig, ResolveClineRegistration, AnswerOffer,
     OfferClineGlobalRegistration, MigrateLegacyProxyLocations, WriteAgentInstructions, files, records, history
<1>7. ASSUME NEW x, \/ DropAgent \/ RemoveEntry \/ RemoveBlock \/ RemoveProfile \/ AnswerRemoval(x)
                    \/ RemoveClineGlobalRegistration
      PROVE  Good
  BY <1>1, <1>7 DEF DropAgent, RemoveEntry, RemoveBlock, RemoveProfile, AnswerRemoval,
     RemoveClineGlobalRegistration, files, records, history
<1>8. ASSUME Kill PROVE Good
  <2>1. Target.config \in ConfigFiles /\ Target.legacy.path \in ConfigFiles /\ Target.notes \in NoteFiles
    <3>1. pc \in AgentSteps
      BY <1>1, <1>8 DEF Kill, Working
    <3>2. QED
      BY <3>1, TargetFile DEF Bound
  <2>2. materialized' = materialized /\ copies' = copies
        /\ torn' \subseteq torn \cup {Target.config, Target.legacy.path, Target.notes}
    BY <1>8 DEF Kill, TearConfig, TearNotes, files, records
  <2>3. QED
    BY <1>1, <2>1, <2>2
<1>9. ASSUME NEW f, EditConfig(f) \/ EditSettings(f) \/ EditNotes(f) PROVE Good
  BY <1>1, <1>9 DEF EditConfig, EditSettings, EditNotes, EditFile, records
<1> HIDE DEF Good
<1>10. Good
  BY <1>2, <1>3, <1>4, <1>5, <1>6, <1>7, <1>8, <1>9 DEF AgentNext, AgentCommand, ConfigureStep, RemovalStep
<1>11. QED
  BY <1>10 DEF Good

LEMMA AgentFiled ==
  ASSUME Bound, AgentNext
  PROVE  Filed'
<1>1. FileMove /\ Filed
  BY AgentMoves DEF Bound, Entered
<1>2. config' \in [ConfigFiles -> ConfigFile \cup {NoFile}]
  <2>1. CASE config' = config
    BY <1>1, <2>1 DEF Filed
  <2>2. CASE \E f \in ConfigFiles, file \in ConfigFile \cup {NoFile} : ConfigChange(f, file)
    BY <1>1, <2>2 DEF Filed, ConfigChange
  <2>3. QED
    BY <1>1, <2>1, <2>2 DEF FileMove, ConfigMove
<1>3. settings' \in [1..Candidates -> Settings]
  <2>1. settings' = settings \/ \E i \in 1..Candidates, file \in Settings : settings' = [settings EXCEPT ![i] = file]
    BY <1>1 DEF FileMove, SettingsMove
  <2>2. QED
    BY <1>1, <2>1 DEF Filed
<1>4. notes' \in [NoteFiles -> Seq(Tokens)]
  <2>1. notes' = notes \/ \E f \in NoteFiles, text \in Seq(Tokens) : notes' = [notes EXCEPT ![f] = text]
    BY <1>1 DEF FileMove, NotesMove
  <2> DEFINE T == Seq(Tokens)
  <2> HIDE DEF T
  <2>2. notes \in [NoteFiles -> T] /\ (notes' = notes \/ \E f \in NoteFiles, text \in T : notes' = [notes EXCEPT ![f] = text])
    BY <1>1, <2>1 DEF Filed, T
  <2>3. notes' \in [NoteFiles -> T]
    BY <2>2
  <2>4. QED
    BY <2>3 DEF T
<1>5. profile' \in [Agents -> SUBSET (Skills \cup NoProfile \cup TornProfile)]
  <2> DEFINE T == SUBSET (Skills \cup NoProfile \cup TornProfile)
  <2>1. profile' = profile \/ \E list \in T : profile' = [profile EXCEPT ![Target.id] = list]
    BY <1>1 DEF FileMove, ProfileMove
  <2>2. profile \in [Agents -> T]
    BY <1>1 DEF Filed
  <2> HIDE DEF T
  <2>3. profile' \in [Agents -> T]
    BY <2>1, <2>2
  <2>4. QED
    BY <2>3 DEF T
<1>6. QED
  BY <1>2, <1>3, <1>4, <1>5, CopiesTyped DEF Filed

-----------------------------------------------------------------------------
(* What holds of every workspace.                                          *)

Typed == Plan /\ Working /\ Filed

LEMMA TypedBound ==
  ASSUME Typed
  PROVE  Bound
  BY DEF Typed, Plan, KitTyped, Bound, Entered

LEMMA TypedInit ==
  ASSUME Init
  PROVE  Typed
<1>1. PICK scene \in Scenes : AgentInit(scene)
  BY DEF Init
<1>2. Working
  <2>1. task = NoTask /\ pc = "idle" /\ outcome = "none" /\ unsettled = Agents /\ installed \in SUBSET Skills
    BY <1>1, SceneAssumption DEF AgentInit
  <2>2. QED
    BY <2>1, NoTaskType DEF Working, AgentSteps, ConfigureSteps, RemovalSteps
<1>3. Filed
  <2>1. /\ config \in [ConfigFiles -> ConfigFile \cup {NoFile}]
        /\ settings \in [1..Candidates -> Settings]
        /\ notes \in [NoteFiles -> Seq({UserText})]
        /\ profile = [id \in Agents |-> NoProfile] /\ copies = [id \in Agents |-> {}]
        /\ materialized \subseteq Skills /\ torn = {}
    BY <1>1, SceneAssumption DEF AgentInit
  <2>2. notes \in [NoteFiles -> Seq(Tokens)]
    <3>1. \A text \in Seq({UserText}) : text \in Seq(Tokens)
      BY PlainType DEF Users
    <3> DEFINE S == Seq({UserText})
               T == Seq(Tokens)
    <3>2. \A text \in S : text \in T
      BY <3>1
    <3>3. notes \in [NoteFiles -> S]
      BY <2>1
    <3> HIDE DEF S, T
    <3>4. notes \in [NoteFiles -> T]
      BY <3>2, <3>3
    <3>5. QED
      BY <3>4 DEF T
  <2>3. profile \in [Agents -> SUBSET (Skills \cup NoProfile \cup TornProfile)] /\ copies \in [Agents -> SUBSET Skills]
    BY <2>1
  <2>4. QED
    BY <2>1, <2>2, <2>3 DEF Filed
<1>4. QED
  BY <1>2, <1>3, PlanInit DEF Typed

LEMMA ApartFiled ==
  ASSUME Filed, Apart
  PROVE  Filed'
  BY DEF Filed, Apart

LEMMA KitWorks ==
  ASSUME Bound, KitMove
  PROVE  Working'
<1>1. Working /\ Apart /\ agents \in Seq(AgentNames) /\ unsettled \in SUBSET Agents /\ installed' = installed
      /\ installed \in SUBSET Skills
  BY DEF Bound, Entered, Working, KitMove, Apart
<1>2. CASE RestoreConfiguredAgents(FALSE, {})
  <2>1. {} \in SUBSET Skills
    OBVIOUS
  <2>2. QED
    BY <1>1, <1>2, <2>1, RestoreType, StartWorks
<1>3. CASE /\ pc' \in KitSteps \cup {"idle"} /\ task' = task
           /\ unsettled' \in {unsettled, Agents} /\ outcome' \in {outcome, "none", "ok", "failed", "killed"}
  <2>1. pc \in KitSteps \cup {"idle"}
    BY DEF KitMove
  <2>2. pc \notin AgentSteps /\ pc' \notin AgentSteps
    BY <1>3, <2>1 DEF AgentSteps, ConfigureSteps, RemovalSteps, KitSteps
  <2>3. QED
    BY <1>1, <1>3, <2>2 DEF Working
<1>4. QED
  BY <1>2, <1>3 DEF KitMove

LEMMA EnvWorks ==
  ASSUME Working, EnvMove
  PROVE  Working'
<1>1. pc \notin AgentSteps /\ pc' \notin AgentSteps
  BY DEF EnvMove, AgentSteps, ConfigureSteps, RemovalSteps, EnvSteps
<1>2. QED
  BY <1>1 DEF EnvMove, Apart, Working

\* Nothing about the agents moves.
Stays ==
  /\ UNCHANGED <<agents, installed, materialized, locked, config, settings, notes, profile, copies, menu, torn>>
  /\ UNCHANGED <<pc, task, outcome, unsettled, start, touched, edits>>

LEMMA Moves ==
  ASSUME [Next]_vars
  PROVE  \/ AgentNext /\ UNCHANGED toolkit
         \/ KitMove /\ ToolkitNext
         \/ EnvMove /\ UNCHANGED toolkit
         \/ Stays /\ UNCHANGED toolkit
<1>1. ASSUME UNCHANGED vars PROVE Stays /\ UNCHANGED toolkit
  BY <1>1 DEF vars, agentVars, kitVars, records, files, control, bounds, history, Stays
<1>2. QED
  BY <1>1, KitMoves, EnvMoves DEF Next, Rest, kitVars

LEMMA StaysTyped ==
  ASSUME Working, Filed, Stays
  PROVE  Working' /\ Filed'
<1>1. Working'
  BY DEF Working, Stays
<1>2. Filed'
  BY DEF Filed, Stays
<1>3. QED
  BY <1>1, <1>2

LEMMA TypedNext ==
  ASSUME IInv, Typed, [Next]_vars
  PROVE  Typed'
<1>1. Plan'
  BY InvNext DEF IInv
<1>2. Bound /\ Working /\ Filed
  BY TypedBound DEF Typed
<1>3. CASE AgentNext
  BY <1>1, <1>2, <1>3, AgentWorks, AgentFiled DEF Typed
<1>4. CASE KitMove
  BY <1>1, <1>2, <1>4, KitWorks, ApartFiled DEF Typed, KitMove
<1>5. CASE EnvMove
  BY <1>1, <1>2, <1>5, EnvWorks, ApartFiled DEF Typed, EnvMove
<1>6. CASE Stays
  BY <1>1, <1>2, <1>6, StaysTyped DEF Typed
<1>7. QED
  BY <1>3, <1>4, <1>5, <1>6, Moves

-----------------------------------------------------------------------------
(* A removal that is refused.                                              *)

\* Until the user touches a file, the configurations of the agents to remove
\* can be read, and what a removal found is what there still is.
Readable == \A t \in ToSet(task.todo) : ValidateAgentMcpEntryRemoval(t, config[t.config])
RefusalInv ==
  /\ start # NoStart => pc \in RemovalSteps \cup {"idle"}
  /\ start # NoStart /\ pc \in RemovalSteps /\ ~touched => Readable
  /\ start # NoStart /\ pc = "idle" => outcome \in {"ok", "killed"} \/ Snapshot = start \/ touched

LEMMA RefusalCommands ==
  ASSUME Bound, AgentCommand
  PROVE  RefusalInv'
<1>1. ASSUME start' = NoStart PROVE RefusalInv'
  BY <1>1 DEF RefusalInv
<1>2. ASSUME NEW names \in Requests, RemoveAgents(names), start' # NoStart PROVE RefusalInv'
  <2>1. StartRemoval(Selected(names)) /\ config' = config /\ touched' = FALSE
        /\ \A t \in ToSet(Selected(names)) : ValidateAgentMcpEntryRemoval(t, config[t.config])
    BY <1>2 DEF RemoveAgents, RefuseRemoval, Finish, Begin, files
  <2>2. pc' = "drop" /\ task'.todo = Selected(names)
    <3> DEFINE x == Selected(names)
    <3>1. pc' = "drop" /\ task' = [NoTask EXCEPT !.todo = x]
      BY <2>1 DEF StartRemoval
    <3> HIDE DEF x
    <3>2. task'.todo = x
      BY <3>1 DEF NoTask
    <3>3. QED
      BY <3>1, <3>2 DEF x
  <2>3. Readable'
    BY <2>1, <2>2 DEF Readable
  <2>4. QED
    BY <2>2, <2>3 DEF RefusalInv, RemovalSteps
<1>3. QED
  BY <1>1, <1>2 DEF AgentCommand, AddAgents, InitAgents, InitAgain, InstallSkill, RemoveSkill

\* The agents that are left can be read as before.
LEMMA StaysReadable ==
  ASSUME Readable, task' \in Tasks, ToSet(task'.todo) \subseteq ToSet(task.todo), config' = config
  PROVE  Readable'
  BY DEF Readable

LEMMA RemovedReadable ==
  ASSUME NEW t \in Registry, NEW file \in ConfigFile \cup {NoFile}, ValidateAgentMcpEntryRemoval(t, file)
  PROVE  ValidateAgentMcpEntryRemoval(t, RemoveAgentMcpEntry(t, file))
<1> DEFINE new == RemoveAgentMcpEntry(t, file)
<1>1. new = NoFile \/ new.state = file.state
  BY AgentRemoved DEF Alike
<1>2. NoFile.state = "absent"
  BY DEF NoFile
<1> HIDE DEF new
<1>3. ValidateAgentMcpEntryRemoval(t, new)
  BY <1>1, <1>2 DEF ValidateAgentMcpEntryRemoval, ReadJson, ValidateTomlStructure
<1>4. QED
  BY <1>3 DEF new

LEMMA RefusalSteps ==
  ASSUME Bound, RefusalInv, RemovalStep
  PROVE  RefusalInv'
<1>1. start' = start /\ touched' = touched /\ pc \in RemovalSteps /\ Working
  BY DEF RemovalStep, DropAgent, RemoveEntry, RemoveBlock, RemoveProfile, AnswerRemoval,
     RemoveClineGlobalRegistration, history, RemovalSteps, Bound, Entered
<1>2. Working' /\ pc \in AgentSteps
  BY <1>1, RemovalWorks DEF AgentSteps
<1> DEFINE Good == (pc' \in RemovalSteps /\ Readable') \/ (pc' = "idle" /\ outcome' = "ok")
<1>0. CASE start = NoStart
  BY <1>0, <1>1 DEF RefusalInv
<1>a. CASE touched /\ start # NoStart
  <2>1. pc' \in RemovalSteps \cup {"idle"}
    BY DEF RemovalStep, DropAgent, RemoveEntry, RemoveBlock, RemoveProfile, AnswerRemoval, NextRemoval, Step, Abort,
       RemoveClineGlobalRegistration, RemovalSteps
  <2>2. QED
    BY <1>a, <1>1, <2>1 DEF RefusalInv
<1>b. SUFFICES ASSUME start # NoStart, ~touched PROVE RefusalInv'
  BY <1>0, <1>a
<1>3. Readable
  BY <1>1, <1>b DEF RefusalInv
<1>4. Target \in Registry /\ Target \in ToSet(task.todo) /\ ToSet(Tail(task.todo)) \subseteq ToSet(task.todo)
      /\ ToSet(task.todo) \subseteq Registry
  BY <1>1, <1>2, TargetType
<1>5. ASSUME NextRemoval, config' = config PROVE Good
  <2>1. CASE pc' = "drop" /\ task' = [task EXCEPT !.todo = Tail(@)]
    <3>1. PICK k : k = [task EXCEPT !.todo = Tail(@)]
      OBVIOUS
    <3>2. k \in Tasks /\ k.todo = Tail(task.todo)
      BY <1>1, <1>2, <3>1, NextTarget
    <3>3. Readable'
      BY <1>3, <1>4, <1>5, <2>1, <3>1, <3>2, StaysReadable
    <3>4. QED
      BY <2>1, <3>3 DEF RemovalSteps
  <2>2. QED
    BY <1>5, <2>1 DEF NextRemoval
<1>6. ASSUME pc' \in RemovalSteps, task'.todo = task.todo, config' = config PROVE Good
  BY <1>2, <1>3, <1>6, StaysReadable DEF Working
<1>7. ASSUME DropAgent PROVE Good
  BY <1>6, <1>7 DEF DropAgent, RemovalSteps, files
<1>8. ASSUME RemoveEntry PROVE Good
  <2>1. ValidateAgentMcpEntryRemoval(Target, config[Target.config])
    BY <1>3, <1>4 DEF Readable
  <2>2. pc' = "block" /\ task' = task
        /\ config' = [config EXCEPT ![Target.config] = RemoveAgentMcpEntry(Target, @)]
    BY <1>8, <2>1 DEF RemoveEntry, Step
  <2>3. Target.config \in ConfigFiles /\ config[Target.config] \in ConfigFile \cup {NoFile}
        /\ config \in [ConfigFiles -> ConfigFile \cup {NoFile}]
    BY <1>2, TargetFile DEF Bound, Entered, Filed
  <2> DEFINE new == RemoveAgentMcpEntry(Target, config[Target.config])
  <2>4. config' = [config EXCEPT ![Target.config] = new] /\ ValidateAgentMcpEntryRemoval(Target, new)
    BY <1>4, <2>1, <2>2, <2>3, RemovedReadable
  <2> HIDE DEF new
  <2>5. ASSUME NEW t \in ToSet(task.todo) PROVE ValidateAgentMcpEntryRemoval(t, config'[t.config])
    <3>1. CASE t = Target
      BY <2>3, <2>4, <3>1
    <3>2. CASE t # Target
      <4>1. t \in Registry /\ t.config # Target.config /\ t.config \in ConfigFiles
        BY <1>4, <3>2, AgentsDiffer, AgentFields
      <4>2. config'[t.config] = config[t.config]
        BY <2>3, <2>4, <4>1
      <4>3. QED
        BY <1>3, <4>2 DEF Readable
    <3>3. QED
      BY <3>1, <3>2
  <2>6. Readable'
    BY <2>2, <2>5 DEF Readable
  <2>7. QED
    BY <2>2, <2>6 DEF RemovalSteps
<1>9. ASSUME RemoveBlock PROVE Good
  BY <1>6, <1>9 DEF RemoveBlock, Step, RemovalSteps
<1>10. ASSUME NEW l, task' = [task EXCEPT !.left = l], pc' \in RemovalSteps, config' = config PROVE Good
  <2>1. task'.todo = task.todo
    BY <1>1, <1>10 DEF Working, Tasks
  <2>2. QED
    BY <1>6, <1>10, <2>1
<1>11. ASSUME RemoveProfile PROVE Good
  <2>1. config' = config
    BY <1>11 DEF RemoveProfile
  <2>2. CASE NextRemoval
    BY <1>5, <2>1, <2>2
  <2>3. CASE pc' = "ask" /\ task' = [task EXCEPT !.left = Existing]
    BY <1>10, <2>1, <2>3 DEF RemovalSteps
  <2>4. QED
    BY <1>11, <2>2, <2>3 DEF RemoveProfile
<1>12. ASSUME NEW accepted, AnswerRemoval(accepted) PROVE Good
  <2>1. config' = config
    BY <1>12 DEF AnswerRemoval, files
  <2>2. CASE NextRemoval
    BY <1>5, <2>1, <2>2
  <2>3. CASE pc' = "unregister" /\ task' = task
    BY <1>6, <2>1, <2>3 DEF RemovalSteps
  <2>4. QED
    BY <1>12, <2>2, <2>3 DEF AnswerRemoval
<1>13. ASSUME RemoveClineGlobalRegistration PROVE Good
  <2>1. config' = config /\ pc = "unregister"
    BY <1>13 DEF RemoveClineGlobalRegistration
  <2>2. CASE NextRemoval
    BY <1>5, <2>1, <2>2
  <2>3. CASE pc' = pc /\ task' = [task EXCEPT !.left = Tail(@)]
    <3>1. task' = [task EXCEPT !.left = Tail(task.left)]
      BY <2>3
    <3>2. QED
      BY <1>10, <2>1, <2>3, <3>1 DEF RemovalSteps
  <2>4. QED
    BY <1>13, <2>2, <2>3 DEF RemoveClineGlobalRegistration
<1> HIDE DEF Good
<1>14. Good
  BY <1>7, <1>8, <1>9, <1>11, <1>12, <1>13 DEF RemovalStep
<1>15. QED
  BY <1>1, <1>14 DEF Good, RefusalInv, RemovalSteps

LEMMA RefusalNext ==
  ASSUME Typed, RefusalInv, [Next]_vars
  PROVE  RefusalInv'
<1>1. Bound
  BY TypedBound
<1>2. ASSUME start' = start, start = NoStart PROVE RefusalInv'
  BY <1>2 DEF RefusalInv
<1>3. CASE AgentNext
  <2>1. CASE AgentCommand
    BY <1>1, <2>1, RefusalCommands
  <2>2. CASE ConfigureStep
    <3>1. start' = start /\ pc \in ConfigureSteps
      BY <2>2 DEF ConfigureStep, WriteProfile, InjectAgentConfig, ResolveClineRegistration, AnswerOffer,
         OfferClineGlobalRegistration, MigrateLegacyProxyLocations, MaterializeAgentSkills,
         WriteAgentInstructions, history, ConfigureSteps
    <3>2. start = NoStart
      BY <3>1 DEF RefusalInv, RemovalSteps, ConfigureSteps
    <3>3. QED
      BY <1>2, <3>1, <3>2
  <2>3. CASE RemovalStep
    BY <1>1, <2>3, RefusalSteps
  <2>4. CASE Kill
    BY <2>4 DEF Kill, RefusalInv, RemovalSteps
  <2>5. ASSUME NEW f, EditConfig(f) \/ EditSettings(f) \/ EditNotes(f) PROVE RefusalInv'
    BY <2>5 DEF EditConfig, EditSettings, EditNotes, EditFile, control, RefusalInv, RemovalSteps
  <2>6. QED
    BY <1>3, <2>1, <2>2, <2>3, <2>4, <2>5 DEF AgentNext
<1>4. CASE KitMove
  <2>1. start' = NoStart
    BY <1>4 DEF KitMove, Apart, RefusalInv, RemovalSteps, KitSteps
  <2>2. QED
    BY <2>1 DEF RefusalInv
<1>5. CASE EnvMove
  <2>1. start' = NoStart \/ (pc = "idle" /\ pc' = "idle" /\ touched' = TRUE)
    BY <1>5 DEF EnvMove, Apart, RefusalInv, RemovalSteps, EnvSteps
  <2>2. CASE start' = NoStart
    BY <2>2 DEF RefusalInv
  <2>3. CASE pc' = "idle" /\ touched' = TRUE
    BY <2>3 DEF RefusalInv, RemovalSteps
  <2>4. QED
    BY <2>1, <2>2, <2>3
<1>6. CASE Stays
  BY <1>6 DEF Stays, RefusalInv, Readable, Snapshot
<1>7. QED
  BY <1>3, <1>4, <1>5, <1>6, Moves

-----------------------------------------------------------------------------
(* What others wrote.                                                      *)

ForeignInv ==
  /\ \A f \in ConfigFiles :
       config[f] # NoFile /\ (f \notin torn \/ config[f].state = "whole") => config[f].foreign
  /\ \A i \in 1..Candidates : settings[i] # NoFile => settings[i].foreign
  /\ \A f \in NoteFiles : f \notin torn => Shaped(notes[f])

KeptConfig(f) ==
  /\ config'[f] # NoFile /\ (f \notin torn' \/ config'[f].state = "whole") => config'[f].foreign
  /\ config[f].state = "broken" /\ f # Continue.config /\ edits' = edits => config'[f] = config[f]
KeptSettings(i) ==
  /\ settings'[i] # NoFile => settings'[i].foreign
  /\ settings[i].state = "broken" /\ edits' = edits => settings'[i] = settings[i]
KeptNotes(f) == f \notin torn' => Shaped(notes'[f]) /\ UserLines(notes'[f]) >= UserLines(notes[f])

\* Of a file that can be changed, but for Continue's, not one that cannot be read.
LEMMA CheckedIsRead ==
  ASSUME NEW t \in Registry, NEW c, ValidateAgentMcpEntryRemoval(t, c), t # Continue
  PROVE  c.state # "broken"
<1>1. t.format # "continue-mcp-block"
  BY Formats
<1>2. QED
  BY <1>1 DEF ValidateAgentMcpEntryRemoval, ReadJson, ValidateTomlStructure

LEMMA ConfigKept ==
  ASSUME Bound, ForeignInv, edits \in Nat, ConfigMove, NEW f \in ConfigFiles
  PROVE  KeptConfig(f)
<1>1. config \in [ConfigFiles -> ConfigFile \cup {NoFile}] /\ Working
  BY DEF Bound, Entered, Filed
<1> DEFINE c == config[f]
<1>2. c \in ConfigFile \cup {NoFile} /\ NoFile.state = "absent"
      /\ (c # NoFile /\ (f \notin torn \/ c.state = "whole") => c.foreign)
  BY <1>1 DEF ForeignInv, NoFile
<1>3. ASSUME config'[f] = c, f \in torn => f \in torn' PROVE KeptConfig(f)
  BY <1>2, <1>3 DEF KeptConfig
<1>4. CASE config' = config /\ torn \subseteq torn'
  BY <1>3, <1>4
<1>5. ASSUME NEW g \in ConfigFiles, NEW file \in ConfigFile \cup {NoFile}, ConfigChange(g, file), g # f
      PROVE  KeptConfig(f)
  <2>1. config'[f] = c
    BY <1>1, <1>5 DEF ConfigChange
  <2>2. f \in torn => f \in torn'
    BY <1>5 DEF ConfigChange, Edited, Migrated, Injects, Removed, TornConfig
  <2>3. QED
    BY <1>3, <2>1, <2>2
<1>6. ASSUME NEW file \in ConfigFile \cup {NoFile}, ConfigChange(f, file) PROVE KeptConfig(f)
  <2>1. config'[f] = file
    BY <1>1, <1>6 DEF ConfigChange
  <2> DEFINE Good == /\ file # NoFile /\ (f \notin torn' \/ file.state = "whole") => file.foreign
                     /\ c.state = "broken" /\ f # Continue.config /\ edits' = edits => file = c
  <2>2. ASSUME Edited(f, file) PROVE Good
    <3>1. edits' # edits
      BY <2>2 DEF Edited
    <3>2. file = IF c = NoFile THEN Empty
                 ELSE IF c.state = "whole" THEN [c EXCEPT !.state = "broken"]
                 ELSE [c EXCEPT !.state = "whole", !.foreign = TRUE]
      BY <2>2 DEF Edited
    <3> HIDE DEF c
    <3>3. CASE c = NoFile
      BY <3>1, <3>2, <3>3, EmptyWhole DEF Whole
    <3>4. CASE c # NoFile /\ c.state = "whole"
      <4>1. file = [c EXCEPT !.state = "broken"] /\ c \in ConfigFile /\ c.foreign
        BY <1>2, <3>2, <3>4
      <4>2. \A k \in ConfigFile : [k EXCEPT !.state = "broken"].foreign = k.foreign
        BY StateSet
      <4>3. file.foreign
        BY <4>1, <4>2
      <4>4. c.state # "broken"
        BY <3>4
      <4>5. QED
        BY <3>1, <4>3, <4>4
    <3>5. CASE c # NoFile /\ c.state # "whole"
      <4>1. file = [c EXCEPT !.state = "whole", !.foreign = TRUE] /\ c \in ConfigFile
        BY <1>2, <3>2, <3>5
      <4>2. \A k \in ConfigFile : [k EXCEPT !.state = "whole", !.foreign = TRUE].foreign
        BY StateSet
      <4>3. file.foreign
        BY <4>1, <4>2
      <4>4. QED
        BY <3>1, <4>3
    <3>6. QED
      BY <3>3, <3>4, <3>5
  <2>3. ASSUME c # NoFile, Alike(file, c), torn' = torn, c.state # "broken" \/ f = Continue.config PROVE Good
    <3> HIDE DEF c
    <3>1. QED
      BY <1>2, <2>3 DEF Alike
  <2>4. ASSUME Whole(file) \/ file = NoFile, c.state # "broken" \/ f = Continue.config PROVE Good
    BY <2>4 DEF Whole
  <2>5. ASSUME pc \in AgentSteps PROVE Target \in Registry /\ (Target = Continue => Target.config = Continue.config)
    BY <1>1, <2>5, TargetType
  <2>6. ASSUME Migrated(f, file) PROVE Good
    <3>1. pc \in AgentSteps /\ Target.legacy # NoPlace /\ c # NoFile /\ c.state # "broken" /\ torn' = torn
          /\ file = RemoveProxyEntry(c, Target.legacy.format)
      BY <2>6 DEF Migrated, ReadJson, AgentSteps, ConfigureSteps
    <3> HIDE DEF c, Good
    <3>2. Alike(file, c)
      BY <1>2, <2>5, <3>1, ProxyRemoved
    <3>3. QED
      BY <2>3, <3>1, <3>2
  <2>7. ASSUME Injects(f, file) PROVE Good
    <3>1. pc \in AgentSteps /\ torn' = torn /\ file = Inject(Target, c) /\ f = Target.config
          /\ ValidateAgentMcpEntryRemoval(Target, c)
      BY <2>7 DEF Injects, AgentSteps, ConfigureSteps
    <3> HIDE DEF c, Good
    <3>2. c.state # "broken" \/ f = Continue.config
      BY <2>5, <3>1, CheckedIsRead
    <3>3. IF c = NoFile \/ Target = Continue THEN Whole(file) ELSE Alike(file, c)
      BY <1>2, <2>5, <3>1, Injected
    <3>4. QED
      BY <2>3, <2>4, <3>1, <3>2, <3>3
  <2>8. ASSUME Removed(f, file) PROVE Good
    <3>1. pc \in AgentSteps /\ torn' = torn /\ file = RemoveAgentMcpEntry(Target, c) /\ f = Target.config
          /\ ValidateAgentMcpEntryRemoval(Target, c)
      BY <2>8 DEF Removed, AgentSteps, RemovalSteps
    <3> HIDE DEF c, Good
    <3>2. c.state # "broken" \/ f = Continue.config
      BY <2>5, <3>1, CheckedIsRead
    <3>3. IF c = NoFile \/ Target = Continue THEN file = NoFile ELSE Alike(file, c)
      BY <1>2, <2>5, <3>1, AgentRemoved
    <3>4. QED
      BY <2>3, <2>4, <3>1, <3>2, <3>3
  <2>9. ASSUME TornConfig(f, file) PROVE Good
    BY <2>9 DEF TornConfig
  <2> HIDE DEF Good, c
  <2>10. Good
    BY <1>6, <2>2, <2>6, <2>7, <2>8, <2>9 DEF ConfigChange
  <2>11. QED
    BY <2>1, <2>10 DEF Good, KeptConfig, c
<1>7. QED
  BY <1>4, <1>5, <1>6 DEF ConfigMove

LEMMA SettingsKept ==
  ASSUME Bound, ForeignInv, edits \in Nat, SettingsMove, NEW i \in 1..Candidates
  PROVE  KeptSettings(i)
<1>1. settings \in [1..Candidates -> Settings] /\ (settings[i] # NoFile => settings[i].foreign)
  BY DEF Bound, Entered, Filed, ForeignInv
<1>2. ASSUME settings'[i] = settings[i] PROVE KeptSettings(i)
  BY <1>1, <1>2 DEF KeptSettings
<1>3. ASSUME NEW j \in 1..Candidates, NEW file \in Settings, settings' = [settings EXCEPT ![j] = file], j # i
      PROVE  KeptSettings(i)
  BY <1>1, <1>2, <1>3
<1>4. ASSUME NEW file \in Settings, settings' = [settings EXCEPT ![i] = file],
             \/ /\ settings[i] # NoFile /\ settings[i].state = "whole"
                /\ \/ file = RemoveStaleEntries(UpsertClineGlobalEntry(settings[i]))
                   \/ file = RemoveClineGlobalEntry(settings[i])
             \/ edits' = edits + 1 /\ Reset(i, file)
      PROVE  KeptSettings(i)
  <2>1. settings'[i] = file
    BY <1>1, <1>4
  <2>2. settings[i] \in Settings
    BY <1>1
  <2> DEFINE c == settings[i]
  <2> HIDE DEF c
  <2>3. ASSUME c \in Settings, c # NoFile, c.foreign,
               file = RemoveStaleEntries(UpsertClineGlobalEntry(c)) \/ file = RemoveClineGlobalEntry(c)
        PROVE  file.foreign
    BY <2>3, SettingsSet
  <2>4. ASSUME c \in Settings, c # NoFile, c.state = "whole", c.foreign,
               file = RemoveStaleEntries(UpsertClineGlobalEntry(c)) \/ file = RemoveClineGlobalEntry(c)
        PROVE  KeptSettings(i)
    BY <2>1, <2>3, <2>4 DEF KeptSettings, c
  <2>5. ASSUME edits' = edits + 1, Reset(i, file) PROVE KeptSettings(i)
    <3>1. edits' # edits
      BY <2>5
    <3>2. file # NoFile => file.foreign
      BY <1>1, <2>2, <2>5, ResetType
    <3>3. QED
      BY <2>1, <3>1, <3>2 DEF KeptSettings
  <2>6. QED
    BY <1>1, <1>4, <2>2, <2>4, <2>5 DEF c
<1>5. QED
  BY <1>2, <1>3, <1>4 DEF SettingsMove

LEMMA NotesKept ==
  ASSUME Bound, ForeignInv, NotesMove, NEW f \in NoteFiles
  PROVE  KeptNotes(f)
<1>1. notes \in [NoteFiles -> Seq(Tokens)] /\ Working /\ (f \notin torn => Shaped(notes[f])) /\ notes[f] \in Seq(Tokens)
  BY DEF Bound, Entered, Filed, ForeignInv
<1>2. ASSUME notes'[f] = notes[f], f \in torn => f \in torn' PROVE KeptNotes(f)
  <2>1. UserLines(notes[f]) >= UserLines(notes[f])
    BY <1>1, LinesAdd
  <2>2. QED
    BY <1>1, <1>2, <2>1 DEF KeptNotes
<1>3. CASE notes' = notes /\ \A g \in NoteFiles : g \in torn => g \in torn'
  BY <1>2, <1>3
<1>4. ASSUME NEW g \in NoteFiles, NEW text \in Seq(Tokens), notes' = [notes EXCEPT ![g] = text],
             Says(g, text) \/ Silences(g, text) \/ Adds(g, text) \/ TornNote(g, text)
      PROVE  KeptNotes(f)
  <2>1. f \in torn => f \in torn'
    BY <1>4 DEF Says, Silences, Adds, TornNote
  <2>2. CASE g # f
    BY <1>1, <1>2, <1>4, <2>1, <2>2
  <2>3. CASE g = f /\ f \notin torn'
    <3>1. notes'[f] = text /\ Shaped(notes[f])
      BY <1>1, <1>4, <2>1, <2>3
    <3> DEFINE Good == Shaped(text) /\ UserLines(text) >= UserLines(notes[f])
    <3>2. UserLines(notes[f]) >= UserLines(notes[f])
      BY <1>1, LinesAdd
    <3>3. ASSUME Says(f, text) PROVE Good
      <4> DEFINE b == RenderAgentCapabilityBlock[2]
      <4>1. b \in Blocks /\ RenderAgentCapabilityBlock = Block(b)
        BY <3>3, BlockType DEF Says, Bound, Entered, AgentSteps, ConfigureSteps, Block
      <4>2. text = UpsertMarkedBlock(notes[f], RenderAgentCapabilityBlock)
        BY <3>3 DEF Says
      <4> HIDE DEF b
      <4>3. Marked(text, b) /\ UserLines(text) = UserLines(notes[f])
        BY <3>1, <4>1, <4>2, Upserted
      <4>4. QED
        BY <3>2, <4>1, <4>3 DEF Shaped
    <3>4. ASSUME Silences(f, text) PROVE Good
      <4>1. text = RemoveMarkedBlock(notes[f])
        BY <3>4 DEF Silences
      <4>2. Plainly(text) /\ UserLines(text) = UserLines(notes[f])
        BY <3>1, <4>1, Unmarked
      <4>3. QED
        BY <3>2, <4>2 DEF Shaped
    <3>5. ASSUME Adds(f, text) PROVE Good
      BY <3>1, <3>5, LineAdded DEF Adds
    <3>6. ~TornNote(f, text)
      BY <2>3 DEF TornNote
    <3>7. Good
      BY <1>4, <2>3, <3>3, <3>4, <3>5, <3>6
    <3>8. QED
      BY <3>1, <3>7 DEF KeptNotes
  <2>4. QED
    BY <2>2, <2>3 DEF KeptNotes
<1>5. QED
  BY <1>3, <1>4 DEF NotesMove

LEMMA ForeignInit ==
  ASSUME Init
  PROVE  ForeignInv
<1>1. PICK scene \in Scenes : AgentInit(scene)
  BY DEF Init
<1>2. \A f \in NoteFiles : notes[f] \in Users
  BY <1>1, SceneAssumption DEF AgentInit, Users
<1>3. QED
  BY <1>1, <1>2, SceneAssumption DEF AgentInit, ForeignInv, Shaped, Plainly

LEMMA ForeignNext ==
  ASSUME Typed, ForeignInv, edits \in Nat, [Next]_vars
  PROVE  /\ ForeignInv'
         /\ \A f \in ConfigFiles : KeptConfig(f)
         /\ \A i \in 1..Candidates : KeptSettings(i)
         /\ \A f \in NoteFiles : KeptNotes(f)
<1>1. Bound
  BY TypedBound
<1>2. ConfigMove /\ SettingsMove /\ NotesMove
  <2>1. CASE AgentNext
    BY <1>1, <2>1, AgentMoves DEF Bound, FileMove
  <2>2. CASE UNCHANGED <<config, settings, notes, torn>>
    BY <2>2 DEF ConfigMove, SettingsMove, NotesMove
  <2>3. QED
    BY <2>1, <2>2, Moves DEF KitMove, EnvMove, Apart, Stays
<1>3. /\ \A f \in ConfigFiles : KeptConfig(f)
      /\ \A i \in 1..Candidates : KeptSettings(i)
      /\ \A f \in NoteFiles : KeptNotes(f)
  BY <1>1, <1>2, ConfigKept, SettingsKept, NotesKept
<1>4. ForeignInv'
  BY <1>3 DEF ForeignInv, KeptConfig, KeptSettings, KeptNotes
<1>5. QED
  BY <1>3, <1>4

-----------------------------------------------------------------------------
(* Who is settled.                                                         *)

\* Of an agent that is known, todo holds it or it does not.
LEMMA Untouched ==
  ASSUME NEW list \in Seq(Registry), NEW t \in Registry
  PROVE  (\A i \in DOMAIN list : list[i].id # t.id) <=> t \notin ToSet(list)
<1>1. \A i \in DOMAIN list : list[i] \in Registry
  OBVIOUS
<1>2. \A i \in DOMAIN list : list[i].id = t.id <=> list[i] = t
  BY <1>1, AgentsDiffer
<1>3. QED
  BY <1>2 DEF ToSet

LEMMA NowSettled ==
  ASSUME Working, NEW t \in Registry
  PROVE  Settled(t.id) <=> Contains(agents, t.id) /\ t.id \notin unsettled /\ t \notin ToSet(task.todo)
<1>1. task.todo \in Seq(Registry)
  BY DEF Working, Tasks
<1>2. QED
  BY <1>1, Untouched DEF Settled

LEMMA ThenSettled ==
  ASSUME Working', NEW t \in Registry
  PROVE  Settled(t.id)' <=> Contains(agents', t.id) /\ t.id \notin unsettled' /\ t \notin ToSet(task'.todo)
<1>1. task'.todo \in Seq(Registry)
  BY DEF Working, Tasks
<1>2. QED
  BY <1>1, Untouched DEF Settled

Nobody == \A t \in Registry : ~Settled(t.id)'

LEMMA AllUnsettled ==
  ASSUME Agents \subseteq unsettled'
  PROVE  Nobody
  BY AgentFields DEF Nobody, Settled

LEMMA NoneDeclared ==
  ASSUME agents' = <<>>
  PROVE  Nobody
  BY DEF Nobody, Settled, Contains

\* A refresh comes to every agent that is declared.
LEMMA ResolvesAll ==
  ASSUME NEW names \in Seq(AgentNames), Resolvable(names), NEW t \in Registry, Contains(names, t.id)
  PROVE  t \in ToSet(ResolveTargets(names))
<1>1. PICK i \in 1..Len(names) : names[i] = t.id
  BY DEF Contains
<1>2. FindAgent(names[i]) = t /\ i \in DOMAIN names
  BY <1>1, FindById
<1>3. ToSet(ResolveTargets(names)) = {FindAgent(names[j]) : j \in DOMAIN names}
  BY Resolved
<1>4. QED
  BY <1>2, <1>3

LEMMA RestoreUnsettles ==
  ASSUME agents \in Seq(AgentNames), agents' = agents, Working', NEW offering \in BOOLEAN,
         NEW undo \in SUBSET Skills, RestoreConfiguredAgents(offering, undo), unsettled \in SUBSET Agents
  PROVE  Nobody
<1>1. CASE agents = <<>>
  BY <1>1, NoneDeclared
<1>2. CASE unsettled' = Agents
  BY <1>2, AllUnsettled
<1>3. CASE task'.todo = ResolveTargets(agents) /\ Resolvable(agents)
  BY <1>3, ResolvesAll, ThenSettled DEF Nobody
<1>4. QED
  BY <1>1, <1>2, <1>3, RestoreType

\* A command that names agents works on every agent it declares.
LEMMA SaveUnsettles ==
  ASSUME agents \in Seq(AgentNames), NEW names \in Seq(AgentNames), NEW t \in Registry,
         Resolvable(names), Contains(SaveSelectedAgents(agents, names), t.id)
  PROVE  Contains(agents, t.id) \/ t \in ToSet(ResolveTargets(names))
<1> DEFINE canonical(name) == IF FindAgent(name) = NoTarget THEN name ELSE FindAgent(name).id
           new == [i \in DOMAIN names |-> canonical(names[i])]
           all == agents \o new
<1>1. \A i \in DOMAIN names : FindAgent(names[i]) \in Registry
  BY FoundIsKnown DEF Resolvable
<1>2. \A i \in DOMAIN names : canonical(names[i]) = FindAgent(names[i]).id
  BY <1>1, KnownIsTarget
<1> DEFINE U == AgentNames \cup {canonical(names[i]) : i \in DOMAIN names}
<1>3. agents \in Seq(U) /\ new \in Seq(U) /\ Len(new) = Len(names) /\ DOMAIN names = 1..Len(names)
  <2>1. \A i \in DOMAIN names : canonical(names[i]) \in U
    OBVIOUS
  <2>2. AgentNames \subseteq U
    OBVIOUS
  <2> HIDE DEF canonical, U
  <2>3. QED
    BY <2>1, <2>2
<1>4. \A i \in DOMAIN names : new[i] = canonical(names[i])
  OBVIOUS
<1> HIDE DEF canonical, new, U
<1>5. /\ all \in Seq(U) /\ Len(all) = Len(agents) + Len(new) /\ Len(agents) \in Nat /\ Len(new) \in Nat
      /\ \A i \in 1..Len(agents) : all[i] = agents[i]
      /\ \A i \in 1..Len(new) : all[Len(agents) + i] = new[i]
  BY <1>3
<1>6. PICK saved : saved = SaveSelectedAgents(agents, names)
  OBVIOUS
<1>7. saved = Distinct(all)
  BY <1>6 DEF SaveSelectedAgents, all, new, canonical
<1> HIDE DEF all
<1>8. ToSet(saved) = ToSet(all)
  BY <1>5, <1>7, DistinctElements
<1>9. t.id \in ToSet(saved)
  <2>1. PICK i \in 1..Len(saved) : saved[i] = t.id
    BY <1>6 DEF Contains
  <2>2. saved \in Seq(U)
    BY <1>5, <1>7, DistinctElements
  <2>3. QED
    BY <2>1, <2>2 DEF ToSet
<1>10. PICK j \in 1..Len(all) : all[j] = t.id
  <2>1. DOMAIN all = 1..Len(all) /\ t.id \in ToSet(all)
    BY <1>5, <1>8, <1>9
  <2>2. QED
    BY <2>1 DEF ToSet
<1>11. CASE j \in 1..Len(agents)
  BY <1>5, <1>10, <1>11 DEF Contains
<1>12. CASE j \notin 1..Len(agents)
  <2>1. PICK k \in 1..Len(new) : j = Len(agents) + k
    <3>1. j - Len(agents) \in 1..Len(new) /\ j = Len(agents) + (j - Len(agents))
      BY <1>5, <1>10, <1>12
    <3>2. QED
      BY <3>1
  <2>2. FindAgent(names[k]).id = t.id /\ FindAgent(names[k]) \in Registry /\ k \in DOMAIN names
    <3>1. all[Len(agents) + k] = new[k]
      BY <1>5
    <3>2. k \in DOMAIN names /\ new[k] = t.id
      BY <1>3, <1>10, <2>1, <3>1
    <3>3. QED
      BY <1>1, <1>2, <1>4, <3>2
  <2>3. FindAgent(names[k]) = t
    BY <2>2, AgentsDiffer
  <2>4. ToSet(ResolveTargets(names)) = {FindAgent(names[i]) : i \in DOMAIN names}
    BY Resolved
  <2>5. QED
    BY <2>2, <2>3, <2>4
<1>13. QED
  BY <1>11, <1>12

\* A step makes nobody settled but the agent whose instructions it writes.
SettledMove ==
  \/ Nobody
  \/ /\ UNCHANGED <<installed, materialized>>
     /\ \A t \in Registry : copies'[t.id] = copies[t.id] \/ (pc = "skills" /\ t = Target)
     /\ \A t \in Registry : Settled(t.id)' => Settled(t.id) \/ (WriteAgentInstructions /\ t = Target)

LEMMA SameSettled ==
  ASSUME UNCHANGED <<agents, installed, materialized>>, unsettled \subseteq unsettled', task'.todo = task.todo,
         \A t \in Registry : copies'[t.id] = copies[t.id] \/ (pc = "skills" /\ t = Target)
  PROVE  SettledMove
  BY DEF Settled, SettledMove

LEMMA EmptyTodo ==
  ASSUME Working, pc \notin AgentSteps
  PROVE  ToSet(task.todo) = {}
  BY DEF Working, ToSet

\* What is dropped from todo is unsettled, or is no longer declared.
LEMMA LessSettled ==
  ASSUME Working, Working', UNCHANGED <<installed, materialized, copies>>,
         \A t \in Registry :
           /\ Contains(agents', t.id) => Contains(agents, t.id)
           /\ t.id \in unsettled => t.id \in unsettled'
           /\ t \in ToSet(task.todo) =>
                t \in ToSet(task'.todo) \/ t.id \in unsettled' \/ ~Contains(agents', t.id)
  PROVE  SettledMove
  BY NowSettled, ThenSettled DEF SettledMove

LEMMA AbortSettles ==
  ASSUME Working, Abort, UNCHANGED <<agents, materialized, copies>>
  PROVE  SettledMove
<1>1. Working'
  BY AbortWorks
<1>2. CASE task.undo = {}
  <2>1. unsettled' = unsettled \cup {t.id : t \in ToSet(task.todo)} /\ installed' = installed
    BY <1>2 DEF Abort
  <2>2. \A t \in Registry : t \in ToSet(task.todo) => t.id \in unsettled'
    BY <2>1
  <2>3. QED
    BY <1>1, <2>1, <2>2, LessSettled
<1>3. CASE task.undo # {}
  <2>1. Agents \subseteq unsettled'
    BY <1>3 DEF Abort
  <2>2. QED
    BY <2>1, AllUnsettled DEF SettledMove
<1>4. QED
  BY <1>2, <1>3

LEMMA CommandsSettle ==
  ASSUME Bound, AgentCommand
  PROVE  SettledMove
<1>1. /\ Working /\ Working' /\ agents \in Seq(AgentNames) /\ unsettled \in SUBSET Agents
  BY CommandsWork DEF Bound, Entered, Working
<1>2. pc = "idle" /\ ToSet(task.todo) = {}
  <2>1. pc = "idle"
    BY DEF AgentCommand, AddAgents, InitAgents, InitAgain, RemoveAgents, InstallSkill, RemoveSkill, Begin
  <2>2. QED
    BY <1>1, <2>1, EmptyTodo DEF AgentSteps, ConfigureSteps, RemovalSteps
<1>3. ASSUME NEW names \in Requests, AddAgents(names) \/ InitAgents(names) PROVE SettledMove
  <2>1. names \in Seq(STRING) /\ names \in Seq(AgentNames)
    <3>1. names \in Seq(STRING)
      BY AgentAssumption
    <3>2. STRING \subseteq AgentNames
      BY DEF AgentNames
    <3>3. QED
      BY <3>1, <3>2, WiderSeq
  <2>2. Configure(names, TRUE, {}) /\ UNCHANGED <<installed, materialized, copies>>
    BY <1>3 DEF AddAgents, InitAgents, files
  <2>3. CASE ~Resolvable(names)
    <3>1. unsettled' = Agents
      BY <2>2, <2>3 DEF Configure
    <3>2. QED
      BY <3>1, AllUnsettled DEF SettledMove
  <2>4. CASE Resolvable(names)
    <3>1. agents' = SaveSelectedAgents(agents, names)
      BY <1>3, <2>4 DEF AddAgents, InitAgents
    <3>2. task'.todo = ResolveTargets(names) /\ unsettled' = unsettled
      <4>1. {} \in SUBSET Skills
        OBVIOUS
      <4>2. QED
        BY <1>1, <2>1, <2>2, <2>4, <4>1, ConfigureType
    <3>3. ASSUME NEW t \in Registry, Settled(t.id)' PROVE Settled(t.id)
      <4>1. Contains(agents', t.id) /\ t.id \notin unsettled' /\ t \notin ToSet(task'.todo)
        BY <1>1, <3>3, ThenSettled
      <4>2. Contains(agents, t.id)
        BY <1>1, <2>1, <2>4, <3>1, <3>2, <4>1, SaveUnsettles
      <4>3. QED
        BY <1>1, <1>2, <3>2, <4>1, <4>2, NowSettled
    <3>4. QED
      BY <2>2, <3>3 DEF SettledMove
  <2>5. QED
    BY <2>3, <2>4
<1>4. ASSUME InitAgain PROVE SettledMove
  <2>1. RestoreConfiguredAgents(TRUE, {}) /\ agents' = agents /\ {} \in SUBSET Skills
    BY <1>4 DEF InitAgain, records
  <2>2. QED
    BY <1>1, <2>1, RestoreUnsettles DEF SettledMove
<1>5. ASSUME NEW s \in Skills, InstallSkill(s) PROVE SettledMove
  <2>1. RestoreConfiguredAgents(FALSE, {}) /\ agents' = agents /\ {} \in SUBSET Skills
    BY <1>5 DEF InstallSkill
  <2>2. QED
    BY <1>1, <2>1, RestoreUnsettles DEF SettledMove
<1>6. ASSUME NEW s \in Skills, RemoveSkill(s) PROVE SettledMove
  <2>1. RestoreConfiguredAgents(FALSE, {s}) /\ agents' = agents /\ {s} \in SUBSET Skills
    BY <1>6 DEF RemoveSkill
  <2>2. QED
    BY <1>1, <2>1, RestoreUnsettles DEF SettledMove
<1>7. ASSUME NEW names, RemoveAgents(names) PROVE SettledMove
  <2>1. UNCHANGED <<agents, installed, materialized, copies, unsettled>>
    BY <1>7 DEF RemoveAgents, records, files, RefuseRemoval, Finish, StartRemoval
  <2>2. QED
    BY <1>1, <1>2, <2>1, LessSettled
<1>8. QED
  BY <1>3, <1>4, <1>5, <1>6, <1>7 DEF AgentCommand

LEMMA ConfigureSettles ==
  ASSUME Bound, ConfigureStep
  PROVE  SettledMove
<1>1. Working /\ task \in Tasks /\ Working'
  BY ConfigureWorks DEF Bound, Entered, Working
<1>2. ASSUME WriteProfile PROVE SettledMove
  BY <1>2, SameSettled DEF WriteProfile, Step
<1>3. ASSUME InjectAgentConfig PROVE SettledMove
  <2>1. UNCHANGED <<agents, materialized, copies>> /\ pc = "inject"
    BY <1>3 DEF InjectAgentConfig
  <2>2. CASE Abort
    BY <1>1, <2>1, <2>2, AbortSettles
  <2>3. CASE ~Abort
    <3>1. task' = [task EXCEPT !.status = "registered"] /\ UNCHANGED <<installed, unsettled>>
      BY <1>3, <2>3 DEF InjectAgentConfig
    <3>2. task'.todo = task.todo
      BY <1>1, <3>1 DEF Tasks
    <3>3. QED
      BY <2>1, <3>1, <3>2, SameSettled
  <2>4. QED
    BY <2>2, <2>3
<1>4. ASSUME NEW l, NEW s, task' = [task EXCEPT !.left = l, !.status = s] PROVE task'.todo = task.todo
  BY <1>1, <1>4 DEF Tasks
<1>5. ASSUME ResolveClineRegistration PROVE SettledMove
  <2> DEFINE ask == task.offering /\ Existing # <<>> /\ FirstTelling = 0
             l == IF ask THEN Existing ELSE <<>>
             s == IF ClineRegistered THEN "registered" ELSE "pending"
  <2>1. /\ task' = [task EXCEPT !.left = l, !.status = s]
        /\ UNCHANGED <<agents, installed, materialized, copies, unsettled>>
    BY <1>5 DEF ResolveClineRegistration, records, files
  <2> HIDE DEF l, s, ask
  <2>2. task'.todo = task.todo
    BY <1>4, <2>1
  <2>3. QED
    BY <2>1, <2>2, SameSettled
<1>6. ASSUME NEW accepted, AnswerOffer(accepted) PROVE SettledMove
  BY <1>6, SameSettled DEF AnswerOffer, records, files
<1>7. ASSUME OfferClineGlobalRegistration PROVE SettledMove
  <2> DEFINE rest == Tail(task.left)
  <2>1. /\ UNCHANGED <<agents, installed, materialized, copies, unsettled>>
        /\ \/ task' = task
           \/ task' = [task EXCEPT !.left = rest]
           \/ task' = [task EXCEPT !.left = <<>>, !.status = "pending"]
           \/ task' = [task EXCEPT !.left = rest, !.status = "registered"]
    BY <1>7 DEF OfferClineGlobalRegistration, records
  <2> HIDE DEF rest
  <2>2. task'.todo = task.todo
    BY <1>1, <2>1 DEF Tasks
  <2>3. QED
    BY <2>1, <2>2, SameSettled
<1>8. ASSUME MigrateLegacyProxyLocations PROVE SettledMove
  <2>1. UNCHANGED <<agents, materialized, copies>>
    BY <1>8 DEF MigrateLegacyProxyLocations
  <2>2. CASE Abort
    BY <1>1, <2>1, <2>2, AbortSettles
  <2>3. CASE Step("skills")
    BY <2>1, <2>3, SameSettled DEF Step
  <2>4. QED
    BY <1>8, <2>2, <2>3 DEF MigrateLegacyProxyLocations
<1>9. ASSUME MaterializeAgentSkills PROVE SettledMove
  <2>1. Target \in Registry /\ pc = "skills" /\ copies \in [Agents -> SUBSET Skills]
    BY <1>1, <1>9, TargetType DEF MaterializeAgentSkills, AgentSteps, ConfigureSteps, Bound, Entered, Filed
  <2>2. PICK new : copies' = [copies EXCEPT ![Target.id] = new]
    BY <1>9 DEF MaterializeAgentSkills
  <2>3. \A t \in Registry : t # Target => t.id # Target.id /\ t.id \in Agents
    BY <2>1, AgentsDiffer, AgentFields
  <2>4. \A t \in Registry : copies'[t.id] = copies[t.id] \/ (pc = "skills" /\ t = Target)
    BY <2>1, <2>2, <2>3
  <2>5. QED
    BY <1>9, <2>4, SameSettled DEF MaterializeAgentSkills, Step
<1>10. ASSUME WriteAgentInstructions PROVE SettledMove
  <2>1. /\ UNCHANGED <<agents, installed, materialized, copies>> /\ unsettled' = unsettled \ {Target.id}
        /\ pc \in AgentSteps
    BY <1>10 DEF WriteAgentInstructions, records, AgentSteps, ConfigureSteps
  <2>2. Target \in Registry /\ ToSet(task.todo) = {Target} \cup ToSet(Tail(task.todo))
        /\ (Len(task.todo) = 1 => ToSet(task.todo) = {Target})
    BY <1>1, <2>1, TargetType
  <2>3. ToSet(task.todo) \subseteq {Target} \cup ToSet(task'.todo)
    <3>1. CASE Len(task.todo) = 1
      BY <2>2, <3>1
    <3>2. CASE Len(task.todo) # 1
      <4>1. task' = [task EXCEPT !.todo = Tail(@), !.status = NoStatus]
        BY <1>10, <3>2 DEF WriteAgentInstructions
      <4>2. PICK k : k = [task EXCEPT !.todo = Tail(@), !.status = NoStatus]
        OBVIOUS
      <4>3. k.todo = Tail(task.todo)
        BY <1>1, <2>1, <4>2, NextTarget
      <4>4. QED
        BY <2>2, <4>1, <4>2, <4>3
    <3>3. QED
      BY <3>1, <3>2
  <2>4. ASSUME NEW t \in Registry, Settled(t.id)', t # Target PROVE Settled(t.id)
    <3>1. t.id # Target.id
      BY <2>2, <2>4, AgentsDiffer
    <3>2. QED
      BY <1>1, <2>1, <2>3, <2>4, <3>1, NowSettled, ThenSettled
  <2>5. QED
    BY <1>10, <2>1, <2>4 DEF SettledMove
<1>11. QED
  BY <1>2, <1>3, <1>5, <1>6, <1>7, <1>8, <1>9, <1>10 DEF ConfigureStep

\* A step of a removal works on one agent, comes to the next, or fails.
RemovalMove ==
  /\ pc \in RemovalSteps
  /\ UNCHANGED <<materialized, copies, locked, menu>>
  /\ \/ /\ pc = "drop" /\ pc' = "entry" /\ agents' = RemoveSelectedAgents(agents, Target.id)
        /\ UNCHANGED <<task, installed, unsettled>>
     \/ /\ pc # "drop" /\ pc' \in RemovalSteps \ {"drop"} /\ task'.todo = task.todo
        /\ UNCHANGED <<agents, installed, unsettled>>
     \/ pc # "drop" /\ NextRemoval /\ UNCHANGED <<agents, installed, unsettled>>
     \/ pc # "drop" /\ Abort /\ UNCHANGED agents

LEMMA RemovalMoves ==
  ASSUME Working, RemovalStep
  PROVE  RemovalMove
<1>1. task \in Tasks
  BY DEF Working
<1>2. ASSUME NEW l, task' = [task EXCEPT !.left = l] PROVE task'.todo = task.todo
  BY <1>1, <1>2 DEF Tasks
<1>3. ASSUME DropAgent PROVE RemovalMove
  BY <1>3 DEF DropAgent, RemovalMove, RemovalSteps, files, bounds
<1>4. ASSUME RemoveEntry PROVE RemovalMove
  BY <1>4 DEF RemoveEntry, Step, RemovalMove, RemovalSteps, bounds
<1>5. ASSUME RemoveBlock PROVE RemovalMove
  BY <1>5 DEF RemoveBlock, Step, RemovalMove, RemovalSteps, bounds
<1>6. ASSUME RemoveProfile PROVE RemovalMove
  <2>1. pc = "forget" /\ UNCHANGED <<agents, installed, materialized, locked, copies, unsettled, menu>>
    BY <1>6 DEF RemoveProfile, records, bounds
  <2>2. CASE NextRemoval
    BY <2>1, <2>2 DEF RemovalMove, RemovalSteps
  <2>3. CASE ~NextRemoval
    <3>1. pc' = "ask" /\ task' = [task EXCEPT !.left = Existing]
      BY <1>6, <2>3 DEF RemoveProfile
    <3>2. QED
      BY <1>2, <2>1, <3>1 DEF RemovalMove, RemovalSteps
  <2>4. QED
    BY <2>2, <2>3
<1>7. ASSUME NEW accepted, AnswerRemoval(accepted) PROVE RemovalMove
  BY <1>7 DEF AnswerRemoval, RemovalMove, RemovalSteps, records, files, bounds
<1>8. ASSUME RemoveClineGlobalRegistration PROVE RemovalMove
  <2>1. pc = "unregister" /\ UNCHANGED <<agents, installed, materialized, locked, copies, unsettled, menu>>
    BY <1>8 DEF RemoveClineGlobalRegistration, records, bounds
  <2>2. CASE NextRemoval
    BY <2>1, <2>2 DEF RemovalMove, RemovalSteps
  <2>3. CASE ~NextRemoval
    <3>1. task' = [task EXCEPT !.left = Tail(@)] /\ pc' = pc
      BY <1>8, <2>3 DEF RemoveClineGlobalRegistration
    <3>2. QED
      BY <1>2, <2>1, <3>1 DEF RemovalMove, RemovalSteps
  <2>4. QED
    BY <2>2, <2>3
<1>9. QED
  BY <1>3, <1>4, <1>5, <1>6, <1>7, <1>8 DEF RemovalStep

LEMMA DropsOne ==
  ASSUME agents \in Seq(AgentNames), NEW id, NEW kept, kept = RemoveSelectedAgents(agents, id)
  PROVE  ~Contains(kept, id) /\ \A other : Contains(kept, other) => Contains(agents, other)
<1>1. ToSet(kept) = ToSet(agents) \cap (ToSet(agents) \ {id})
  BY KeepElements DEF RemoveSelectedAgents
<1>2. kept \in Seq(AgentNames \cap (ToSet(agents) \ {id}))
  BY KeepType DEF RemoveSelectedAgents
<1> DEFINE U == AgentNames \cap (ToSet(agents) \ {id})
<1>3. kept \in Seq(U) /\ DOMAIN kept = 1..Len(kept) /\ DOMAIN agents = 1..Len(agents)
  BY <1>2
<1> HIDE DEF U
<1>4. \A other : Contains(kept, other) <=> other \in ToSet(kept)
  BY <1>3 DEF Contains, ToSet
<1>5. \A other : Contains(agents, other) <=> other \in ToSet(agents)
  BY <1>3 DEF Contains, ToSet
<1>6. QED
  BY <1>1, <1>4, <1>5

\* From its first change on, the agent that is removed is no longer declared.
Dropped == pc \in RemovalSteps \ {"drop"} => ~Contains(agents, Target.id)

LEMMA RemovalSettles ==
  ASSUME Bound, Dropped, RemovalStep
  PROVE  SettledMove
<1>1. Working /\ Working' /\ agents \in Seq(AgentNames) /\ pc \in AgentSteps
  BY RemovalWorks, RemovalMoves DEF Bound, Entered, RemovalMove, AgentSteps
<1>2. UNCHANGED <<materialized, copies>> /\ RemovalMove
  BY <1>1, RemovalMoves DEF RemovalMove
<1>3. CASE agents' = RemoveSelectedAgents(agents, Target.id) /\ UNCHANGED <<task, installed, unsettled>>
  <2>1. \A id : Contains(agents', id) => Contains(agents, id)
    BY <1>1, <1>3, DropsOne
  <2>2. QED
    BY <1>1, <1>2, <1>3, <2>1, LessSettled
<1>4. CASE task'.todo = task.todo /\ UNCHANGED <<agents, installed, unsettled>>
  BY <1>2, <1>4, SameSettled
<1>5. CASE pc # "drop" /\ NextRemoval /\ UNCHANGED <<agents, installed, unsettled>>
  <2>1. ~Contains(agents', Target.id)
    BY <1>2, <1>5 DEF Dropped, RemovalMove
  <2>2. Target \in Registry /\ ToSet(task.todo) = {Target} \cup ToSet(Tail(task.todo))
        /\ (Len(task.todo) = 1 => ToSet(task.todo) = {Target})
    BY <1>1, TargetType
  <2>3. ToSet(task.todo) \subseteq {Target} \cup ToSet(task'.todo)
    <3>1. CASE Len(task.todo) = 1
      BY <2>2, <3>1
    <3>2. CASE Len(task.todo) # 1
      <4>1. task' = [task EXCEPT !.todo = Tail(@)]
        BY <1>5, <3>2 DEF NextRemoval
      <4>2. PICK k : k = [task EXCEPT !.todo = Tail(@)]
        OBVIOUS
      <4>3. k.todo = Tail(task.todo)
        BY <1>1, <4>2, NextTarget
      <4>4. QED
        BY <2>2, <4>1, <4>2, <4>3
    <3>3. QED
      BY <3>1, <3>2
  <2>4. \A t \in Registry : t \in ToSet(task.todo) => t \in ToSet(task'.todo) \/ ~Contains(agents', t.id)
    BY <2>1, <2>3
  <2>5. QED
    BY <1>1, <1>2, <1>5, <2>4, LessSettled
<1>6. CASE Abort /\ UNCHANGED agents
  BY <1>1, <1>2, <1>6, AbortSettles
<1>7. QED
  BY <1>2, <1>3, <1>4, <1>5, <1>6 DEF RemovalMove

LEMMA KillSettles ==
  ASSUME Bound, Kill
  PROVE  SettledMove
<1>1. Working /\ Working'
  BY AgentWorks DEF Bound, Entered, AgentNext
<1>2. UNCHANGED <<agents, installed, materialized, copies>> /\ unsettled' = unsettled \cup {t.id : t \in ToSet(task.todo)}
  BY DEF Kill, records, files, TearConfig, TearNotes
<1>3. \A t \in Registry : t \in ToSet(task.todo) => t.id \in unsettled'
  BY <1>2
<1>4. QED
  BY <1>1, <1>2, <1>3, LessSettled

LEMMA EditsSettle ==
  ASSUME EditFile
  PROVE  SettledMove
  BY SameSettled DEF EditFile, records, control

LEMMA AgentSettles ==
  ASSUME Bound, Dropped, AgentNext
  PROVE  SettledMove
  BY CommandsSettle, ConfigureSettles, RemovalSettles, KillSettles, EditsSettle
  DEF AgentNext, EditConfig, EditSettings, EditNotes

\* Where a step about the agents goes.
AgentFlow ==
  /\ UNCHANGED <<locked, menu>>
  /\ \/ pc = "idle" /\ menu = "agents" /\ pc' \in {"idle", "profile", "drop"}
     \/ pc \in ConfigureSteps /\ pc' \in ConfigureSteps \cup {"idle"} /\ agents' = agents
     \/ RemovalMove
     \/ pc \in AgentSteps /\ pc' = "idle" /\ agents' = agents
     \/ pc \in {"idle", "confirm", "ask"} /\ menu = "agents" /\ UNCHANGED <<agents, pc, task, unsettled>>

LEMMA AgentFlows ==
  ASSUME Bound, AgentNext
  PROVE  AgentFlow
<1>1. Working /\ agents \in Seq(AgentNames) /\ unsettled \in SUBSET Agents
  BY DEF Bound, Entered, Working
<1>2. ASSUME NEW offering \in BOOLEAN, NEW undo \in SUBSET Skills, RestoreConfiguredAgents(offering, undo)
      PROVE  pc' \in {"idle", "profile"}
  BY <1>1, <1>2, RestoreType
<1>3. ASSUME NEW names \in Requests, AddAgents(names) \/ InitAgents(names) PROVE AgentFlow
  <2>1. pc' \in {"idle", "profile"}
    BY <1>3 DEF AddAgents, InitAgents, Configure
  <2>2. QED
    BY <1>3, <2>1 DEF AddAgents, InitAgents, Begin, AgentFlow
<1>4. ASSUME NEW names \in Requests, RemoveAgents(names) PROVE AgentFlow
  <2>1. pc' \in {"idle", "drop"} /\ pc = "idle"
    BY <1>4 DEF RemoveAgents, Begin, RefuseRemoval, Finish, StartRemoval
  <2>2. QED
    BY <1>4, <2>1 DEF RemoveAgents, Begin, records, AgentFlow
<1>5. ASSUME InitAgain PROVE AgentFlow
  <2>1. pc' \in {"idle", "profile"}
    BY <1>2, <1>5 DEF InitAgain
  <2>2. QED
    BY <1>5, <2>1 DEF InitAgain, Begin, records, AgentFlow
<1>6. ASSUME NEW s \in Skills, InstallSkill(s) \/ RemoveSkill(s) PROVE AgentFlow
  <2>1. pc' \in {"idle", "profile"}
    <3>1. RestoreConfiguredAgents(FALSE, {}) \/ RestoreConfiguredAgents(FALSE, {s})
      BY <1>6 DEF InstallSkill, RemoveSkill
    <3>2. {} \in SUBSET Skills /\ {s} \in SUBSET Skills
      OBVIOUS
    <3>3. QED
      BY <1>2, <3>1, <3>2
  <2>2. QED
    BY <1>6, <2>1 DEF InstallSkill, RemoveSkill, Begin, AgentFlow
<1>7. ASSUME WriteProfile \/ InjectAgentConfig \/ ResolveClineRegistration PROVE AgentFlow
  BY <1>7 DEF WriteProfile, InjectAgentConfig, ResolveClineRegistration, Step, Abort, AgentFlow, records,
       files, bounds, ConfigureSteps
<1>8. ASSUME NEW accepted, AnswerOffer(accepted) PROVE AgentFlow
  BY <1>8 DEF AnswerOffer, records, bounds, AgentFlow, ConfigureSteps
<1>9. ASSUME OfferClineGlobalRegistration PROVE AgentFlow
  BY <1>9 DEF OfferClineGlobalRegistration, records, bounds, AgentFlow, ConfigureSteps
<1>10. ASSUME MigrateLegacyProxyLocations \/ MaterializeAgentSkills PROVE AgentFlow
  BY <1>10 DEF MigrateLegacyProxyLocations, MaterializeAgentSkills, Step, Abort, bounds, AgentFlow, ConfigureSteps
<1>11. ASSUME WriteAgentInstructions PROVE AgentFlow
  BY <1>11 DEF WriteAgentInstructions, records, bounds, AgentFlow, ConfigureSteps
<1>12. ASSUME RemovalStep PROVE AgentFlow
  BY <1>1, <1>12, RemovalMoves DEF AgentFlow, RemovalMove
<1>13. ASSUME Kill PROVE AgentFlow
  <2>1. pc \in AgentSteps
    BY <1>1, <1>13 DEF Kill, Working
  <2>2. QED
    BY <1>13, <2>1 DEF Kill, records, AgentFlow
<1>14. ASSUME EditFile PROVE AgentFlow
  BY <1>14 DEF EditFile, records, control, AgentFlow
<1>15. QED
  BY <1>3, <1>4, <1>5, <1>6, <1>7, <1>8, <1>9, <1>10, <1>11, <1>12, <1>13, <1>14
  DEF AgentNext, AgentCommand, ConfigureStep, EditConfig, EditSettings, EditNotes

LEMMA RestoreLeaves ==
  ASSUME Bound, RestoreConfiguredAgents(FALSE, {})
  PROVE  pc' \in {"idle", "profile"}
<1>1. agents \in Seq(AgentNames) /\ unsettled \in SUBSET Agents /\ {} \in SUBSET Skills
  BY DEF Bound, Entered, Working
<1>2. QED
  BY <1>1, RestoreType

LEMMA DroppedNext ==
  ASSUME Bound, Dropped, [Next]_vars
  PROVE  Dropped'
<1>1. Working /\ agents \in Seq(AgentNames)
  BY DEF Bound, Entered
<1>2. CASE AgentNext
  <2>1. AgentFlow
    BY <1>1, <1>2, AgentFlows
  <2>2. CASE RemovalMove
    <3>1. CASE pc = "drop" /\ agents' = RemoveSelectedAgents(agents, Target.id) /\ task' = task
      <4>1. ~Contains(agents', Target.id) /\ Target' = Target
        BY <1>1, <3>1, DropsOne DEF Target
      <4>2. QED
        BY <4>1 DEF Dropped, Contains
    <3>2. CASE pc # "drop" /\ task'.todo = task.todo /\ agents' = agents
      BY <2>2, <3>2 DEF Dropped, RemovalMove, Target, Contains
    <3>3. CASE NextRemoval \/ Abort
      BY <3>3 DEF Dropped, NextRemoval, Abort, RemovalSteps
    <3>4. QED
      BY <2>2, <3>1, <3>2, <3>3 DEF RemovalMove
  <2>3. CASE pc' \in ConfigureSteps \cup {"idle", "drop"}
    BY <2>3 DEF Dropped, ConfigureSteps, RemovalSteps
  <2>4. CASE UNCHANGED <<agents, pc, task>>
    BY <2>4 DEF Dropped, Target, Contains
  <2>5. QED
    BY <2>1, <2>2, <2>3, <2>4 DEF AgentFlow, ConfigureSteps
<1>3. CASE KitMove \/ EnvMove
  <2>1. pc' \in KitSteps \cup EnvSteps \cup {"idle", "profile"}
    BY <1>3, RestoreLeaves DEF KitMove, EnvMove
  <2>2. QED
    BY <2>1 DEF Dropped, KitSteps, EnvSteps, RemovalSteps
<1>4. CASE Stays
  BY <1>4 DEF Dropped, Stays, Target, Contains
<1>5. QED
  BY <1>2, <1>3, <1>4, Moves

-----------------------------------------------------------------------------
(* The lock and the manifest.                                              *)

\* The lock says of the toolkit what the manifest and the agents say, but while
\* an installation or a removal is between the two, and after one that was
\* killed there: then every agent is unsettled.
Fresh == locked = BuildToolkitLockEntries(toolkit, agents)
LockIsFresh ==
  /\ menu # "toolkits" => toolkit = NoToolkit /\ locked = NoToolkit
  /\ pc \in RemovalSteps => menu = "agents"
  /\ pc = "relock" => locked = BuildToolkitLockEntries(kit.previous, agents) \/ unsettled = Agents
  /\ pc # "relock" => Fresh \/ unsettled = Agents
  /\ pc \in AgentSteps \cup {"question", "uninstall"} \/ (pc = "run" /\ kit.mode = "restore") => Fresh

LEMMA LockInit ==
  ASSUME Init
  PROVE  LockIsFresh
<1>1. PICK scene \in Scenes : AgentInit(scene) /\ ToolkitInit(scene)
  BY DEF Init
<1>2. locked = NoToolkit /\ toolkit = NoToolkit /\ pc = "idle" /\ unsettled = Agents
  BY <1>1 DEF AgentInit, ToolkitInit
<1>3. QED
  BY <1>2 DEF LockIsFresh, Fresh, BuildToolkitLockEntries, RemovalSteps

LEMMA AgentLock ==
  ASSUME Bound, LockIsFresh, AgentNext, toolkit' = toolkit
  PROVE  LockIsFresh'
<1>1. AgentFlow
  BY AgentFlows
<1>2. /\ UNCHANGED <<menu, locked, toolkit>>
      /\ pc' \in AgentSteps \cup {"idle"}
      /\ pc' \in RemovalSteps => menu = "agents"
      /\ menu = "agents" \/ (pc \in AgentSteps /\ agents' = agents)
  <2>1. \A s \in AgentSteps : s \in ConfigureSteps \/ s \in RemovalSteps
    BY DEF AgentSteps
  <2>2. CASE RemovalMove
    <3>1. pc \in RemovalSteps /\ menu = "agents"
      BY <2>2 DEF RemovalMove, LockIsFresh
    <3>2. pc' \in RemovalSteps \cup {"idle"}
      BY <2>2 DEF RemovalMove, NextRemoval, Abort, RemovalSteps
    <3>3. QED
      BY <1>1, <3>1, <3>2 DEF AgentFlow, AgentSteps
  <2>3. CASE ~RemovalMove
    BY <1>1, <2>1, <2>3 DEF AgentFlow, LockIsFresh, AgentSteps, ConfigureSteps, RemovalSteps
  <2>4. QED
    BY <2>2, <2>3
<1>3. Fresh'
  <2>1. CASE menu = "agents"
    BY <1>2, <2>1 DEF LockIsFresh, Fresh, BuildToolkitLockEntries
  <2>2. CASE pc \in AgentSteps /\ agents' = agents
    BY <1>2, <2>2 DEF LockIsFresh, Fresh, BuildToolkitLockEntries
  <2>3. QED
    BY <1>2, <2>1, <2>2
<1>4. QED
  BY <1>2, <1>3 DEF LockIsFresh, AgentSteps, ConfigureSteps, RemovalSteps

\* What a step about the toolkit leaves of the lock, and of who is settled.
KitLocks ==
  /\ pc' = "relock" => locked' = BuildToolkitLockEntries(kit'.previous, agents') \/ unsettled' = Agents
  /\ pc' # "relock" => Fresh' \/ unsettled' = Agents
  /\ pc' \in AgentSteps \cup {"question", "uninstall"} \/ (pc' = "run" /\ kit'.mode = "restore") => Fresh'
  /\ \/ Nobody
     \/ pc' \in {"question", "uninstall"}
     \/ pc \notin {"question", "uninstall"} /\ UNCHANGED <<locked, task, unsettled>>

LEMMA KitKeeps ==
  ASSUME LockIsFresh, UNCHANGED <<locked, toolkit, agents, task, unsettled>>,
         pc \notin {"relock", "question", "uninstall"},
         pc' \notin AgentSteps \cup {"relock", "question", "uninstall"},
         pc' = "run" /\ kit'.mode = "restore" => pc = "run" /\ kit.mode = "restore"
  PROVE  KitLocks
  BY DEF LockIsFresh, KitLocks, Fresh, BuildToolkitLockEntries

LEMMA KitLeavesBehind ==
  ASSUME unsettled' = Agents, pc' = "idle"
  PROVE  KitLocks
<1>1. Nobody
  BY AllUnsettled
<1>2. QED
  BY <1>1 DEF KitLocks, AgentSteps, ConfigureSteps, RemovalSteps

LEMMA KitRestores ==
  ASSUME Bound, KitMove, RestoreConfiguredAgents(FALSE, {}), Fresh'
  PROVE  KitLocks
<1>1. pc' \in {"idle", "profile"}
  BY RestoreLeaves
<1>2. Nobody
  <2>1. Working' /\ agents \in Seq(AgentNames) /\ unsettled \in SUBSET Agents /\ agents' = agents
    BY KitWorks DEF Bound, Entered, Working, KitMove, Apart
  <2>2. {} \in SUBSET Skills /\ FALSE \in BOOLEAN
    OBVIOUS
  <2>3. QED
    BY <2>1, <2>2, RestoreUnsettles
<1>3. QED
  BY <1>1, <1>2 DEF KitLocks

LEMMA KitLock ==
  ASSUME Plan, Bound, LockIsFresh, ToolkitNext
  PROVE  LockIsFresh' /\ KitLocks
<1>1. KitMove /\ agents' = agents /\ menu' = menu
  BY KitMoves DEF KitMove, Apart
<1>2. \A s \in {"idle", "proceed", "run", "rollback", "record"} : s \notin AgentSteps
  BY DEF AgentSteps, ConfigureSteps, RemovalSteps
<1>3. ASSUME NEW v, NEW g, InstallToolkit(v, g) PROVE KitLocks
  <2>1. /\ pc = "idle" /\ pc' \in {"idle", "record", "proceed"}
        /\ UNCHANGED <<locked, toolkit, task, unsettled>>
    BY <1>3 DEF InstallToolkit, BeginKit, Begin, Leave
  <2>2. QED
    BY <1>1, <1>2, <2>1, KitKeeps
<1>4. ASSUME RefuseToolkit PROVE KitLocks
  BY <1>1, <1>2, <1>4, KitKeeps DEF RefuseToolkit, BeginKit, Begin, Leave
<1>5. ASSUME NEW accepted, Proceed(accepted) PROVE KitLocks
  <2>1. /\ pc = "proceed" /\ pc' \in {"idle", "run"}
        /\ UNCHANGED <<locked, toolkit, task, unsettled>>
    BY <1>5 DEF Proceed, At, Leave, records
  <2>2. kit'.mode # "restore"
    BY <1>5, <2>1 DEF Proceed, Plan, Proceeding, KitTyped, Kits
  <2>3. QED
    BY <1>1, <1>2, <2>1, <2>2, KitKeeps
<1>6. ASSUME RunToolkitCommand PROVE KitLocks
  <2>1. pc = "run" /\ pc' = "run" /\ UNCHANGED <<locked, toolkit, task, unsettled>>
    BY <1>6 DEF RunToolkitCommand, control, records
  <2>2. kit'.mode = kit.mode
    BY <1>6 DEF RunToolkitCommand, Plan, KitTyped, Kits
  <2>3. QED
    BY <1>1, <1>2, <2>1, <2>2, KitKeeps
<1>7. ASSUME ToolkitCommandFails PROVE KitLocks
  <2>1. pc = "run" /\ pc' = "rollback" /\ UNCHANGED <<locked, toolkit, task, unsettled>>
    BY <1>7 DEF ToolkitCommandFails, At, records
  <2>2. QED
    BY <1>1, <1>2, <2>1, KitKeeps
<1>8. ASSUME ToolkitCommandsDone PROVE KitLocks
  <2>1. pc = "run" /\ UNCHANGED <<locked, toolkit>> /\ kit.mode \in {"install", "restore"}
    BY <1>8 DEF ToolkitCommandsDone, records, Plan, Running
  <2>2. CASE kit.mode = "install"
    <3>1. pc' = "record" /\ UNCHANGED <<task, unsettled>>
      BY <1>8, <2>2 DEF ToolkitCommandsDone, At
    <3>2. QED
      BY <1>1, <1>2, <2>1, <3>1, KitKeeps
  <2>3. CASE kit.mode = "restore"
    <3>1. RestoreConfiguredAgents(FALSE, {})
      BY <1>8, <2>3 DEF ToolkitCommandsDone
    <3>2. Fresh'
      BY <1>1, <2>1, <2>3 DEF LockIsFresh, Fresh, BuildToolkitLockEntries
    <3>3. QED
      BY <1>1, <3>1, <3>2, KitRestores
  <2>4. QED
    BY <2>1, <2>2, <2>3
<1>9. ASSUME RollbackNewToolkitPaths PROVE KitLocks
  <2>1. pc = "rollback" /\ pc' = "idle" /\ UNCHANGED <<locked, toolkit, task, unsettled>>
    BY <1>9 DEF RollbackNewToolkitPaths, Leave, records
  <2>2. QED
    BY <1>1, <1>2, <2>1, KitKeeps
<1>10. ASSUME pc' = "relock", kit'.previous = toolkit, pc \in {"idle", "record"},
              UNCHANGED <<locked, task, unsettled>>
       PROVE  KitLocks
  BY <1>1, <1>10 DEF KitLocks, LockIsFresh, Fresh, BuildToolkitLockEntries, AgentSteps, ConfigureSteps, RemovalSteps
<1>11. ASSUME RecordToolkit PROVE KitLocks
  <2>1. pc = "record" /\ pc' = "relock" /\ UNCHANGED <<locked, task, unsettled>>
    BY <1>11 DEF RecordToolkit, At, records
  <2>2. kit'.previous = toolkit
    BY <1>11 DEF RecordToolkit, Plan, KitTyped, Kits
  <2>3. QED
    BY <1>10, <2>1, <2>2
<1>12. ASSUME Relock PROVE KitLocks
  <2>1. Fresh'
    BY <1>1, <1>12 DEF Relock, kitVars, Fresh, BuildToolkitLockEntries
  <2>2. CASE At("question")
    BY <2>1, <2>2 DEF At, KitLocks
  <2>3. CASE RestoreConfiguredAgents(FALSE, {})
    BY <1>1, <2>1, <2>3, KitRestores
  <2>4. QED
    BY <1>12, <2>2, <2>3 DEF Relock
<1>13. ASSUME RelockFails PROVE KitLocks
  <2>1. /\ pc = "relock" /\ pc' = "idle" /\ toolkit' = kit.previous
        /\ UNCHANGED <<locked, task, unsettled>>
    BY <1>13 DEF RelockFails, Leave, records
  <2>2. QED
    BY <1>1, <1>2, <2>1 DEF KitLocks, LockIsFresh, Fresh, BuildToolkitLockEntries
<1>14. ASSUME RemoveToolkit PROVE KitLocks
  <2>1. pc = "idle" /\ UNCHANGED <<locked, task, unsettled>>
    BY <1>14 DEF RemoveToolkit, BeginKit, Begin, Leave
  <2>2. CASE toolkit = NoToolkit
    <3>1. pc' = "idle" /\ toolkit' = toolkit
      BY <1>14, <2>2 DEF RemoveToolkit, Leave
    <3>2. QED
      BY <1>1, <1>2, <2>1, <3>1, KitKeeps
  <2>3. CASE toolkit # NoToolkit
    <3>1. pc' = "relock" /\ kit' = [NoKit EXCEPT !.mode = "remove", !.previous = toolkit, !.entry = locked]
      BY <1>14, <2>3 DEF RemoveToolkit
    <3>2. kit'.previous = toolkit
      BY <3>1 DEF NoKit
    <3>3. QED
      BY <1>10, <2>1, <3>1, <3>2
  <2>4. QED
    BY <2>2, <2>3
<1>15. ASSUME pc \in {"question", "uninstall"}, UNCHANGED <<locked, toolkit>> PROVE Fresh'
  BY <1>1, <1>15 DEF LockIsFresh, Fresh, BuildToolkitLockEntries
<1>16. ASSUME NEW accepted, AnswerDeletion(accepted) PROVE KitLocks
  <2>1. Fresh'
    BY <1>15, <1>16 DEF AnswerDeletion, records
  <2>2. CASE At("uninstall")
    BY <2>1, <2>2 DEF At, KitLocks
  <2>3. CASE RestoreConfiguredAgents(FALSE, {})
    BY <1>1, <2>1, <2>3, KitRestores
  <2>4. QED
    BY <1>16, <2>2, <2>3 DEF AnswerDeletion
<1>17. ASSUME UninstallIntegration PROVE KitLocks
  <2>1. Fresh' /\ pc = "uninstall"
    BY <1>15, <1>17 DEF UninstallIntegration, records
  <2>2. CASE LeaveBehind
    BY <2>2, KitLeavesBehind DEF LeaveBehind
  <2>3. CASE UNCHANGED control
    BY <2>1, <2>3 DEF control, KitLocks
  <2>4. QED
    BY <1>17, <2>2, <2>3 DEF UninstallIntegration
<1>18. ASSUME DeleteToolkitPaths PROVE KitLocks
  <2>1. Fresh'
    BY <1>15, <1>18 DEF DeleteToolkitPaths, records
  <2>2. CASE LeaveBehind
    BY <2>2, KitLeavesBehind DEF LeaveBehind
  <2>3. CASE RestoreConfiguredAgents(FALSE, {})
    BY <1>1, <2>1, <2>3, KitRestores
  <2>4. QED
    BY <1>18, <2>2, <2>3 DEF DeleteToolkitPaths
<1>19. ASSUME NEW mode \in {"install", "ci"}, RestoreToolkits(mode) PROVE KitLocks
  <2> DEFINE built == BuildToolkitLockEntries(toolkit, agents)
             lock == IF mode = "install" THEN built ELSE locked
             state == DetectToolkitState(lock, disk, globalTool)
  <2>1. pc = "idle" /\ toolkit' = toolkit /\ locked' = lock
    BY <1>19 DEF RestoreToolkits, BeginKit, Begin
  <2>2. lock = built <=> Fresh'
    BY <1>1, <2>1 DEF Fresh, BuildToolkitLockEntries
  <2>3. lock = locked \/ lock = built
    OBVIOUS
  <2>4. \/ Leave("failed") /\ kit' = NoKit
        \/ lock = built /\ RestoreConfiguredAgents(FALSE, {})
        \/ lock = built /\ pc' = "run" /\ UNCHANGED <<task, unsettled>>
    <3>1. CASE (mode = "ci" /\ locked # built) \/ (lock # NoToolkit /\ state = "mismatch")
      BY <1>19, <3>1 DEF RestoreToolkits
    <3>2. CASE ~((mode = "ci" /\ locked # built) \/ (lock # NoToolkit /\ state = "mismatch"))
      <4>1. lock = built
        BY <1>19, <3>2
      <4>2. QED
        BY <1>19, <3>2, <4>1 DEF RestoreToolkits
    <3>3. QED
      BY <3>1, <3>2
  <2> HIDE DEF lock, built, state
  <2>5. locked = built <=> Fresh
    BY DEF Fresh, built
  <2>6. CASE RestoreConfiguredAgents(FALSE, {}) /\ lock = built
    BY <1>1, <2>2, <2>6, KitRestores
  <2>7. CASE pc' \in {"idle", "run"} /\ UNCHANGED <<task, unsettled>> /\ (pc' = "run" => lock = built)
    <3>1. CASE locked' = locked
      BY <1>1, <1>2, <2>1, <2>2, <2>7, <3>1 DEF KitLocks, LockIsFresh, Fresh, BuildToolkitLockEntries
    <3>2. CASE locked' # locked
      <4>1. Fresh' /\ ~Fresh
        BY <2>1, <2>2, <2>3, <2>5, <3>2
      <4>2. unsettled' = Agents
        BY <2>1, <2>7, <4>1 DEF LockIsFresh
      <4>3. Nobody
        BY <4>2, AllUnsettled
      <4>4. QED
        BY <2>7, <4>1, <4>3 DEF KitLocks
    <3>3. QED
      BY <3>1, <3>2
  <2>8. QED
    BY <2>4, <2>6, <2>7 DEF Leave
<1>20. ASSUME KillToolkit PROVE KitLocks
  BY <1>20, KitLeavesBehind DEF KillToolkit
<1>21. ASSUME NEW f, EditDisk(f) PROVE KitLocks
  <2>1. pc \in {"proceed", "question"} /\ UNCHANGED <<locked, toolkit, pc, task, unsettled>>
    BY <1>21 DEF EditDisk, records, control
  <2>2. CASE pc = "proceed"
    BY <1>1, <1>2, <2>1, <2>2, KitKeeps
  <2>3. CASE pc = "question"
    BY <1>1, <1>15, <2>1, <2>3 DEF KitLocks
  <2>4. QED
    BY <2>1, <2>2, <2>3
<1>22. KitLocks
  BY <1>3, <1>4, <1>5, <1>6, <1>7, <1>8, <1>9, <1>11, <1>12, <1>13, <1>14, <1>16, <1>17, <1>18, <1>19, <1>20,
     <1>21 DEF ToolkitNext
<1>23. LockIsFresh'
  <2>1. menu = "toolkits"
    <3>1. CASE pc \in KitSteps
      BY <3>1 DEF Plan, InKitMenu
    <3>2. CASE pc \notin KitSteps
      BY <3>2 DEF ToolkitNext, InstallToolkit, RefuseToolkit, RemoveToolkit, RestoreToolkits, BeginKit, Begin,
           Proceed, AnswerDeletion, RunToolkitCommand, ToolkitCommandFails, ToolkitCommandsDone,
           RollbackNewToolkitPaths, RecordToolkit, Relock, RelockFails, UninstallIntegration,
           DeleteToolkitPaths, KillToolkit, EditDisk, KitSteps
    <3>3. QED
      BY <3>1, <3>2
  <2>2. pc' \notin RemovalSteps
    BY <1>1, RestoreLeaves DEF KitMove, KitSteps, RemovalSteps
  <2>3. QED
    BY <1>1, <1>22, <2>1, <2>2 DEF LockIsFresh, KitLocks, Fresh, BuildToolkitLockEntries
<1>24. QED
  BY <1>22, <1>23

LEMMA LockNext ==
  ASSUME Plan, Bound, LockIsFresh, [Next]_vars
  PROVE  LockIsFresh'
<1>1. CASE ToolkitNext
  BY <1>1, KitLock
<1>2. CASE ~ToolkitNext
  <2>1. kit' = kit
    BY <1>2 DEF Next, Rest, vars, kitVars
  <2>2. CASE AgentNext /\ UNCHANGED toolkit
    BY <2>2, AgentLock
  <2>3. CASE EnvMove /\ UNCHANGED toolkit
    BY <2>3 DEF EnvMove, Apart, LockIsFresh, Fresh, BuildToolkitLockEntries, EnvSteps, AgentSteps, ConfigureSteps,
         RemovalSteps
  <2>4. CASE Stays /\ UNCHANGED toolkit
    BY <2>1, <2>4 DEF Stays, LockIsFresh, Fresh, BuildToolkitLockEntries
  <2>5. QED
    BY <1>2, <2>2, <2>3, <2>4, Moves
<1>3. QED
  BY <1>1, <1>2

-----------------------------------------------------------------------------
(* What the instructions say.                                              *)

\* A step adds nothing to what a file says, but the block of the agent that is
\* configured to the file of that agent.
SaysNoMore(f) ==
  f \notin torn' =>
    /\ f \notin torn
    /\ \/ Said(notes'[f]) \subseteq Said(notes[f])
       \/ /\ pc = "notes" /\ f = Target.notes
          /\ Said(notes'[f]) = {RenderAgentCapabilityBlock[2]}

LEMMA PlainlySilent ==
  ASSUME NEW text, Plainly(text)
  PROVE  Said(text) = {}
<1>1. \A token \in ToSet(text) : token = UserText
  BY DEF Plainly, Users, ToSet
<1>2. UserText \notin Blocks
  BY TokenKinds
<1>3. QED
  BY <1>1, <1>2 DEF Said

LEMMA SaidMoves ==
  ASSUME Bound, ForeignInv, NotesMove, NEW f \in NoteFiles
  PROVE  SaysNoMore(f)
<1>1. notes \in [NoteFiles -> Seq(Tokens)] /\ Working /\ (f \notin torn => Shaped(notes[f]))
  BY DEF Bound, Entered, Filed, ForeignInv
<1>2. CASE notes' = notes /\ \A g \in NoteFiles : g \in torn => g \in torn'
  BY <1>2 DEF SaysNoMore
<1>3. ASSUME NEW g \in NoteFiles, NEW text \in Seq(Tokens), notes' = [notes EXCEPT ![g] = text],
             Says(g, text) \/ Silences(g, text) \/ Adds(g, text) \/ TornNote(g, text)
      PROVE  SaysNoMore(f)
  <2>1. f \in torn => f \in torn'
    BY <1>3 DEF Says, Silences, Adds, TornNote
  <2>2. CASE g # f
    <3>1. notes'[f] = notes[f]
      BY <1>1, <1>3, <2>2
    <3>2. QED
      BY <2>1, <3>1 DEF SaysNoMore
  <2>3. CASE g = f /\ f \notin torn'
    <3>1. notes'[f] = text /\ Shaped(notes[f]) /\ f \notin torn
      BY <1>1, <1>3, <2>1, <2>3
    <3>2. ASSUME Says(f, text) PROVE SaysNoMore(f)
      <4>1. PICK b : b = RenderAgentCapabilityBlock[2]
        OBVIOUS
      <4>2. b \in Blocks /\ RenderAgentCapabilityBlock = Block(b)
        BY <3>2, <4>1, BlockType DEF Says, Bound, Entered, AgentSteps, ConfigureSteps, Block
      <4>3. text = UpsertMarkedBlock(notes[f], RenderAgentCapabilityBlock) /\ pc = "notes" /\ f = Target.notes
        BY <3>2 DEF Says
      <4>4. Marked(text, b)
        BY <3>1, <4>2, <4>3, Upserted
      <4>5. Said(text) = {b}
        BY <4>2, <4>4, MarkedSays
      <4>6. QED
        BY <3>1, <4>1, <4>3, <4>5 DEF SaysNoMore
    <3>3. ASSUME Silences(f, text) PROVE SaysNoMore(f)
      <4>1. text = RemoveMarkedBlock(notes[f])
        BY <3>3 DEF Silences
      <4>2. Said(text) = {}
        BY <3>1, <4>1, Unmarked, PlainlySilent
      <4>3. QED
        BY <3>1, <4>2 DEF SaysNoMore
    <3>4. ASSUME Adds(f, text) PROVE SaysNoMore(f)
      <4>1. Said(text) = Said(notes[f])
        BY <3>1, <3>4, LineAdded DEF Adds
      <4>2. QED
        BY <3>1, <4>1 DEF SaysNoMore
    <3>5. ~TornNote(f, text)
      BY <2>3 DEF TornNote
    <3>6. QED
      BY <1>3, <2>3, <3>2, <3>3, <3>4, <3>5
  <2>4. QED
    BY <2>2, <2>3 DEF SaysNoMore
<1>4. QED
  BY <1>2, <1>3 DEF NotesMove

LEMMA SaidWritten ==
  ASSUME Bound, ForeignInv, WriteAgentInstructions, Target.notes \notin torn
  PROVE  Said(notes'[Target.notes]) = {RenderAgentCapabilityBlock[2]}
<1>1. Working /\ pc \in AgentSteps /\ notes \in [NoteFiles -> Seq(Tokens)] /\ Target.notes \in NoteFiles
      /\ locked \in Entries \cup {NoToolkit}
  BY TargetFile DEF Bound, Entered, Filed, WriteAgentInstructions, AgentSteps, ConfigureSteps
<1>2. PICK b : b = RenderAgentCapabilityBlock[2]
  OBVIOUS
<1>3. b \in Blocks /\ RenderAgentCapabilityBlock = Block(b)
  BY <1>1, <1>2, BlockType DEF Block
<1>4. Shaped(notes[Target.notes])
  BY <1>1 DEF ForeignInv
<1>5. notes'[Target.notes] = UpsertMarkedBlock(notes[Target.notes], Block(b))
  BY <1>1, <1>3 DEF WriteAgentInstructions
<1>6. Marked(notes'[Target.notes], b)
  BY <1>3, <1>4, <1>5, Upserted
<1>7. QED
  BY <1>2, <1>3, <1>6, MarkedSays

\* What an agent's block says is in its own file.
NotesOwned ==
  \A f \in NoteFiles \ torn : \A b \in Said(notes[f]) : \A t \in Registry : b.agent = t.id => t.notes = f

\* The agent that is configured has its profile, and then its copies.
Underway ==
  /\ pc \in ConfigureSteps \ {"profile"} => profile[Target.id] = Authorized(Target.id)
  /\ pc = "notes" /\ Target.skillsDir =>
       Authorized(Target.id) \cap materialized \subseteq copies[Target.id]

Speaks(t) ==
  \A f \in NoteFiles \ torn : \A b \in Said(notes[f]) :
    b.agent = t.id => b.skills = Authorized(t.id) /\ b.toolkit = locked
Agrees(t) ==
  /\ profile[t.id] = Authorized(t.id)
  /\ t.skillsDir => Authorized(t.id) \cap materialized \subseteq copies[t.id]
  /\ Speaks(t)

\* While the toolkit is being removed the lock is ahead of the blocks.
SyncInv ==
  /\ NotesOwned /\ Dropped /\ Underway
  /\ pc \notin {"question", "uninstall"} => \A t \in Registry : Settled(t.id) => Agrees(t)

LEMMA SyncInit ==
  ASSUME Init
  PROVE  SyncInv
<1>1. PICK scene \in Scenes : AgentInit(scene)
  BY DEF Init
<1>2. \A f \in NoteFiles : Plainly(notes[f])
  BY <1>1, SceneAssumption DEF AgentInit, Plainly, Users
<1>3. \A f \in NoteFiles : Said(notes[f]) = {}
  BY <1>2, PlainlySilent
<1>4. pc = "idle" /\ unsettled = Agents
  BY <1>1 DEF AgentInit
<1>5. \A t \in Registry : ~Settled(t.id)
  BY <1>4, AgentFields DEF Settled
<1>6. QED
  BY <1>3, <1>4, <1>5 DEF SyncInv, NotesOwned, Dropped, Underway, ConfigureSteps, RemovalSteps

LEMMA OwnedNext ==
  ASSUME Bound, ForeignInv, NotesOwned, NotesMove
  PROVE  NotesOwned'
<1>1. Working /\ locked \in Entries \cup {NoToolkit}
  BY DEF Bound, Entered
<1>2. SUFFICES ASSUME NEW f \in NoteFiles, f \notin torn', NEW b \in Said(notes'[f]), NEW t \in Registry, b.agent = t.id
               PROVE  t.notes = f
  BY DEF NotesOwned, Said
<1>3. f \notin torn /\ (b \in Said(notes[f]) \/
        (pc = "notes" /\ f = Target.notes /\ b = RenderAgentCapabilityBlock[2]))
  BY <1>2, SaidMoves DEF SaysNoMore
<1>4. CASE b \in Said(notes[f])
  BY <1>2, <1>3, <1>4 DEF NotesOwned
<1>5. CASE pc = "notes" /\ f = Target.notes /\ b = RenderAgentCapabilityBlock[2]
  <2>1. pc \in AgentSteps
    BY <1>5 DEF AgentSteps, ConfigureSteps
  <2>2. b.agent = Target.id /\ Target \in Registry
    BY <1>1, <1>5, <2>1, BlockType, TargetType
  <2>3. QED
    BY <1>2, <1>5, <2>2, AgentsDiffer
<1>6. QED
  BY <1>3, <1>4, <1>5

\* A step of the loop ends the work on an agent, or leaves its profile alone.
LoopMove ==
  \/ pc' \in {"idle", "profile"}
  \/ WriteProfile
  \/ MaterializeAgentSkills
  \/ /\ pc \in ConfigureSteps \ {"profile", "notes"} /\ pc' \in ConfigureSteps \ {"profile", "notes"}
     /\ task'.todo = task.todo /\ UNCHANGED <<profile, installed>>

LEMMA LoopMoves ==
  ASSUME Working, ConfigureStep
  PROVE  LoopMove
<1>1. task \in Tasks
  BY DEF Working
<1>2. ASSUME NEW l, NEW s, \/ task' = task
                           \/ task' = [task EXCEPT !.left = l]
                           \/ task' = [task EXCEPT !.status = s]
                           \/ task' = [task EXCEPT !.left = l, !.status = s]
      PROVE  task'.todo = task.todo
  BY <1>1, <1>2 DEF Tasks
<1>3. ASSUME InjectAgentConfig PROVE LoopMove
  <2>1. CASE Abort
    BY <2>1 DEF Abort, LoopMove
  <2>2. CASE ~Abort
    <3>1. /\ pc = "inject" /\ pc' = "migrate" /\ task' = [task EXCEPT !.status = "registered"]
          /\ UNCHANGED <<profile, installed>>
      BY <1>3, <2>2 DEF InjectAgentConfig
    <3>2. QED
      BY <1>2, <3>1 DEF LoopMove, ConfigureSteps
  <2>3. QED
    BY <2>1, <2>2
<1>4. ASSUME ResolveClineRegistration PROVE LoopMove
  <2> DEFINE ask == task.offering /\ Existing # <<>> /\ FirstTelling = 0
             l == IF ask THEN Existing ELSE <<>>
             s == IF ClineRegistered THEN "registered" ELSE "pending"
  <2>1. /\ task' = [task EXCEPT !.left = l, !.status = s]
        /\ pc = "resolve" /\ pc' \in {"confirm", "migrate"} /\ UNCHANGED <<profile, installed>>
    BY <1>4 DEF ResolveClineRegistration, records, files
  <2> HIDE DEF l, s, ask
  <2>2. QED
    BY <1>2, <2>1 DEF LoopMove, ConfigureSteps
<1>5. ASSUME NEW accepted, AnswerOffer(accepted) PROVE LoopMove
  BY <1>5 DEF AnswerOffer, records, files, LoopMove, ConfigureSteps
<1>6. ASSUME OfferClineGlobalRegistration PROVE LoopMove
  <2> DEFINE rest == Tail(task.left)
  <2>1. /\ pc = "offer" /\ pc' \in {"offer", "migrate"} /\ UNCHANGED <<profile, installed>>
        /\ \/ task' = task
           \/ task' = [task EXCEPT !.left = rest]
           \/ task' = [task EXCEPT !.left = <<>>, !.status = "pending"]
           \/ task' = [task EXCEPT !.left = rest, !.status = "registered"]
    BY <1>6 DEF OfferClineGlobalRegistration, records
  <2> HIDE DEF rest
  <2>2. QED
    BY <1>2, <2>1 DEF LoopMove, ConfigureSteps
<1>7. ASSUME MigrateLegacyProxyLocations PROVE LoopMove
  BY <1>7 DEF MigrateLegacyProxyLocations, Step, Abort, LoopMove, ConfigureSteps
<1>8. ASSUME WriteAgentInstructions PROVE LoopMove
  BY <1>8 DEF WriteAgentInstructions, LoopMove
<1>9. QED
  BY <1>3, <1>4, <1>5, <1>6, <1>7, <1>8 DEF ConfigureStep, LoopMove

LEMMA AuthorizedSame ==
  ASSUME installed' = installed, NEW id
  PROVE  Authorized(id)' = Authorized(id)
  BY DEF Authorized

LEMMA UnderwayConfigure ==
  ASSUME Bound, Underway, ConfigureStep
  PROVE  Underway'
<1>1. Working /\ profile \in [Agents -> SUBSET (Skills \cup NoProfile \cup TornProfile)]
      /\ copies \in [Agents -> SUBSET Skills]
  BY DEF Bound, Entered, Filed
<1>2. \A s \in ConfigureSteps : s \in AgentSteps
  BY DEF AgentSteps
<1>3. CASE pc' \in {"idle", "profile"}
  BY <1>3 DEF Underway, ConfigureSteps
<1>4. CASE WriteProfile
  <2>1. Target \in Registry /\ Target.id \in Agents
    BY <1>1, <1>2, <1>4, TargetType, AgentFields DEF WriteProfile, ConfigureSteps
  <2>2. /\ profile' = [profile EXCEPT ![Target.id] = Authorized(Target.id)]
        /\ task' = task /\ installed' = installed /\ pc' # "notes"
    BY <1>4 DEF WriteProfile, Step
  <2>3. Target' = Target
    BY <2>2 DEF Target
  <2>4. Authorized(Target.id)' = Authorized(Target.id)
    BY <2>2, <2>3 DEF Authorized
  <2>5. profile'[Target.id] = Authorized(Target.id)
    BY <1>1, <2>1, <2>2
  <2>6. QED
    BY <2>2, <2>3, <2>4, <2>5 DEF Underway
<1>5. CASE MaterializeAgentSkills
  <2>1. Target \in Registry /\ Target.id \in Agents /\ pc = "skills"
    BY <1>1, <1>2, <1>5, TargetType, AgentFields DEF MaterializeAgentSkills, ConfigureSteps
  <2>2. /\ task' = task /\ UNCHANGED <<installed, materialized, profile>>
        /\ copies' = [copies EXCEPT ![Target.id] =
                        @ \cup (IF Target.skillsDir THEN Authorized(Target.id) \cap materialized ELSE {})]
    BY <1>5 DEF MaterializeAgentSkills, Step
  <2>3. Target' = Target
    BY <2>2 DEF Target
  <2>4. Authorized(Target.id)' = Authorized(Target.id)
    BY <2>2, <2>3 DEF Authorized
  <2>5. Target.skillsDir => Authorized(Target.id) \cap materialized \subseteq copies'[Target.id]
    BY <1>1, <2>1, <2>2
  <2>6. profile[Target.id] = Authorized(Target.id)
    BY <2>1 DEF Underway, ConfigureSteps
  <2>7. QED
    BY <2>2, <2>3, <2>4, <2>5, <2>6 DEF Underway
<1>6. CASE /\ pc \in ConfigureSteps \ {"profile", "notes"} /\ pc' \in ConfigureSteps \ {"profile", "notes"}
           /\ task'.todo = task.todo /\ UNCHANGED <<profile, installed>>
  <2>1. Target' = Target
    BY <1>6 DEF Target
  <2>2. Authorized(Target.id)' = Authorized(Target.id)
    BY <1>6, <2>1 DEF Authorized
  <2>3. QED
    BY <1>6, <2>1, <2>2 DEF Underway
<1>7. QED
  BY <1>1, <1>3, <1>4, <1>5, <1>6, LoopMoves DEF LoopMove

LEMMA UnderwayNext ==
  ASSUME Bound, Underway, [Next]_vars
  PROVE  Underway'
<1>1. CASE AgentNext
  <2>1. CASE ConfigureStep
    BY <2>1, UnderwayConfigure
  <2>2. CASE EditFile
    BY <2>2 DEF EditFile, records, control, Underway, Target, Authorized
  <2>3. CASE AgentCommand \/ RemovalStep \/ Kill
    <3>1. pc' \notin ConfigureSteps \ {"profile"}
      <4>1. AgentFlow
        BY <1>1, AgentFlows
      <4>2. CASE Kill
        BY <4>2 DEF Kill, ConfigureSteps
      <4>3. CASE RemovalStep
        <5>1. RemovalMove
          BY <4>3, RemovalMoves DEF Bound, Entered
        <5>2. QED
          BY <5>1 DEF RemovalMove, NextRemoval, Abort, RemovalSteps, ConfigureSteps
      <4>4. CASE AgentCommand
        <5>1. pc = "idle"
          BY <4>4 DEF AgentCommand, AddAgents, InitAgents, InitAgain, RemoveAgents, InstallSkill, RemoveSkill, Begin
        <5>2. QED
          BY <4>1, <5>1 DEF AgentFlow, AgentSteps, ConfigureSteps, RemovalSteps, RemovalMove
      <4>5. QED
        BY <2>3, <4>2, <4>3, <4>4
    <3>2. QED
      BY <3>1 DEF Underway, ConfigureSteps
  <2>4. QED
    BY <1>1, <2>1, <2>2, <2>3 DEF AgentNext, EditConfig, EditSettings, EditNotes
<1>2. CASE KitMove \/ EnvMove
  <2>1. pc' \in KitSteps \cup EnvSteps \cup {"idle", "profile"}
    BY <1>2, RestoreLeaves DEF KitMove, EnvMove
  <2>2. QED
    BY <2>1 DEF Underway, KitSteps, EnvSteps, ConfigureSteps
<1>3. CASE Stays
  BY <1>3 DEF Underway, Stays, Target, Authorized
<1>4. QED
  BY <1>1, <1>2, <1>3, Moves

\* What is settled stays so while the toolkit is not being removed.
SameSync ==
  \/ Nobody
  \/ pc' \in {"question", "uninstall"}
  \/ /\ pc \notin {"question", "uninstall"}
     /\ UNCHANGED <<agents, installed, materialized, locked, notes, profile, copies, torn, task>>
     /\ unsettled' = unsettled

LEMMA SameAgrees ==
  ASSUME SyncInv, SameSync, pc' \notin {"question", "uninstall"}, NEW t \in Registry, Settled(t.id)'
  PROVE  Agrees(t)'
<1>1. /\ pc \notin {"question", "uninstall"}
      /\ UNCHANGED <<agents, installed, materialized, locked, notes, profile, copies, torn, task, unsettled>>
  BY DEF SameSync, Nobody
<1>2. Settled(t.id)
  BY <1>1 DEF Settled, Contains
<1>3. Agrees(t)
  BY <1>1, <1>2 DEF SyncInv
<1>4. Authorized(t.id)' = Authorized(t.id)
  BY <1>1 DEF Authorized
<1>5. QED
  BY <1>1, <1>3, <1>4 DEF Agrees, Speaks, Said

LEMMA OtherSpeaks ==
  ASSUME Bound, ForeignInv, NotesMove, NEW t \in Registry, Speaks(t), pc = "notes" => t # Target,
         UNCHANGED <<installed, locked>>
  PROVE  Speaks(t)'
<1>1. Working /\ locked \in Entries \cup {NoToolkit}
  BY DEF Bound, Entered
<1>2. Authorized(t.id)' = Authorized(t.id)
  BY DEF Authorized
<1>3. SUFFICES ASSUME NEW f \in NoteFiles, f \notin torn', NEW b \in Said(notes'[f]), b.agent = t.id
               PROVE  b.skills = Authorized(t.id) /\ b.toolkit = locked
  BY <1>2 DEF Speaks, Said
<1>4. f \notin torn /\ (b \in Said(notes[f]) \/ (pc = "notes" /\ b = RenderAgentCapabilityBlock[2]))
  BY <1>3, SaidMoves DEF SaysNoMore
<1>5. CASE b \in Said(notes[f])
  BY <1>3, <1>4, <1>5 DEF Speaks
<1>6. CASE pc = "notes" /\ b = RenderAgentCapabilityBlock[2]
  <2>1. pc \in AgentSteps
    BY <1>6 DEF AgentSteps, ConfigureSteps
  <2>2. b.agent = Target.id /\ Target \in Registry
    BY <1>1, <1>6, <2>1, BlockType, TargetType
  <2>3. QED
    BY <1>3, <1>6, <2>2, AgentsDiffer
<1>7. QED
  BY <1>4, <1>5, <1>6

LEMMA OtherAgrees ==
  ASSUME Bound, ForeignInv, FileMove, NEW t \in Registry, Agrees(t), Settled(t.id),
         copies'[t.id] = copies[t.id], UNCHANGED <<installed, materialized, locked>>
  PROVE  Agrees(t)'
<1>1. Working /\ profile \in [Agents -> SUBSET (Skills \cup NoProfile \cup TornProfile)]
      /\ t.id \in Agents
  BY AgentFields DEF Bound, Entered, Filed
<1>2. t \notin ToSet(task.todo)
  BY <1>1, NowSettled
<1>3. pc \in AgentSteps => t # Target /\ t.id # Target.id
  BY <1>1, <1>2, TargetType, AgentsDiffer
<1>4. Authorized(t.id)' = Authorized(t.id)
  BY DEF Authorized
<1>5. profile'[t.id] = profile[t.id]
  <2>1. CASE profile' = profile
    BY <2>1
  <2>2. ASSUME NEW list, profile' = [profile EXCEPT ![Target.id] = list], pc \in {"profile", "forget"}
        PROVE  profile'[t.id] = profile[t.id]
    <3>1. t.id # Target.id
      BY <1>3, <2>2 DEF AgentSteps, ConfigureSteps, RemovalSteps
    <3>2. QED
      BY <1>1, <2>2, <3>1
  <2>3. QED
    BY <2>1, <2>2 DEF FileMove, ProfileMove
<1>6. Speaks(t)'
  <2>1. pc = "notes" => t # Target
    BY <1>3 DEF AgentSteps, ConfigureSteps
  <2>2. QED
    BY <2>1, OtherSpeaks DEF FileMove, Agrees
<1>7. QED
  BY <1>4, <1>5, <1>6 DEF Agrees

LEMMA WrittenAgrees ==
  ASSUME Bound, ForeignInv, NotesOwned, Underway, FileMove, WriteAgentInstructions, NEW t \in Registry, t = Target
  PROVE  Agrees(t)'
<1>1. Working /\ pc = "notes" /\ pc \in AgentSteps /\ locked \in Entries \cup {NoToolkit}
      /\ UNCHANGED <<installed, materialized, locked, profile, copies, torn>>
  BY DEF Bound, Entered, WriteAgentInstructions, records, history, AgentSteps, ConfigureSteps
<1>2. Authorized(t.id)' = Authorized(t.id)
  BY <1>1 DEF Authorized
<1>3. profile[t.id] = Authorized(t.id) /\ (t.skillsDir => Authorized(t.id) \cap materialized \subseteq copies[t.id])
  BY <1>1 DEF Underway, ConfigureSteps
<1>4. PICK block : block = RenderAgentCapabilityBlock[2]
  OBVIOUS
<1>5. block.agent = t.id /\ block.skills = Authorized(t.id) /\ block.toolkit = locked
  BY <1>1, <1>4, BlockType
<1>6. ASSUME NEW f \in NoteFiles, f \notin torn', NEW b \in Said(notes'[f]), b.agent = t.id
      PROVE  b.skills = Authorized(t.id) /\ b.toolkit = locked
  <2>1. f \notin torn /\ f \notin torn'
    BY <1>1, <1>6
  <2>2. CASE f = Target.notes
    <3>1. Said(notes'[f]) = {block}
      BY <1>4, <2>1, <2>2, SaidWritten
    <3>2. QED
      BY <1>5, <1>6, <3>1
  <2>3. CASE f # Target.notes
    <3>1. b \in Said(notes[f])
      BY <1>6, <2>1, <2>3, SaidMoves DEF SaysNoMore, FileMove
    <3>2. QED
      BY <1>6, <2>1, <2>3, <3>1 DEF NotesOwned
  <2>4. QED
    BY <2>2, <2>3
<1>7. Speaks(t)'
  BY <1>1, <1>2, <1>6 DEF Speaks, Said
<1>8. QED
  BY <1>1, <1>2, <1>3, <1>7 DEF Agrees

LEMMA AgentSync ==
  ASSUME Bound, ForeignInv, SyncInv, AgentNext, NEW t \in Registry, Settled(t.id)'
  PROVE  Agrees(t)'
<1>1. FileMove /\ SettledMove /\ UNCHANGED locked /\ pc \notin {"question", "uninstall"}
  <2>1. AgentFlow
    BY AgentFlows
  <2>2. pc \notin {"question", "uninstall"}
    BY <2>1 DEF AgentFlow, RemovalMove, AgentSteps, ConfigureSteps, RemovalSteps
  <2>3. QED
    BY <2>1, <2>2, AgentMoves, AgentSettles DEF Bound, SyncInv, AgentFlow
<1>2. /\ UNCHANGED <<installed, materialized>>
      /\ copies'[t.id] = copies[t.id] \/ (pc = "skills" /\ t = Target)
      /\ Settled(t.id) \/ (WriteAgentInstructions /\ t = Target)
  BY <1>1 DEF SettledMove, Nobody
<1>3. CASE WriteAgentInstructions /\ t = Target
  BY <1>1, <1>3, WrittenAgrees DEF SyncInv
<1>4. CASE Settled(t.id)
  <2>1. Working
    BY DEF Bound, Entered
  <2>2. copies'[t.id] = copies[t.id]
    <3>1. CASE pc = "skills" /\ t = Target
      <4>1. pc \in AgentSteps
        BY <3>1 DEF AgentSteps, ConfigureSteps
      <4>2. t \in ToSet(task.todo)
        BY <2>1, <3>1, <4>1, TargetType
      <4>3. QED
        BY <1>4, <2>1, <4>2, NowSettled
    <3>2. QED
      BY <1>2, <3>1
  <2>3. Agrees(t)
    BY <1>1, <1>4 DEF SyncInv
  <2>4. QED
    BY <1>1, <1>2, <1>4, <2>2, <2>3, OtherAgrees
<1>5. QED
  BY <1>2, <1>3, <1>4

LEMMA SyncNext ==
  ASSUME Plan, Bound, ForeignInv, LockIsFresh, SyncInv, [Next]_vars
  PROVE  SyncInv'
<1>1. NotesMove
  <2>1. CASE AgentNext
    BY <2>1, AgentMoves DEF Bound, FileMove
  <2>2. CASE UNCHANGED <<notes, torn>>
    BY <2>2 DEF NotesMove
  <2>3. QED
    BY <2>1, <2>2, Moves DEF KitMove, EnvMove, Apart, Stays
<1>2. NotesOwned' /\ Dropped' /\ Underway'
  BY <1>1, OwnedNext, DroppedNext, UnderwayNext DEF SyncInv
<1>3. ASSUME pc' \notin {"question", "uninstall"}, NEW t \in Registry, Settled(t.id)' PROVE Agrees(t)'
  <2>1. CASE AgentNext
    BY <1>3, <2>1, AgentSync
  <2>2. CASE KitMove /\ ToolkitNext
    <3>1. KitLocks /\ UNCHANGED <<agents, installed, materialized, notes, profile, copies, torn>>
      BY <2>2, KitLock DEF KitMove, Apart
    <3>2. SameSync
      BY <3>1 DEF KitLocks, SameSync
    <3>3. QED
      BY <1>3, <3>2, SameAgrees
  <2>3. CASE EnvMove \/ Stays
    <3>1. SameSync
      BY <2>3 DEF EnvMove, Apart, Stays, SameSync, EnvSteps
    <3>2. QED
      BY <1>3, <3>1, SameAgrees
  <2>4. QED
    BY <2>1, <2>2, <2>3, Moves
<1>4. QED
  BY <1>2, <1>3 DEF SyncInv

-----------------------------------------------------------------------------
(* An agent that is said to be registered.                                 *)

\* The entry is there, whatever the state of the file it is in.
Holds(t) == config[t.config] # NoFile /\ config[t.config].maia[TopKey(t.format)] = EntryOf(t)
Current == \E i \in 1..Candidates : settings[i] # NoFile /\ settings[i].entry = "current"
Claim(t) == IF t.global THEN Current ELSE Holds(t)

LEMMA OneGlobal ==
  ASSUME NEW t \in Registry, NEW u \in Registry, t.global, u.global
  PROVE  t = u
  BY AgentRows, AgentFields DEF Registry

\* An old entry is in another agent's file for nobody, and in another section.
LEMMA LegacyApart ==
  ASSUME NEW t \in Registry, t.legacy # NoPlace
  PROVE  /\ \A u \in Registry : t.legacy.path = u.config => u = t
         /\ t.legacy.path = t.config /\ ~t.global => TopKey(t.legacy.format) # TopKey(t.format)
<1>1. TopKey("mcp-servers") = "mcpServers" /\ TopKey("servers") = "servers"
  BY DEF TopKey
<1>2. t \in {Claude, Cline, Continue, Cursor}
  BY AgentRows DEF Registry
<1>3. \A u \in Registry : t.legacy.path = u.config => u = t
  BY <1>2, AgentRows DEF Registry
<1>4. t.legacy.path = t.config /\ ~t.global => TopKey(t.legacy.format) # TopKey(t.format)
  BY <1>1, <1>2, AgentRows
<1>5. QED
  BY <1>3, <1>4

LEMMA CurrentKept ==
  ASSUME Bound, SettingsMove, Current, pc # "unregister"
  PROVE  Current'
<1>1. settings \in [1..Candidates -> Settings]
  BY DEF Bound, Entered, Filed
<1>2. CASE settings' = settings
  BY <1>2 DEF Current
<1>3. ASSUME NEW j \in 1..Candidates, NEW file \in Settings, settings' = [settings EXCEPT ![j] = file],
             \/ /\ settings[j] # NoFile
                /\ file = RemoveStaleEntries(UpsertClineGlobalEntry(settings[j]))
             \/ Reset(j, file)
      PROVE  Current'
  <2>1. PICK i \in 1..Candidates : settings[i] # NoFile /\ settings[i].entry = "current"
    BY DEF Current
  <2>2. CASE i # j
    <3>1. settings'[i] = settings[i]
      BY <1>1, <1>3, <2>2
    <3>2. QED
      BY <2>1, <3>1 DEF Current
  <2>3. CASE i = j
    <3>1. settings'[i] = file
      BY <1>1, <1>3, <2>3
    <3> DEFINE c == settings[i]
    <3>2. c \in Settings /\ c # NoFile /\ c.entry = "current"
      BY <1>1, <2>1
    <3>3. file = RemoveStaleEntries(UpsertClineGlobalEntry(c)) \/ Reset(i, file)
      BY <1>3, <2>3
    <3>4. CASE file = RemoveStaleEntries(UpsertClineGlobalEntry(c))
      <4> HIDE DEF c
      <4>1. file # NoFile /\ file.entry = "current"
        BY <3>2, <3>4, SettingsSet
      <4>2. QED
        BY <3>1, <4>1 DEF Current
    <3>5. CASE Reset(i, file)
      <4>1. PICK s \in {"whole", "broken"} : file = [c EXCEPT !.state = s]
        BY <3>2, <3>5 DEF Reset
      <4> HIDE DEF c
      <4>2. file # NoFile /\ file.entry = "current"
        BY <3>2, <4>1, SettingsSet
      <4>3. QED
        BY <3>1, <4>2 DEF Current
    <3>6. QED
      BY <3>3, <3>4, <3>5
  <2>4. QED
    BY <2>2, <2>3
<1>4. QED
  BY <1>2, <1>3 DEF SettingsMove

LEMMA HoldsKept ==
  ASSUME Bound, ConfigMove, NEW t \in Registry, Holds(t), pc \in {"inject", "entry", "migrate"} => t # Target
  PROVE  Holds(t)'
<1>1. /\ config \in [ConfigFiles -> ConfigFile \cup {NoFile}] /\ Working /\ t.config \in ConfigFiles
      /\ TopKey(t.format) \in Sections
  BY AgentFields, SectionTypes DEF Bound, Entered, Filed
<1> DEFINE path == t.config
<1>0. PICK c : c = config[path]
  OBVIOUS
<1>2. c \in ConfigFile /\ c # NoFile /\ c.maia[TopKey(t.format)] = EntryOf(t)
  BY <1>0, <1>1 DEF Holds
<1>3. CASE config' = config
  BY <1>3 DEF Holds
<1>4. ASSUME NEW f \in ConfigFiles, NEW file \in ConfigFile \cup {NoFile}, ConfigChange(f, file)
      PROVE  Holds(t)'
  <2>1. config' = [config EXCEPT ![f] = file]
    BY <1>4 DEF ConfigChange
  <2>2. CASE f # path
    <3>1. config'[path] = config[path]
      BY <1>1, <2>1, <2>2
    <3>2. QED
      BY <3>1 DEF Holds
  <2>3. CASE f = path
    <3>1. config'[path] = file
      BY <1>1, <2>1, <2>3
    <3>2. Edited(f, file)
      <4>1. \A s \in {"inject", "entry", "migrate"} : s \in AgentSteps
        BY DEF AgentSteps, ConfigureSteps, RemovalSteps
      <4>2. pc \in {"inject", "entry", "migrate"} => Target \in Registry /\ t # Target /\ f # Target.config
        BY <1>1, <2>3, <4>1, TargetType, AgentsDiffer
      <4>3. pc \in {"inject", "entry", "migrate"} /\ Target.legacy # NoPlace => f # Target.legacy.path
        BY <2>3, <4>2, LegacyApart
      <4>4. f # ""
        BY <2>3, AgentRows DEF Registry
      <4>5. pc \in {"inject", "entry", "migrate"} => f # Target.legacy.path
        <5>1. NoPlace.path = ""
          BY DEF NoPlace
        <5>2. QED
          BY <4>3, <4>4, <5>1
      <4>6. ~Injects(f, file) /\ ~Removed(f, file)
        BY <4>2 DEF Injects, Removed
      <4>7. ~Migrated(f, file) /\ ~TornConfig(f, file)
        BY <4>2, <4>5 DEF Migrated, TornConfig
      <4>8. QED
        BY <1>4, <4>6, <4>7 DEF ConfigChange
    <3>3. file = [c EXCEPT !.state = "broken"] \/ file = [c EXCEPT !.state = "whole", !.foreign = TRUE]
      BY <1>0, <1>2, <2>3, <3>2 DEF Edited
    <3>4. file # NoFile /\ file.maia = c.maia
      <4>1. file \in ConfigFile /\ file.maia = c.maia
        <5>1. CASE file = [c EXCEPT !.state = "broken"]
          <6>1. PICK s \in {"whole", "cut", "broken"} : s = "broken"
            OBVIOUS
          <6>2. QED
            BY <1>2, <5>1, <6>1, StateSet
        <5>2. CASE file = [c EXCEPT !.state = "whole", !.foreign = TRUE]
          <6>1. PICK s \in {"whole", "cut", "broken"} : s = "whole"
            OBVIOUS
          <6>2. QED
            BY <1>2, <5>2, <6>1, StateSet
        <5>3. QED
          BY <3>3, <5>1, <5>2
      <4>2. QED
        BY <4>1, FileTyped
    <3>5. QED
      BY <1>2, <3>1, <3>4 DEF Holds
  <2>4. QED
    BY <2>2, <2>3
<1>5. QED
  BY <1>3, <1>4 DEF ConfigMove

LEMMA ClaimKept ==
  ASSUME Bound, FileMove, NEW t \in Registry, Claim(t),
         pc \in {"inject", "entry", "migrate"} => t # Target \/ t.global,
         pc = "unregister" => ~t.global
  PROVE  Claim(t)'
<1>1. CASE t.global
  BY <1>1, CurrentKept DEF Claim, FileMove
<1>2. CASE ~t.global
  BY <1>2, HoldsKept DEF Claim, FileMove
<1>3. QED
  BY <1>1, <1>2

LEMMA InjectHolds ==
  ASSUME Bound, pc = "inject", config' = [config EXCEPT ![Target.config] = Inject(Target, @)],
         NEW t \in Registry, t = Target
  PROVE  Holds(t)'
<1>1. config \in [ConfigFiles -> ConfigFile \cup {NoFile}] /\ t.config \in ConfigFiles
  BY AgentFields DEF Bound, Entered, Filed
<1>2. PICK file : file = config[t.config]
  OBVIOUS
<1>3. file \in ConfigFile \cup {NoFile}
  BY <1>1, <1>2
<1>4. PICK new : new = Inject(t, file)
  OBVIOUS
<1>5. config'[t.config] = new
  BY <1>1, <1>2, <1>4
<1>6. new \in ConfigFile /\ new.maia[TopKey(t.format)] = EntryOf(t)
  BY <1>3, <1>4, Injected DEF Whole, Alike
<1>7. new # NoFile
  BY <1>6, FileTyped
<1>8. QED
  BY <1>5, <1>6, <1>7 DEF Holds, EntryOf

LEMMA MigrateHolds ==
  ASSUME Bound, Filed, NEW t \in Registry, t = Target, Holds(t), ~t.global, t.legacy # NoPlace,
         config[t.legacy.path] # NoFile,
         config' = [config EXCEPT ![Target.legacy.path] = RemoveProxyEntry(@, Target.legacy.format)]
  PROVE  Holds(t)'
<1>1. /\ config \in [ConfigFiles -> ConfigFile \cup {NoFile}] /\ t.config \in ConfigFiles
      /\ t.legacy.path \in ConfigFiles /\ TopKey(t.format) \in Sections
  BY AgentFields, SectionTypes DEF Filed
<1>2. CASE t.legacy.path # t.config
  <2>1. config'[t.config] = config[t.config]
    BY <1>1, <1>2
  <2>2. QED
    BY <2>1 DEF Holds
<1>3. CASE t.legacy.path = t.config
  <2>1. PICK c : c = config[t.config]
    OBVIOUS
  <2>2. c \in ConfigFile /\ c.maia[TopKey(t.format)] = EntryOf(t)
    BY <1>1, <2>1 DEF Holds
  <2>3. PICK new : new = RemoveProxyEntry(c, t.legacy.format)
    OBVIOUS
  <2>4. config'[t.config] = new
    BY <1>1, <1>3, <2>1, <2>3
  <2>5. new \in ConfigFile /\ new.maia[TopKey(t.format)] = c.maia[TopKey(t.format)]
    BY <1>1, <1>3, <2>2, <2>3, LegacyApart, ProxyRemoved DEF Alike
  <2>6. new # NoFile
    BY <2>5, FileTyped
  <2>7. QED
    BY <2>2, <2>4, <2>5, <2>6 DEF Holds, EntryOf
<1>4. QED
  BY <1>2, <1>3

\* The settings that are found to register the project do so.
LEMMA FoundCurrent ==
  ASSUME Bound, ClineRegistered
  PROVE  Current
<1>1. settings \in [1..Candidates -> Settings]
  BY DEF Bound, Entered, Filed
<1> DEFINE Told(i) == Invalid(i) \/ InspectClineGlobalEntry(settings[i]).current
           I == {k \in 1..Len(Existing) : Told(Existing[k])}
<1>2. FirstTelling = IF I # {} THEN Min(I) ELSE 0
  BY DEF FirstTelling, SelectInSeq
<1>3. Existing \in Seq(1..Candidates) /\ ToSet(Existing) = {i \in 1..Candidates : settings[i] # NoFile}
  BY <1>1, ExistingType
<1>4. I \in SUBSET Nat /\ I # {}
  BY <1>2 DEF ClineRegistered
<1>5. FirstTelling \in I
  BY <1>2, <1>4, SmallestMin
<1>6. PICK k \in 1..Len(Existing) : k = FirstTelling /\ Told(Existing[k])
  BY <1>5
<1>7. InspectClineGlobalEntry(settings[Existing[k]]).current
  BY <1>6 DEF ClineRegistered
<1>8. Existing[k] \in ToSet(Existing)
  BY <1>3, <1>6 DEF ToSet
<1>9. QED
  BY <1>3, <1>7, <1>8 DEF Current, InspectClineGlobalEntry

\* The loop says "registered" of the agent it is at when it is.
LoopInv ==
  /\ pc \in {"profile", "inject", "resolve"} => task.status = NoStatus
  /\ pc = "inject" => ~Target.global
  /\ pc \in {"resolve", "confirm", "offer", "ask", "unregister"} => Target.global
  /\ pc \in ConfigureSteps /\ task.status = "registered" => Claim(Target)

LEMMA LoopStarts ==
  ASSUME \/ pc' = "profile" /\ task'.status = NoStatus
         \/ pc' \notin ConfigureSteps \cup {"ask", "unregister"}
  PROVE  LoopInv'
  BY DEF LoopInv, NoStatus, ConfigureSteps

LEMMA ConfigureStatus ==
  ASSUME NEW names, NEW offering, NEW undo,
         Configure(names, offering, undo) \/ RestoreConfiguredAgents(offering, undo)
  PROVE  (pc' = "profile" /\ task'.status = NoStatus) \/ pc' = "idle"
<1>1. ASSUME NEW ns, Configure(ns, offering, undo)
      PROVE  (pc' = "profile" /\ task'.status = NoStatus) \/ pc' = "idle"
  <2>1. CASE Resolvable(ns)
    <3>1. pc' = "profile"
          /\ task' = [NoTask EXCEPT !.todo = ResolveTargets(ns), !.offering = offering, !.undo = undo]
      BY <1>1, <2>1 DEF Configure
    <3>2. task'.status = NoStatus
      BY <3>1 DEF NoTask
    <3>3. QED
      BY <3>1, <3>2
  <2>2. CASE ~Resolvable(ns)
    BY <1>1, <2>2 DEF Configure
  <2>3. QED
    BY <2>1, <2>2
<1>2. QED
  BY <1>1 DEF RestoreConfiguredAgents, Finish

LEMMA LoopCommands ==
  ASSUME AgentCommand
  PROVE  LoopInv'
<1>1. (pc' = "profile" /\ task'.status = NoStatus) \/ pc' \in {"idle", "drop"}
  <2>1. ASSUME NEW names, AddAgents(names) \/ InitAgents(names)
        PROVE  (pc' = "profile" /\ task'.status = NoStatus) \/ pc' \in {"idle", "drop"}
    BY <2>1, ConfigureStatus DEF AddAgents, InitAgents
  <2>2. ASSUME NEW names, RemoveAgents(names) PROVE pc' \in {"idle", "drop"}
    BY <2>2 DEF RemoveAgents, Begin, RefuseRemoval, Finish, StartRemoval
  <2>3. ASSUME InitAgain \/ \E s : InstallSkill(s) \/ RemoveSkill(s)
        PROVE  (pc' = "profile" /\ task'.status = NoStatus) \/ pc' \in {"idle", "drop"}
    <3>1. PICK offering, undo : RestoreConfiguredAgents(offering, undo)
      BY <2>3 DEF InitAgain, InstallSkill, RemoveSkill
    <3>2. QED
      BY <3>1, ConfigureStatus
  <2>4. QED
    BY <2>1, <2>2, <2>3 DEF AgentCommand
<1>2. QED
  BY <1>1, LoopStarts DEF ConfigureSteps

\* The work on the agent goes on, and what is said of it still holds.
LEMMA LoopGoesOn ==
  ASSUME Working, NEW t \in Registry, t = Target, task'.todo = task.todo, pc' \in {"resolve", "confirm", "offer"} => t.global,
         pc' \in {"confirm", "offer", "migrate", "skills", "notes"},
         task'.status = "registered" => Claim(t)'
  PROVE  LoopInv'
<1>1. Target' = t
  BY DEF Target
<1>2. QED
  BY <1>1 DEF LoopInv, Claim, Holds, Current, EntryOf

LEMMA LoopConfigures ==
  ASSUME Bound, LoopInv, ConfigureStep
  PROVE  LoopInv'
<1>1. Working /\ task \in Tasks /\ FileMove /\ settings \in [1..Candidates -> Settings]
  BY AgentMoves DEF Bound, Entered, Working, Filed, AgentNext
<1>2. pc \in ConfigureSteps /\ pc \in AgentSteps
  BY DEF ConfigureStep, WriteProfile, InjectAgentConfig, ResolveClineRegistration, AnswerOffer, AgentSteps,
     OfferClineGlobalRegistration, MigrateLegacyProxyLocations, MaterializeAgentSkills, WriteAgentInstructions,
     ConfigureSteps
<1>3. PICK t \in Registry : t = Target
  BY <1>1, <1>2, TargetType
<1>4. ASSUME Abort PROVE LoopInv'
  BY <1>4, LoopStarts DEF Abort, ConfigureSteps
<1>5. ASSUME task.status = "registered", pc \notin {"inject", "migrate"} PROVE Claim(t)'
  <2>1. Claim(t)
    BY <1>2, <1>3, <1>5 DEF LoopInv
  <2>2. pc \notin {"inject", "entry", "migrate", "unregister"}
    BY <1>2, <1>5 DEF ConfigureSteps
  <2>3. QED
    BY <1>1, <2>1, <2>2, ClaimKept
<1>6. ASSUME WriteProfile PROVE LoopInv'
  <2>1. pc = "profile" /\ task' = task /\ pc' = (IF t.global THEN "resolve" ELSE "inject")
    BY <1>3, <1>6 DEF WriteProfile, Step
  <2>2. Target' = t /\ task'.status = NoStatus /\ t.global \in BOOLEAN
    BY <1>3, <2>1, AgentFields DEF Target, LoopInv
  <2>3. QED
    BY <2>1, <2>2 DEF LoopInv, NoStatus
<1>7. ASSUME InjectAgentConfig PROVE LoopInv'
  <2>1. CASE Abort
    BY <1>4, <2>1
  <2>2. CASE ~Abort
    <3>1. /\ pc = "inject" /\ pc' = "migrate" /\ task' = [task EXCEPT !.status = "registered"]
          /\ config' = [config EXCEPT ![Target.config] = Inject(Target, @)]
      BY <1>7, <2>2 DEF InjectAgentConfig
    <3>2. Claim(t)'
      <4>1. Holds(t)'
        BY <1>3, <3>1, InjectHolds
      <4>2. ~t.global
        BY <1>3, <3>1 DEF LoopInv
      <4>3. QED
        BY <4>1, <4>2 DEF Claim
    <3>3. task'.todo = task.todo
      BY <1>1, <3>1 DEF Tasks
    <3>4. QED
      BY <1>1, <1>3, <3>1, <3>2, <3>3, LoopGoesOn
  <2>3. QED
    BY <2>1, <2>2
<1>8. ASSUME ResolveClineRegistration PROVE LoopInv'
  <2> DEFINE ask == task.offering /\ Existing # <<>> /\ FirstTelling = 0
             l == IF ask THEN Existing ELSE <<>>
             s == IF ClineRegistered THEN "registered" ELSE "pending"
  <2>1. /\ task' = [task EXCEPT !.left = l, !.status = s]
        /\ pc = "resolve" /\ pc' \in {"confirm", "migrate"} /\ settings' = settings
    BY <1>8 DEF ResolveClineRegistration, files
  <2>2. s = "registered" => Current
    BY FoundCurrent
  <2> HIDE DEF l, s, ask
  <2>3. task'.todo = task.todo /\ task'.status = s
    BY <1>1, <2>1 DEF Tasks
  <2>4. t.global
    BY <1>3, <2>1 DEF LoopInv
  <2>5. task'.status = "registered" => Claim(t)'
    BY <2>1, <2>2, <2>3, <2>4 DEF Claim, Current
  <2>6. QED
    BY <1>1, <1>3, <2>1, <2>3, <2>4, <2>5, LoopGoesOn
<1>9. ASSUME NEW accepted, AnswerOffer(accepted) PROVE LoopInv'
  <2>1. pc = "confirm" /\ pc' \in {"offer", "migrate"} /\ task' = task
    BY <1>9 DEF AnswerOffer
  <2>2. t.global
    BY <1>3, <2>1 DEF LoopInv
  <2>3. QED
    BY <1>1, <1>3, <1>5, <2>1, <2>2, LoopGoesOn
<1>10. ASSUME OfferClineGlobalRegistration PROVE LoopInv'
  <2>1. pc = "offer" /\ pc' \in {"offer", "migrate"}
    BY <1>10 DEF OfferClineGlobalRegistration
  <2>2. t.global
    BY <1>3, <2>1 DEF LoopInv
  <2>3. ASSUME task' = task \/ task' = [task EXCEPT !.left = Tail(@)] PROVE LoopInv'
    <3>1. task'.todo = task.todo /\ task'.status = task.status
      BY <1>1, <2>3 DEF Tasks
    <3>2. QED
      BY <1>1, <1>3, <1>5, <2>1, <2>2, <3>1, LoopGoesOn
  <2>4. ASSUME task' = [task EXCEPT !.left = <<>>, !.status = "pending"] PROVE LoopInv'
    <3>1. task'.todo = task.todo /\ task'.status = "pending"
      BY <1>1, <2>4 DEF Tasks
    <3>2. QED
      BY <1>1, <1>3, <2>1, <2>2, <3>1, LoopGoesOn
  <2>5. ASSUME NEW i, i = Head(task.left), task.left # <<>>, settings[i] # NoFile,
               settings' = [settings EXCEPT ![i] = RemoveStaleEntries(UpsertClineGlobalEntry(@))],
               task' = [task EXCEPT !.left = Tail(@), !.status = "registered"]
        PROVE LoopInv'
    <3>1. task'.todo = task.todo
      BY <1>1, <2>5 DEF Tasks
    <3>2. i \in 1..Candidates
      BY <1>1, <2>5, LeftType
    <3>3. PICK c : c = settings[i]
      OBVIOUS
    <3>4. c \in Settings /\ c # NoFile
      BY <1>1, <2>5, <3>2, <3>3
    <3>5. PICK new : new = RemoveStaleEntries(UpsertClineGlobalEntry(c))
      OBVIOUS
    <3>6. settings'[i] = new
      BY <1>1, <2>5, <3>2, <3>3, <3>5
    <3>7. new # NoFile /\ new.entry = "current"
      BY <3>4, <3>5, SettingsSet
    <3>8. Claim(t)'
      BY <2>2, <3>2, <3>6, <3>7 DEF Claim, Current
    <3>9. QED
      BY <1>1, <1>3, <2>1, <2>2, <3>1, <3>8, LoopGoesOn
  <2>6. QED
    <3>1. CASE task.left = <<>>
      BY <1>10, <2>3, <3>1 DEF OfferClineGlobalRegistration
    <3>2. CASE task.left # <<>>
      BY <1>10, <2>3, <2>4, <2>5, <3>2 DEF OfferClineGlobalRegistration
    <3>3. QED
      BY <3>1, <3>2
<1>11. ASSUME MigrateLegacyProxyLocations PROVE LoopInv'
  <2>1. CASE Abort
    BY <1>4, <2>1
  <2>2. CASE ~Abort
    <3>1. pc = "migrate" /\ pc' = "skills" /\ task' = task
      BY <1>11, <2>2 DEF MigrateLegacyProxyLocations, Step
    <3>2. ASSUME task.status = "registered" PROVE Claim(t)'
      <4>1. Claim(t)
        BY <1>2, <1>3, <3>2 DEF LoopInv
      <4>2. CASE t.global
        BY <1>1, <3>1, <4>1, <4>2, ClaimKept
      <4>3. CASE ~t.global /\ config' = config
        BY <4>1, <4>3 DEF Claim, Holds
      <4>4. CASE ~t.global /\ config' # config
        <5>1. /\ t.legacy # NoPlace /\ config[t.legacy.path] # NoFile
              /\ config' = [config EXCEPT ![Target.legacy.path] = RemoveProxyEntry(@, Target.legacy.format)]
          BY <1>3, <1>11, <4>4 DEF MigrateLegacyProxyLocations
        <5>2. Holds(t)'
          BY <1>3, <4>1, <4>4, <5>1, MigrateHolds DEF Claim, Bound, Entered
        <5>3. QED
          BY <4>4, <5>2 DEF Claim
      <4>5. QED
        BY <4>2, <4>3, <4>4
    <3>3. QED
      BY <1>1, <1>3, <3>1, <3>2, LoopGoesOn
  <2>3. QED
    BY <2>1, <2>2
<1>12. ASSUME MaterializeAgentSkills PROVE LoopInv'
  <2>1. pc = "skills" /\ pc' = "notes" /\ task' = task
    BY <1>12 DEF MaterializeAgentSkills, Step
  <2>2. QED
    BY <1>1, <1>3, <1>5, <2>1, LoopGoesOn
<1>13. ASSUME WriteAgentInstructions PROVE LoopInv'
  <2>1. CASE Len(task.todo) = 1
    BY <1>13, <2>1, LoopStarts DEF WriteAgentInstructions, ConfigureSteps
  <2>2. CASE Len(task.todo) # 1
    <3>1. pc' = "profile" /\ task' = [task EXCEPT !.todo = Tail(@), !.status = NoStatus]
      BY <1>13, <2>2 DEF WriteAgentInstructions
    <3>2. task'.status = NoStatus
      BY <1>1, <3>1 DEF Tasks
    <3>3. QED
      BY <3>1, <3>2, LoopStarts
  <2>3. QED
    BY <2>1, <2>2
<1>14. QED
  BY <1>6, <1>7, <1>8, <1>9, <1>10, <1>11, <1>12, <1>13 DEF ConfigureStep

LEMMA LoopRemoves ==
  ASSUME Bound, LoopInv, RemovalStep
  PROVE  LoopInv'
<1>1. Working /\ task \in Tasks
  BY DEF Bound, Entered, Working
<1>2. CASE NextRemoval \/ Abort
  BY <1>2, LoopStarts DEF NextRemoval, Abort, ConfigureSteps
<1>3. CASE DropAgent \/ RemoveEntry \/ RemoveBlock
  BY <1>2, <1>3, LoopStarts DEF DropAgent, RemoveEntry, RemoveBlock, Step, ConfigureSteps
<1>4. ASSUME pc' \in {"ask", "unregister"}, Target.global, task'.todo = task.todo PROVE LoopInv'
  <2>1. Target' = Target
    BY <1>4 DEF Target
  <2>2. QED
    BY <1>4, <2>1 DEF LoopInv, ConfigureSteps
<1>5. ASSUME RemoveProfile PROVE LoopInv'
  <2>1. CASE NextRemoval
    BY <1>2, <2>1
  <2>2. CASE ~NextRemoval
    <3>1. Target.global /\ pc' = "ask" /\ task' = [task EXCEPT !.left = Existing]
      BY <1>5, <2>2 DEF RemoveProfile
    <3>2. task'.todo = task.todo
      BY <1>1, <3>1 DEF Tasks
    <3>3. QED
      BY <1>4, <3>1, <3>2
  <2>3. QED
    BY <2>1, <2>2
<1>6. ASSUME NEW accepted, AnswerRemoval(accepted) PROVE LoopInv'
  <2>1. CASE NextRemoval
    BY <1>2, <2>1
  <2>2. CASE ~NextRemoval
    BY <1>4, <1>6, <2>2 DEF AnswerRemoval, LoopInv
  <2>3. QED
    BY <2>1, <2>2
<1>7. ASSUME RemoveClineGlobalRegistration PROVE LoopInv'
  <2>1. CASE NextRemoval
    BY <1>2, <2>1
  <2>2. CASE ~NextRemoval
    <3>1. pc = "unregister" /\ pc' = pc /\ task' = [task EXCEPT !.left = Tail(@)]
      BY <1>7, <2>2 DEF RemoveClineGlobalRegistration
    <3>2. task'.todo = task.todo
      BY <1>1, <3>1 DEF Tasks
    <3>3. QED
      BY <1>4, <3>1, <3>2 DEF LoopInv
  <2>3. QED
    BY <2>1, <2>2
<1>8. QED
  BY <1>3, <1>5, <1>6, <1>7 DEF RemovalStep

\* The user may change a file while a question waits.
LEMMA LoopWaits ==
  ASSUME Bound, LoopInv, EditFile, FileMove
  PROVE  LoopInv'
<1>1. pc \in {"idle", "confirm", "ask"} /\ pc' = pc /\ task' = task
  BY DEF EditFile, control
<1>2. Target' = Target
  BY <1>1 DEF Target
<1>3. CASE pc \in {"idle", "ask"}
  BY <1>1, <1>2, <1>3 DEF LoopInv, ConfigureSteps
<1>4. CASE pc = "confirm"
  <2>1. Working /\ pc \in AgentSteps
    BY <1>4 DEF Bound, Entered, AgentSteps, ConfigureSteps
  <2>2. PICK t \in Registry : t = Target
    BY <2>1, TargetType
  <2>3. t.global
    BY <1>4, <2>2 DEF LoopInv
  <2>4. task.status = "registered" => Claim(t)'
    <3>1. task.status = "registered" => Claim(t)
      BY <1>4, <2>2 DEF LoopInv, ConfigureSteps
    <3>2. QED
      BY <1>4, <3>1, ClaimKept
  <2>5. QED
    BY <1>1, <1>4, <2>1, <2>2, <2>3, <2>4, LoopGoesOn
<1>5. QED
  BY <1>1, <1>3, <1>4

LEMMA LoopNext ==
  ASSUME Bound, LoopInv, [Next]_vars
  PROVE  LoopInv'
<1>1. CASE AgentNext
  <2>1. FileMove
    BY <1>1, AgentMoves DEF Bound
  <2>2. CASE Kill
    BY <2>2, LoopStarts DEF Kill, ConfigureSteps
  <2>3. CASE EditFile
    BY <2>1, <2>3, LoopWaits
  <2>4. QED
    BY <1>1, <2>2, <2>3, LoopCommands, LoopConfigures, LoopRemoves
    DEF AgentNext, EditConfig, EditSettings, EditNotes
<1>2. CASE KitMove
  <2>1. CASE RestoreConfiguredAgents(FALSE, {})
    BY <2>1, ConfigureStatus, LoopStarts DEF ConfigureSteps
  <2>2. CASE pc' \in KitSteps \cup {"idle"}
    BY <2>2, LoopStarts DEF KitSteps, ConfigureSteps
  <2>3. QED
    BY <1>2, <2>1, <2>2 DEF KitMove
<1>3. CASE EnvMove
  BY <1>3, LoopStarts DEF EnvMove, EnvSteps, ConfigureSteps
<1>4. CASE Stays
  <2>1. Target' = Target
    BY <1>4 DEF Stays, Target
  <2>2. Claim(Target)' = Claim(Target)
    BY <1>4, <2>1 DEF Stays, Claim, Holds, Current, EntryOf
  <2>3. QED
    BY <1>4, <2>1, <2>2 DEF Stays, LoopInv
<1>5. QED
  BY <1>1, <1>2, <1>3, <1>4, Moves

\* A block says "registered" of an agent that is, while the agent is settled.
BlocksTrue ==
  \A f \in NoteFiles \ torn : \A b \in Said(notes[f]) : \A t \in Registry :
    b.agent = t.id /\ b.status = "registered" /\ Settled(t.id) => Claim(t)

LEMMA AgentBlocks ==
  ASSUME Bound, ForeignInv, SyncInv, LoopInv, BlocksTrue, AgentNext,
         NEW f \in NoteFiles, f \notin torn', NEW b \in Said(notes'[f]), NEW t \in Registry,
         b.agent = t.id, b.status = "registered", Settled(t.id)'
  PROVE  Claim(t)'
<1>1. Working /\ locked \in Entries \cup {NoToolkit}
  BY DEF Bound, Entered
<1>2. FileMove /\ SettledMove
  BY AgentMoves, AgentSettles DEF Bound, SyncInv
<1>3. Settled(t.id) \/ (WriteAgentInstructions /\ t = Target)
  BY <1>2 DEF SettledMove, Nobody
<1>4. /\ f \notin torn
      /\ b \in Said(notes[f]) \/ (pc = "notes" /\ f = Target.notes /\ b = RenderAgentCapabilityBlock[2])
  BY <1>2, SaidMoves DEF SaysNoMore, FileMove
<1>5. CASE WriteAgentInstructions /\ t = Target
  <2>1. pc = "notes" /\ pc \in AgentSteps /\ torn' = torn
    BY <1>5 DEF WriteAgentInstructions, history, AgentSteps, ConfigureSteps
  <2>2. f = Target.notes
    BY <1>4, <1>5 DEF SyncInv, NotesOwned
  <2>3. b = RenderAgentCapabilityBlock[2]
    BY <1>4, <1>5, <2>2, SaidWritten
  <2>4. task.status = "registered"
    BY <1>1, <2>1, <2>3, BlockType
  <2>5. Claim(t)
    BY <1>5, <2>1, <2>4 DEF LoopInv, ConfigureSteps
  <2>6. QED
    BY <1>2, <2>1, <2>5, ClaimKept
<1>6. CASE Settled(t.id)
  <2>1. pc \in AgentSteps => t # Target /\ Target \in Registry
    BY <1>1, <1>6, NowSettled, TargetType
  <2>2. \A s \in {"inject", "entry", "migrate", "notes", "unregister"} : s \in AgentSteps
    BY DEF AgentSteps, ConfigureSteps, RemovalSteps
  <2>3. b \in Said(notes[f])
    <3>1. CASE pc = "notes" /\ b = RenderAgentCapabilityBlock[2]
      <4>1. b.agent = Target.id
        BY <1>1, <2>2, <3>1, BlockType
      <4>2. QED
        BY <2>1, <2>2, <3>1, <4>1, AgentsDiffer
    <3>2. QED
      BY <1>4, <3>1
  <2>4. Claim(t)
    BY <1>4, <1>6, <2>3 DEF BlocksTrue
  <2>5. pc = "unregister" => ~t.global
    BY <2>1, <2>2, OneGlobal DEF LoopInv
  <2>6. QED
    BY <1>2, <2>1, <2>2, <2>4, <2>5, ClaimKept
<1>7. QED
  BY <1>3, <1>5, <1>6

LEMMA BlocksNext ==
  ASSUME Bound, ForeignInv, SyncInv, LoopInv, BlocksTrue, [Next]_vars
  PROVE  BlocksTrue'
<1>1. SUFFICES ASSUME NEW f \in NoteFiles, f \notin torn', NEW b \in Said(notes'[f]), NEW t \in Registry,
                      b.agent = t.id, b.status = "registered", Settled(t.id)'
               PROVE  Claim(t)'
  BY DEF BlocksTrue, Said
<1>2. CASE AgentNext
  BY <1>1, <1>2, AgentBlocks
<1>3. CASE KitMove \/ EnvMove \/ Stays
  <2>1. UNCHANGED <<agents, installed, config, settings, notes, torn>>
    BY <1>3 DEF KitMove, EnvMove, Apart, Stays
  <2>2. Nobody \/ UNCHANGED <<task, unsettled>>
    <3>1. CASE RestoreConfiguredAgents(FALSE, {}) /\ KitMove
      <4>1. Working' /\ agents \in Seq(AgentNames) /\ unsettled \in SUBSET Agents
        BY <3>1, KitWorks DEF Bound, Entered, Working
      <4>2. {} \in SUBSET Skills /\ FALSE \in BOOLEAN
        OBVIOUS
      <4>3. QED
        BY <2>1, <3>1, <4>1, <4>2, RestoreUnsettles
    <3>2. CASE unsettled' = Agents
      BY <3>2, AllUnsettled
    <3>3. QED
      BY <1>3, <3>1, <3>2 DEF KitMove, EnvMove, Stays
  <2>3. Settled(t.id)
    BY <1>1, <2>1, <2>2 DEF Nobody, Settled, Contains
  <2>4. Claim(t)
    BY <1>1, <2>1, <2>3 DEF BlocksTrue
  <2>5. QED
    BY <2>1, <2>4 DEF Claim, Holds, Current, EntryOf
<1>4. QED
  BY <1>2, <1>3, Moves

ClaimInv == LoopInv /\ BlocksTrue

LEMMA ClaimInit ==
  ASSUME Init
  PROVE  ClaimInv
<1>1. PICK scene \in Scenes : AgentInit(scene)
  BY DEF Init
<1>2. \A f \in NoteFiles : Plainly(notes[f])
  BY <1>1, SceneAssumption DEF AgentInit, Plainly, Users
<1>3. pc = "idle"
  BY <1>1 DEF AgentInit
<1>4. QED
  BY <1>2, <1>3, PlainlySilent DEF ClaimInv, BlocksTrue, LoopInv, ConfigureSteps

-----------------------------------------------------------------------------
(* The whole workspace.                                                    *)

WholeInv == IInv /\ Typed /\ RefusalInv /\ ForeignInv /\ LockIsFresh /\ SyncInv /\ ClaimInv

\* Whatever is found on the disk, in every order of commands, kills and changes
\* made by hand: the files keep their form, a removal under way that nobody
\* disturbed can read what it is to change, what others wrote is there, and what
\* is written for an agent agrees with the lock and with its registration.
THEOREM FilesInductive == Spec => []WholeInv
<1>1. Init => WholeInv
  <2>1. SUFFICES ASSUME Init PROVE WholeInv
    OBVIOUS
  <2>2. RefusalInv
    BY <2>1 DEF Init, AgentInit, RefusalInv
  <2>3. QED
    BY <2>1, <2>2, InvInit, TypedInit, ForeignInit, LockInit, SyncInit, ClaimInit DEF WholeInv
<1>2. WholeInv /\ [Next]_vars => WholeInv'
  <2>1. SUFFICES ASSUME WholeInv, [Next]_vars PROVE WholeInv'
    OBVIOUS
  <2>2. edits \in Nat
    BY <2>1 DEF WholeInv, IInv, GuardInv
  <2>3. Plan /\ Bound
    BY <2>1, TypedBound DEF WholeInv, Typed
  <2>4. IInv' /\ Typed' /\ RefusalInv' /\ ForeignInv'
    BY <2>1, <2>2, InvNext, TypedNext, RefusalNext, ForeignNext DEF WholeInv
  <2>5. LockIsFresh' /\ SyncInv' /\ ClaimInv'
    BY <2>1, <2>3, LockNext, SyncNext, LoopNext, BlocksNext DEF WholeInv, ClaimInv
  <2>6. QED
    BY <2>4, <2>5 DEF WholeInv
<1>3. QED
  BY <1>1, <1>2, PTL DEF Spec

(***************************************************************************)
(* A removal that fails because a configuration cannot be read has changed *)
(* neither the manifest nor a file of any agent it named, unless the user  *)
(* changed a file during it.                                               *)
(***************************************************************************)
THEOREM RefusalsChangeNothing == Spec => []RefusedRemovalChangesNothing
<1>1. WholeInv => RefusedRemovalChangesNothing
  BY DEF WholeInv, RefusalInv, RefusedRemovalChangesNothing
<1>2. QED
  BY <1>1, FilesInductive, PTL

(***************************************************************************)
(* No step deletes or overwrites what others wrote: their entries in the   *)
(* agents' configurations and in Cline's settings, a configuration that    *)
(* cannot be read, and the user's lines of the instructions.               *)
(***************************************************************************)
KeepsForeign ==
  /\ \A f \in DOMAIN config \ torn' :
       /\ config'[f] # NoFile => config'[f].foreign
       /\ config[f].state = "broken" /\ f # Continue.config /\ edits' = edits => config'[f] = config[f]
  /\ \A i \in 1..Candidates :
       /\ settings'[i] # NoFile => settings'[i].foreign
       /\ settings[i].state = "broken" /\ edits' = edits => settings'[i] = settings[i]
  /\ \A f \in DOMAIN notes \ torn' : UserLines(notes'[f]) >= UserLines(notes[f])

THEOREM OthersKept == Spec => ForeignKept
<1>1. WholeInv /\ [Next]_vars => [KeepsForeign]_agentVars
  <2>1. SUFFICES ASSUME WholeInv, [Next]_vars PROVE KeepsForeign
    OBVIOUS
  <2>2. edits \in Nat /\ DOMAIN config = ConfigFiles /\ DOMAIN notes = NoteFiles
    BY <2>1 DEF WholeInv, IInv, GuardInv, Typed, Filed
  <2>3. /\ \A f \in ConfigFiles : KeptConfig(f)
        /\ \A i \in 1..Candidates : KeptSettings(i)
        /\ \A f \in NoteFiles : KeptNotes(f)
    BY <2>1, <2>2, ForeignNext DEF WholeInv
  <2>4. QED
    BY <2>2, <2>3 DEF KeepsForeign, KeptConfig, KeptSettings, KeptNotes
<1>2. [][KeepsForeign]_agentVars => ForeignKept
  BY DEF ForeignKept, KeepsForeign
<1>3. QED
  BY <1>1, <1>2, FilesInductive, PTL DEF Spec

LEMMA BodySaid ==
  ASSUME Filed, NEW f \in NoteFiles, NEW i \in Bodies(f)
  PROVE  notes[f][i] \in Said(notes[f]) /\ notes[f][i] \in Blocks
<1>1. notes[f] \in Seq(Tokens) /\ i \in DOMAIN notes[f] /\ notes[f][i].kind = "body"
  BY DEF Filed, Bodies
<1>2. notes[f][i] \in Tokens
  BY <1>1
<1>3. notes[f][i] \in Blocks
  BY <1>1, <1>2, TokenKinds DEF Tokens
<1>4. QED
  BY <1>1, <1>3 DEF Said, ToSet

(***************************************************************************)
(* Between commands the profile of every settled agent, its copies of      *)
(* skills and its block say what the lock and the manifest say now.        *)
(***************************************************************************)
THEOREM AgentsStayInSync == Spec => []AgentsInSync
<1>1. WholeInv => AgentsInSync
  <2>1. SUFFICES ASSUME WholeInv, pc = "idle", NEW t \in Registry, Settled(t.id)
                 PROVE  InSync(t)
    BY DEF AgentsInSync
  <2>2. Agrees(t) /\ Filed
    BY <2>1 DEF WholeInv, SyncInv, Typed
  <2>3. ASSUME NEW f \in DOMAIN notes \ torn, NEW i \in Bodies(f), notes[f][i].agent = t.id
        PROVE  notes[f][i].skills = Authorized(t.id) /\ notes[f][i].toolkit = locked
    <3>1. f \in NoteFiles \ torn
      BY <2>2, <2>3 DEF Filed
    <3>2. notes[f][i] \in Said(notes[f])
      BY <2>2, <2>3, <3>1, BodySaid
    <3>3. QED
      BY <2>2, <2>3, <3>1, <3>2 DEF Agrees, Speaks
  <2>4. QED
    BY <2>2, <2>3 DEF Agrees, InSync
<1>2. QED
  BY <1>1, FilesInductive, PTL

(***************************************************************************)
(* A block that says its agent is registered tells the truth while the     *)
(* agent is settled: the entry is in its configuration, or in Cline's      *)
(* settings, whichever agents were configured or removed since.            *)
(***************************************************************************)
THEOREM RegisteredHasEntry == Spec => []ClaimsRegistered
<1>1. WholeInv => ClaimsRegistered
  <2>1. SUFFICES ASSUME WholeInv, NEW f \in DOMAIN notes \ torn, NEW i \in Bodies(f),
                        Settled(notes[f][i].agent), notes[f][i].status = "registered"
                 PROVE  HasEntry(FindAgent(notes[f][i].agent))
    BY DEF ClaimsRegistered
  <2>2. Filed /\ f \in NoteFiles \ torn
    BY <2>1 DEF WholeInv, Typed, Filed
  <2>3. PICK b : b = notes[f][i]
    OBVIOUS
  <2>4. b \in Said(notes[f]) /\ b \in Blocks
    BY <2>1, <2>2, <2>3, BodySaid
  <2>5. PICK t \in Registry : b.agent = t.id
    BY <2>4 DEF Blocks, Agents
  <2>6. Claim(t)
    BY <2>1, <2>2, <2>3, <2>4, <2>5 DEF WholeInv, ClaimInv, BlocksTrue
  <2>7. HasEntry(t)
    <3>1. CASE t.global
      BY <2>6, <3>1 DEF Claim, Current, HasEntry
    <3>2. CASE ~t.global
      <4>1. PICK c : c = config[t.config]
        OBVIOUS
      <4>2. c \in ConfigFile /\ c.maia[TopKey(t.format)] = EntryOf(t)
        BY <2>2, <2>6, <3>2, <4>1, AgentFields DEF Claim, Holds, Filed
      <4>3. Inject(t, NoFile).maia[TopKey(t.format)] = EntryOf(t)
        BY Injected
      <4>4. c.state \in {"whole", "cut", "broken"}
        BY <4>2, FileTyped
      <4>5. QED
        BY <3>2, <4>1, <4>2, <4>3, <4>4 DEF HasEntry, Registered
    <3>3. QED
      BY <3>1, <3>2
  <2>8. QED
    BY <2>3, <2>5, <2>7, FindById
<1>2. QED
  BY <1>1, FilesInductive, PTL

-----------------------------------------------------------------------------
(* Credentials: texts, as they are written into a file and read again.     *)

LEMMA Short ==
  ASSUME NEW T, NEW x \in T, NEW y \in T
  PROVE  /\ <<x>> \in Seq(T) /\ Len(<<x>>) = 1 /\ <<x>>[1] = x
         /\ <<y, x>> \in Seq(T)
  OBVIOUS

Pieces(v) ==
  [i \in DOMAIN v |-> IF v[i] \in {"quote", "backslash"} THEN <<"backslash", v[i]>> ELSE <<v[i]>>]

LEMMA PiecesType ==
  ASSUME NEW v \in Texts
  PROVE  /\ Pieces(v) \in Lists(Characters) /\ Len(Pieces(v)) = Len(v)
         /\ Len(v) \in Nat /\ DOMAIN v = 1..Len(v)
         /\ \A i \in 1..Len(v) : /\ Pieces(v)[i] \in Texts
                                 /\ v[i] \in Characters
                                 /\ v[i] \notin {"quote", "backslash"} => Pieces(v)[i] = <<v[i]>>
<1>1. Len(v) \in Nat /\ DOMAIN v = 1..Len(v) /\ \A i \in 1..Len(v) : v[i] \in Characters
  BY DEF Texts
<1> DEFINE N == Len(v)
           p == Pieces(v)
<1>2. p = [i \in 1..N |-> p[i]]
  BY <1>1, Zenon DEF Pieces
<1>3. ASSUME NEW i \in 1..N
      PROVE  p[i] \in Seq(Characters) /\ (v[i] \notin {"quote", "backslash"} => p[i] = <<v[i]>>)
  <2>1. p[i] = IF v[i] \in {"quote", "backslash"} THEN <<"backslash", v[i]>> ELSE <<v[i]>>
    BY <1>1, Zenon DEF Pieces
  <2>2. v[i] \in Characters
    BY <1>1
  <2>3. <<"backslash", v[i]>> \in Seq(Characters) /\ <<v[i]>> \in Seq(Characters)
    <3>1. "backslash" \in Characters
      BY DEF Characters
    <3> QED
      BY <2>2, <3>1, Short, Zenon
  <2> QED
    BY <2>1, <2>3, Zenon
<1> HIDE DEF p
<1>4. p \in [1..N -> Seq(Characters)]
  BY <1>2, <1>3, Zenon
<1>5. p \in Seq(Seq(Characters)) /\ Len(p) = N
  BY <1>1, <1>4
<1> QED
  BY <1>1, <1>3, <1>5 DEF p, Lists, Texts

LEMMA PlainText ==
  ASSUME NEW v \in Texts, Plain(v), NEW i \in 1..Len(v)
  PROVE  v[i] \notin {"quote", "backslash"}
<1>1. v[i] \in ToSet(v)
  <2>1. DOMAIN v = 1..Len(v)
    BY PiecesType, Zenon
  <2> QED
    BY <2>1, Zenon DEF ToSet
<1> QED
  BY <1>1, Zenon DEF Plain

LEMMA GrowPrefix ==
  ASSUME NEW v \in Texts, NEW i \in 1..Len(v)
  PROVE  /\ SubSeq(v, 1, 1) = <<v[1]>> /\ SubSeq(v, 1, Len(v)) = v
         /\ i > 1 => SubSeq(v, 1, i-1) \o <<v[i]>> = SubSeq(v, 1, i)
<1>1. v \in Seq(Characters) /\ Len(v) \in Nat /\ 1 \in 1..Len(v) /\ v[1] \in Characters /\ v[i] \in Characters
  BY DEF Texts
<1>2. SubSeq(v, 1, 1) = <<v[1]>>
  <2>1. PICK x : x = SubSeq(v, 1, 1)
    OBVIOUS
  <2>2. x \in Seq(Characters) /\ Len(x) = 1 /\ x[1] = v[1]
    BY <1>1, <2>1
  <2>3. PICK y : y = <<v[1]>>
    OBVIOUS
  <2>4. y \in Seq(Characters) /\ Len(y) = 1 /\ y[1] = v[1]
    BY <1>1, <2>3, Short, Zenon
  <2>5. x = y
    BY <2>2, <2>4, SameSeq
  <2> QED
    BY <2>1, <2>3, <2>5
<1>3. SubSeq(v, 1, Len(v)) = v
  BY <1>1
<1>4. ASSUME i > 1 PROVE SubSeq(v, 1, i-1) \o <<v[i]>> = SubSeq(v, 1, i)
  <2>1. PICK a : a = SubSeq(v, 1, i-1)
    OBVIOUS
  <2>2. PICK b : b = <<v[i]>>
    OBVIOUS
  <2>3. PICK x : x = a \o b
    OBVIOUS
  <2>4. PICK y : y = SubSeq(v, 1, i)
    OBVIOUS
  <2>5. a \in Seq(Characters) /\ Len(a) = i - 1 /\ \A j \in 1..(i-1) : a[j] = v[j]
    BY <1>1, <1>4, <2>1
  <2>6. b \in Seq(Characters) /\ Len(b) = 1 /\ b[1] = v[i]
    BY <1>1, <2>2, Short, Zenon
  <2>7. y \in Seq(Characters) /\ Len(y) = i /\ \A j \in 1..i : y[j] = v[j]
    BY <1>1, <1>4, <2>4
  <2>8. x \in Seq(Characters) /\ Joins(x, a, b)
    BY <2>3, <2>5, <2>6, Joined
  <2>9. Len(x) = i /\ x[i] = v[i]
    BY <2>5, <2>6, <2>8 DEF Joins
  <2>10. ASSUME NEW j \in 1..Len(y) PROVE x[j] = y[j]
    BY <2>5, <2>7, <2>8, <2>9, <2>10 DEF Joins
  <2>11. x = y
    BY <2>7, <2>8, <2>9, <2>10, SameSeq
  <2> QED
    BY <2>1, <2>2, <2>3, <2>4, <2>11
<1> QED
  BY <1>2, <1>3, <1>4

\* Escaping gives a text, and changes none without quotes and backslashes.
LEMMA EscapeText ==
  ASSUME NEW v \in Texts
  PROVE  Escape(v) \in Texts /\ (Plain(v) => Escape(v) = v)
<1> DEFINE N == Len(v)
           p == Pieces(v)
<1>1. Escape(v) = FlattenSeq(p)
  BY Zenon DEF Escape, Pieces
<1>2. /\ p \in Lists(Characters) /\ Len(p) = N /\ N \in Nat
      /\ \A i \in 1..N : p[i] \in Texts /\ (v[i] \notin {"quote", "backslash"} => p[i] = <<v[i]>>)
  BY PiecesType
<1> HIDE DEF p
<1>3. CASE N = 0
  <2>1. v = <<>>
    BY <1>3 DEF Texts
  <2>2. p = <<>>
    BY <1>2, <1>3 DEF Lists
  <2>3. FlattenSeq(p) = p
    BY <1>2, <1>3, Zenon DEF FlattenSeq
  <2> QED
    BY <1>1, <2>1, <2>2, <2>3
<1>4. CASE N # 0
  <2>1. PICK flat \in [1..N -> Seq(Characters)] : Flattens(p, flat)
    BY <1>2, <1>4, FlattenUnfolds, Zenon
  <2>2. /\ FlattenSeq(p) = flat[N]
        /\ flat[1] = p[1]
        /\ \A i \in 2..N : flat[i] = flat[i-1] \o p[i]
    BY <1>2, <2>1, Zenon DEF Flattens
  <2>3. N \in 1..N /\ 1 \in 1..N /\ N \in 0..N
    BY <1>2, <1>4
  <2>4. Escape(v) \in Texts
    BY <1>1, <2>1, <2>2, <2>3, Zenon DEF Texts
  <2>5. ASSUME Plain(v) PROVE Escape(v) = v
    <3> DEFINE P == {i \in 0..N : i = 0 \/ flat[i] = SubSeq(v, 1, i)}
    <3>1. 0 \in P
      BY <1>2
    <3>2. ASSUME NEW i \in 1..N, i - 1 \in P PROVE i \in P
      <4>1. p[i] = <<v[i]>>
        BY <1>2, <2>5, PlainText, Zenon
      <4>2. i \in 0..N
        BY <1>2
      <4>3. CASE i = 1
        <5>1. flat[i] = <<v[i]>>
          BY <2>2, <4>1, <4>3, Zenon
        <5>2. SubSeq(v, 1, i) = <<v[i]>>
          BY <4>3, GrowPrefix, Zenon
        <5> QED
          BY <4>2, <5>1, <5>2, Zenon
      <4>4. CASE i # 1
        <5>1. i \in 2..N /\ i - 1 # 0 /\ i > 1
          BY <1>2, <4>4
        <5>2. flat[i-1] = SubSeq(v, 1, i-1)
          BY <3>2, <5>1, Zenon
        <5>3. flat[i] = SubSeq(v, 1, i-1) \o <<v[i]>>
          BY <2>2, <4>1, <5>1, <5>2, Zenon
        <5>4. flat[i] = SubSeq(v, 1, i)
          BY <5>1, <5>3, GrowPrefix, Zenon
        <5> QED
          BY <4>2, <5>4, Zenon
      <4> QED
        BY <4>3, <4>4, Zenon
    <3>3. \A i \in 1..N : i - 1 \in P => i \in P
      BY <3>2
    <3> HIDE DEF P
    <3>4. \A i \in 0..N : i \in P
      BY <1>2, <3>1, <3>3, Induct
    <3>5. flat[N] = SubSeq(v, 1, N)
      BY <1>4, <2>3, <3>4, Zenon DEF P
    <3>6. SubSeq(v, 1, N) = v
      BY <2>3, GrowPrefix, Zenon
    <3> QED
      BY <1>1, <2>2, <3>5, <3>6, Zenon
  <2> QED
    BY <2>4, <2>5
<1> QED
  BY <1>3, <1>4

LEMMA NormalizeType ==
  ASSUME NEW v \in Texts
  PROVE  NormalizeStoredEnvValue(v) \in Texts
  BY DEF Texts, NormalizeStoredEnvValue

\* What is written quoted is read as it was.
LEMMA Unquoted ==
  ASSUME NEW w \in Texts
  PROVE  /\ <<"quote">> \o w \o <<"quote">> \in Texts
         /\ NormalizeStoredEnvValue(<<"quote">> \o w \o <<"quote">>) = w
<1>1. w \in Seq(Characters) /\ Len(w) \in Nat
  BY DEF Texts
<1>2. PICK q : q = <<"quote">>
  OBVIOUS
<1>3. q \in Seq(Characters) /\ Len(q) = 1 /\ q[1] = "quote"
  <2>1. "quote" \in Characters
    BY DEF Characters
  <2> QED
    BY <1>2, <2>1, Short, Zenon
<1>4. PICK a : a = q \o w
  OBVIOUS
<1>5. PICK v : v = a \o q
  OBVIOUS
<1>6. a \in Seq(Characters) /\ Joins(a, q, w)
  BY <1>1, <1>3, <1>4, Joined
<1>7. v \in Seq(Characters) /\ Joins(v, a, q)
  BY <1>3, <1>5, <1>6, Joined
<1>8. /\ Len(a) = Len(w) + 1 /\ Len(v) = Len(w) + 2
      /\ a[1] = "quote" /\ \A i \in 1..Len(w) : a[1 + i] = w[i]
  BY <1>3, <1>6, <1>7 DEF Joins
<1>9. v[1] = "quote" /\ v[Len(v)] = "quote"
  BY <1>1, <1>3, <1>7, <1>8 DEF Joins
<1>10. ASSUME NEW i \in 1..Len(w) PROVE v[i + 1] = w[i]
  <2>1. 1 + i \in 1..Len(a) /\ 1 + i = i + 1
    BY <1>1, <1>8
  <2> QED
    BY <1>7, <1>8, <2>1 DEF Joins
<1>11. NormalizeStoredEnvValue(v) = SubSeq(v, 2, Len(v) - 1)
  <2>1. v # <<>> /\ Len(v) >= 2 /\ Len(v) \in Nat
    BY <1>1, <1>7, <1>8
  <2> QED
    BY <1>9, <2>1 DEF NormalizeStoredEnvValue
<1>12. SubSeq(v, 2, Len(v) - 1) = w
  <2>1. PICK x : x = SubSeq(v, 2, Len(v) - 1)
    OBVIOUS
  <2>2. x \in Seq(Characters) /\ Len(x) = Len(w) /\ \A i \in 1..Len(w) : x[i] = v[i + 1]
    BY <1>1, <1>7, <1>8, <2>1
  <2>3. x = w
    BY <1>1, <1>10, <2>2, SameSeq
  <2> QED
    BY <2>1, <2>3
<1> QED
  BY <1>2, <1>4, <1>5, <1>7, <1>11, <1>12, Zenon DEF Texts

LEMMA Stored ==
  ASSUME NEW v \in Texts
  PROVE  /\ FormatEnvValue(v) \in Texts
         /\ NormalizeStoredEnvValue(FormatEnvValue(v)) = Escape(v)
         /\ Plain(v) => NormalizeStoredEnvValue(FormatEnvValue(v)) = v
  BY EscapeText, Unquoted, Zenon DEF FormatEnvValue

-----------------------------------------------------------------------------
(* Credentials: what a file says, and what a command is about to write.    *)

EnvFileOrNone == EnvTexts \cup {NoFile}
Values == UNION {[D -> Texts] : D \in SUBSET EnvNames}
Jobs ==
  [scope : {"project", "global"}, values : Values, required : SUBSET EnvNames,
   left : SUBSET EnvNames, migrating : BOOLEAN]

\* What a file gives a server for a name.
Tells(file, n) ==
  IF file # NoFile /\ file[n] # NoLine THEN NormalizeStoredEnvValue(file[n]) ELSE <<>>

\* A name that is asked for, or gets a placeholder, has no value where the
\* command looked.
Lacks(n) ==
  /\ n \in DOMAIN ProcessEnv => ProcessEnv[n] = <<>>
  /\ Tells(globalFile, n) = <<>>
  /\ job.scope = "project" => Tells(envFile, n) = <<>>

\* A migration writes what the project's file has; other commands write only
\* what is lacking.
JobFits ==
  IF job.migrating
  THEN \A n \in EnvNames : envFile # NoFile /\ envFile[n] # NoLine =>
         n \in DOMAIN job.values /\ job.values[n] = envFile[n]
  ELSE \A n \in DOMAIN job.values \cup job.left : Lacks(n)

CredentialsTyped ==
  /\ envFile \in EnvFileOrNone /\ legacyFile \in EnvFileOrNone /\ globalFile \in EnvFileOrNone
  /\ job \in Jobs /\ edits \in Nat
  /\ DOMAIN job.values \subseteq job.required
  /\ job.left \subseteq job.required \ DOMAIN job.values
  /\ job.migrating => job.required = DOMAIN job.values

\* What every state of the credentials' files satisfies: unless the user edits
\* one while a question waits, what was found still holds when the file is written.
CredentialsInv ==
  /\ CredentialsTyped
  /\ job.migrating => job.scope = "project" /\ pc # "credentials"
  /\ pc \in {"credentials", "sync"} /\ ~touched => JobFits

GivenBy(project, global) == MergeEnvLayers(ProcessEnv, ReadEnvLayer(project), ReadEnvLayer(global))

LEMMA ParsedNames ==
  ASSUME NEW file
  PROVE  /\ DOMAIN ParseEnvFile(file) = {n \in EnvNames : file # NoFile /\ file[n] # NoLine}
         /\ \A n \in DOMAIN ParseEnvFile(file) : ParseEnvFile(file)[n] = file[n]
<1>1. DOMAIN <<>> = {}
  OBVIOUS
<1>2. CASE file = NoFile
  <2>1. ParseEnvFile(file) = <<>>
    BY <1>2, Zenon DEF ParseEnvFile
  <2> QED
    BY <1>1, <1>2, <2>1, Zenon
<1>3. CASE file # NoFile
  <2>1. ParseEnvFile(file) = [n \in {m \in EnvNames : file[m] # NoLine} |-> file[n]]
    BY <1>3, Zenon DEF ParseEnvFile
  <2> QED
    BY <1>3, <2>1
<1> QED
  BY <1>2, <1>3

LEMMA LayerTells ==
  ASSUME NEW file, NEW n \in EnvNames
  PROVE  /\ n \in DOMAIN ReadEnvLayer(file) => ReadEnvLayer(file)[n] = Tells(file, n)
         /\ n \notin DOMAIN ReadEnvLayer(file) => Tells(file, n) = <<>>
         /\ n \in DOMAIN ReadEnvLayer(file) <=> n \in DOMAIN ParseEnvFile(file)
<1>1. DOMAIN ReadEnvLayer(file) = DOMAIN ParseEnvFile(file)
      /\ (n \in DOMAIN ParseEnvFile(file) => ReadEnvLayer(file)[n] = NormalizeStoredEnvValue(file[n]))
  BY Zenon DEF ReadEnvLayer
<1>2. n \in DOMAIN ParseEnvFile(file) <=> file # NoFile /\ file[n] # NoLine
  BY ParsedNames
<1> QED
  BY <1>1, <1>2, Zenon DEF Tells

\* What a server is given, from what the two files say.
LEMMA MergeTells ==
  ASSUME NEW project, NEW global, NEW n \in EnvNames
  PROVE  GivenBy(project, global)[n] =
           IF n \in DOMAIN ProcessEnv /\ ProcessEnv[n] # <<>> THEN ProcessEnv[n]
           ELSE IF Tells(project, n) # <<>> THEN Tells(project, n) ELSE Tells(global, n)
<1> DEFINE p == ReadEnvLayer(project)
           g == ReadEnvLayer(global)
<1>1. GivenBy(project, global)[n] =
        IF n \in DOMAIN ProcessEnv /\ ProcessEnv[n] # <<>> THEN ProcessEnv[n]
        ELSE IF n \in DOMAIN p /\ p[n] # <<>> THEN p[n]
        ELSE IF n \in DOMAIN g THEN g[n] ELSE <<>>
  BY Zenon DEF GivenBy, MergeEnvLayers
<1>2. (n \in DOMAIN p => p[n] = Tells(project, n)) /\ (n \notin DOMAIN p => Tells(project, n) = <<>>)
  BY LayerTells, Zenon
<1>3. (n \in DOMAIN g => g[n] = Tells(global, n)) /\ (n \notin DOMAIN g => Tells(global, n) = <<>>)
  BY LayerTells, Zenon
<1> HIDE DEF p, g
<1> QED
  BY <1>1, <1>2, <1>3, Zenon

LEMMA ValueType ==
  ASSUME NEW values \in Values
  PROVE  DOMAIN values \subseteq EnvNames /\ \A n \in DOMAIN values : values[n] \in Texts
  BY DEF Values

\* What a file tells after it was written: the values given to syncEnvFile,
\* and what it told before but for legacy defaults.
LinesKept(before, values, after, n) ==
  /\ n \in DOMAIN values /\ Plain(values[n]) => Tells(after, n) = values[n]
  /\ n \notin DOMAIN values =>
       \/ Tells(after, n) = Tells(before, n)
       \/ /\ Tells(after, n) = <<>> /\ n \in DOMAIN LegacyDefaults
          /\ Tells(before, n) = LegacyDefaults[n]

LEMMA SyncWrites ==
  ASSUME NEW file \in EnvFileOrNone, NEW values \in Values, NEW required, NEW s,
         s = SyncEnvFile(file, values, required)
  PROVE  /\ s \in EnvTexts /\ s # NoFile
         /\ \A n \in EnvNames : LinesKept(file, values, s, n)
<1>1. s = [n \in EnvNames |-> s[n]]
  BY Zenon DEF SyncEnvFile
<1>2. \A n \in EnvNames :
        s[n] = IF n \in DOMAIN values THEN FormatEnvValue(values[n])
               ELSE IF n \in DOMAIN ParseEnvFile(file) /\
                       ~(n \in DOMAIN LegacyDefaults \ required /\
                         NormalizeStoredEnvValue(file[n]) = LegacyDefaults[n])
               THEN file[n] ELSE NoLine
  BY Zenon DEF SyncEnvFile
<1>3. ASSUME NEW n \in EnvNames, n \in DOMAIN values
      PROVE  /\ s[n] \in Texts /\ NormalizeStoredEnvValue(s[n]) = Escape(values[n])
             /\ Plain(values[n]) => NormalizeStoredEnvValue(s[n]) = values[n]
  <2>1. values[n] \in Texts
    BY <1>3, ValueType, Zenon
  <2>2. s[n] = FormatEnvValue(values[n])
    BY <1>2, <1>3, Zenon
  <2> QED
    BY <2>1, <2>2, Stored, Zenon
<1>4. ASSUME NEW n \in EnvNames, n \notin DOMAIN values
      PROVE  /\ s[n] \in Texts \cup {NoLine}
             /\ \/ s[n] = NoLine /\ ~(file # NoFile /\ file[n] # NoLine)
                \/ s[n] = file[n] /\ file # NoFile /\ file[n] # NoLine
                \/ /\ s[n] = NoLine /\ file # NoFile /\ file[n] # NoLine
                   /\ n \in DOMAIN LegacyDefaults /\ NormalizeStoredEnvValue(file[n]) = LegacyDefaults[n]
  <2>1. n \in DOMAIN ParseEnvFile(file) <=> file # NoFile /\ file[n] # NoLine
    BY ParsedNames
  <2>2. file # NoFile => file[n] \in Texts \cup {NoLine}
    BY DEF EnvFileOrNone, EnvTexts
  <2>3. s[n] = IF n \in DOMAIN ParseEnvFile(file) /\
                       ~(n \in DOMAIN LegacyDefaults \ required /\
                         NormalizeStoredEnvValue(file[n]) = LegacyDefaults[n])
               THEN file[n] ELSE NoLine
    BY <1>2, <1>4, Zenon
  <2>4. NoLine \in Texts \cup {NoLine}
    OBVIOUS
  <2> QED
    BY <2>1, <2>2, <2>3, <2>4, Zenon
<1>5. s \in EnvTexts
  <2>1. \A n \in EnvNames : s[n] \in Texts \cup {NoLine}
    BY <1>3, <1>4
  <2> QED
    BY <1>1, <2>1, Zenon DEF EnvTexts
<1>6. s # NoFile
  BY <1>5, EnvAssumption, Zenon DEF EnvAssumption
<1>7. \A t \in Texts : t # NoLine
  BY EnvAssumption DEF EnvAssumption
<1>8. ASSUME NEW n \in EnvNames, n \in DOMAIN values, Plain(values[n]) PROVE Tells(s, n) = values[n]
  BY <1>3, <1>6, <1>7, <1>8, Zenon DEF Tells
<1>9. ASSUME NEW n \in EnvNames, n \notin DOMAIN values
      PROVE  \/ Tells(s, n) = Tells(file, n)
             \/ /\ Tells(s, n) = <<>> /\ n \in DOMAIN LegacyDefaults
                /\ Tells(file, n) = LegacyDefaults[n]
  <2>1. CASE s[n] = NoLine /\ ~(file # NoFile /\ file[n] # NoLine)
    BY <2>1, Zenon DEF Tells
  <2>2. CASE s[n] = file[n] /\ file # NoFile /\ file[n] # NoLine
    BY <1>6, <2>2, Zenon DEF Tells
  <2>3. CASE /\ s[n] = NoLine /\ file # NoFile /\ file[n] # NoLine
             /\ n \in DOMAIN LegacyDefaults /\ NormalizeStoredEnvValue(file[n]) = LegacyDefaults[n]
    BY <2>3, Zenon DEF Tells
  <2> QED
    BY <1>4, <1>9, <2>1, <2>2, <2>3, Zenon
<1>10. \A n \in EnvNames : LinesKept(file, values, s, n)
  BY <1>8, <1>9, Zenon DEF LinesKept
<1> QED
  BY <1>5, <1>6, <1>10

LEMMA BlankTells == BlankFile \in EnvTexts /\ BlankFile # NoFile /\ \A n \in EnvNames : Tells(BlankFile, n) = <<>>
<1>1. BlankFile \in EnvTexts
  <2>1. NoLine \in Texts \cup {NoLine}
    OBVIOUS
  <2> QED
    BY <2>1, Zenon DEF BlankFile, EnvTexts
<1>2. BlankFile # NoFile
  BY <1>1, EnvAssumption, Zenon DEF EnvAssumption
<1>3. \A n \in EnvNames : BlankFile[n] = NoLine
  BY Zenon DEF BlankFile
<1> QED
  BY <1>1, <1>2, <1>3, Zenon DEF Tells

LEMMA NoFileTells ==
  ASSUME NEW n
  PROVE  Tells(NoFile, n) = <<>>
  BY Zenon DEF Tells

-----------------------------------------------------------------------------
(* The local variables of a command about credentials.                     *)

JobOf(scope, values, required, left, migrating) ==
  [scope |-> scope, values |-> values, required |-> required, left |-> left, migrating |-> migrating]

LEMMA JobFields ==
  ASSUME NEW j \in Jobs
  PROVE  /\ j = JobOf(j.scope, j.values, j.required, j.left, j.migrating)
         /\ j.scope \in {"project", "global"} /\ j.values \in Values
         /\ j.required \subseteq EnvNames /\ j.left \subseteq EnvNames /\ j.migrating \in BOOLEAN
  BY DEF Jobs, JobOf

IsJob(j, scope, values, required, left, migrating) ==
  /\ j \in Jobs /\ j.scope = scope /\ j.values = values /\ j.required = required /\ j.left = left
  /\ j.migrating = migrating

LEMMA JobTyped ==
  ASSUME NEW scope \in {"project", "global"}, NEW v \in Values, NEW R, R \subseteq EnvNames,
         NEW L, L \subseteq EnvNames, NEW b \in BOOLEAN
  PROVE  IsJob(JobOf(scope, v, R, L, b), scope, v, R, L, b)
<1> DEFINE j == JobOf(scope, v, R, L, b)
<1>1. j.values = v /\ j.required = R /\ j.left = L /\ j.migrating = b /\ j.scope = scope
  BY DEF JobOf
<1>2. j \in Jobs
  BY DEF JobOf, Jobs
<1> QED
  BY <1>1, <1>2 DEF IsJob

LEMMA JobConstants ==
  /\ {} \subseteq EnvNames /\ TRUE \in BOOLEAN /\ FALSE \in BOOLEAN
  /\ "project" \in {"project", "global"} /\ "global" \in {"project", "global"}
  OBVIOUS

LEMMA NoValues == <<>> \in Values /\ DOMAIN <<>> = {}
<1>1. <<>> \in [{} -> Texts]
  OBVIOUS
<1>2. {} \in SUBSET EnvNames
  OBVIOUS
<1> QED
  BY <1>1, <1>2 DEF Values

LEMMA NoJobFields == IsJob(NoJob, "project", <<>>, {}, {}, FALSE)
<1>1. NoJob = JobOf("project", <<>>, {}, {}, FALSE)
  BY DEF NoJob, JobOf
<1> QED
  BY <1>1, NoValues, JobConstants, JobTyped, Zenon

LEMMA PlaceholderValues ==
  ASSUME NEW D \in SUBSET EnvNames
  PROVE  [n \in D |-> <<>>] \in Values /\ DOMAIN [n \in D |-> <<>>] = D
<1>1. <<>> \in Texts
  BY DEF Texts
<1>2. [n \in D |-> <<>>] \in [D -> Texts]
  BY <1>1
<1> QED
  BY <1>2 DEF Values

LEMMA OverlayValues ==
  ASSUME NEW f \in Values, NEW g \in Values, NEW h, h = Overlay(f, g)
  PROVE  /\ h \in Values /\ DOMAIN h = DOMAIN f \cup DOMAIN g
         /\ \A n \in DOMAIN f : h[n] = f[n]
         /\ \A n \in DOMAIN g \ DOMAIN f : h[n] = g[n]
<1> DEFINE D == DOMAIN f \cup DOMAIN g
<1>1. h = [n \in D |-> IF n \in DOMAIN f THEN f[n] ELSE g[n]]
  BY Zenon DEF Overlay
<1>2. DOMAIN h = D /\ (\A n \in DOMAIN f : h[n] = f[n]) /\ (\A n \in DOMAIN g \ DOMAIN f : h[n] = g[n])
  BY <1>1
<1>3. D \in SUBSET EnvNames
  BY ValueType
<1>4. \A n \in D : h[n] \in Texts
  BY <1>2, ValueType
<1>5. h \in [D -> Texts]
  BY <1>1, <1>2, <1>4
<1> QED
  BY <1>2, <1>3, <1>5 DEF Values

LEMMA ParsedValues ==
  ASSUME NEW file \in EnvFileOrNone
  PROVE  ParseEnvFile(file) \in Values
<1>1. CASE file = NoFile
  BY <1>1, NoValues, Zenon DEF ParseEnvFile
<1>2. CASE file # NoFile
  <2> DEFINE D == {m \in EnvNames : file[m] # NoLine}
  <2>1. ParseEnvFile(file) = [n \in D |-> file[n]]
    BY <1>2, Zenon DEF ParseEnvFile
  <2>2. \A n \in D : file[n] \in Texts
    BY <1>2 DEF EnvFileOrNone, EnvTexts
  <2>3. [n \in D |-> file[n]] \in [D -> Texts]
    BY <2>2
  <2> QED
    BY <2>1, <2>3 DEF Values
<1> QED
  BY <1>1, <1>2

LEMMA AnswerValues ==
  ASSUME NEW n \in EnvNames, NEW value \in Texts, NEW g, g = [m \in {n} |-> value]
  PROVE  g \in Values /\ DOMAIN g = {n}
<1>1. g \in [{n} -> Texts] /\ {n} \in SUBSET EnvNames
  OBVIOUS
<1> QED
  BY <1>1 DEF Values

\* The local variables after each way to start a command, and after an answer.
LEMMA MigrationJob ==
  ASSUME NEW v \in Values, NEW j,
         j = [NoJob EXCEPT !.values = v, !.required = DOMAIN v, !.migrating = TRUE]
  PROVE  IsJob(j, "project", v, DOMAIN v, {}, TRUE)
<1>1. j = JobOf("project", v, DOMAIN v, {}, TRUE)
  BY DEF NoJob, JobOf
<1>2. DOMAIN v \subseteq EnvNames
  BY ValueType, Zenon
<1>3. IsJob(JobOf("project", v, DOMAIN v, {}, TRUE), "project", v, DOMAIN v, {}, TRUE)
  BY <1>2, JobConstants, JobTyped, Zenon
<1> QED
  BY <1>1, <1>3

LEMMA EntriesJob ==
  ASSUME NEW v \in Values, NEW names, names \subseteq EnvNames, NEW j,
         j = [NoJob EXCEPT !.required = names, !.values = v]
  PROVE  IsJob(j, "project", v, names, {}, FALSE)
<1>1. j = JobOf("project", v, names, {}, FALSE)
  BY DEF NoJob, JobOf
<1>2. IsJob(JobOf("project", v, names, {}, FALSE), "project", v, names, {}, FALSE)
  BY JobConstants, JobTyped, Zenon
<1> QED
  BY <1>1, <1>2

LEMMA QuestionsJob ==
  ASSUME NEW scope \in {"project", "global"}, NEW R, R \subseteq EnvNames, NEW L, L \subseteq R, NEW j,
         j = [NoJob EXCEPT !.scope = scope, !.required = R, !.left = L]
  PROVE  IsJob(j, scope, <<>>, R, L, FALSE)
<1>1. j = JobOf(scope, <<>>, R, L, FALSE)
  BY DEF NoJob, JobOf
<1>2. L \subseteq EnvNames
  OBVIOUS
<1>3. IsJob(JobOf(scope, <<>>, R, L, FALSE), scope, <<>>, R, L, FALSE)
  BY <1>2, NoValues, JobConstants, JobTyped, Zenon
<1> QED
  BY <1>1, <1>3

LEMMA AnswerJob ==
  ASSUME NEW i \in Jobs, NEW L, L \subseteq i.left, NEW v \in Values, NEW j,
         j = [i EXCEPT !.left = L, !.values = v]
  PROVE  IsJob(j, i.scope, v, i.required, L, i.migrating)
<1>1. i = JobOf(i.scope, i.values, i.required, i.left, i.migrating)
  BY JobFields
<1>2. j = JobOf(i.scope, v, i.required, L, i.migrating)
  BY <1>1, Zenon DEF JobOf
<1>3. /\ i.scope \in {"project", "global"} /\ i.required \subseteq EnvNames
      /\ i.left \subseteq EnvNames /\ i.migrating \in BOOLEAN
  BY JobFields, Zenon
<1>4. L \subseteq EnvNames
  BY <1>3, Zenon
<1>5. IsJob(JobOf(i.scope, v, i.required, L, i.migrating), i.scope, v, i.required, L, i.migrating)
  BY <1>3, <1>4, JobTyped, Zenon
<1> QED
  BY <1>2, <1>5

\* Commands about other files never wait for a credential, nor write one.
LEMMA OthersElsewhere ==
  ASSUME AgentNext \/ ToolkitNext, edits \in Nat
  PROVE  edits' \in Nat /\ pc' \notin {"credentials", "sync"}
<1> DEFINE Good == edits' \in Nat /\ pc' \notin {"credentials", "sync"}
<1>1. CASE AgentCommand
  BY <1>1 DEF AgentCommand, AddAgents, InitAgents, InitAgain, RemoveAgents, InstallSkill, RemoveSkill, Begin,
     RestoreConfiguredAgents, Configure, Finish, StartRemoval, RefuseRemoval
<1>2. CASE ConfigureStep
  BY <1>2 DEF ConfigureStep, WriteProfile, InjectAgentConfig, ResolveClineRegistration, AnswerOffer,
     OfferClineGlobalRegistration, MigrateLegacyProxyLocations, MaterializeAgentSkills,
     WriteAgentInstructions, Step, Abort, bounds
<1>3. CASE RemovalStep
  BY <1>3 DEF RemovalStep, DropAgent, RemoveEntry, RemoveBlock, RemoveProfile, AnswerRemoval,
     RemoveClineGlobalRegistration, NextRemoval, Step, Abort, bounds
<1>4. CASE Kill
  BY <1>4 DEF Kill
<1>5. ASSUME NEW f, EditConfig(f) \/ EditSettings(f) \/ EditNotes(f) PROVE Good
  BY <1>5 DEF EditConfig, EditSettings, EditNotes, EditFile, control
<1>6. ASSUME AgentNext PROVE Good
  BY <1>1, <1>2, <1>3, <1>4, <1>5, <1>6 DEF AgentNext
<1>7. ASSUME NEW v, NEW g, InstallToolkit(v, g) PROVE Good
  BY <1>7 DEF InstallToolkit, BeginKit, Begin, Leave
<1>8. ASSUME RefuseToolkit \/ RemoveToolkit PROVE Good
  BY <1>8 DEF RefuseToolkit, RemoveToolkit, BeginKit, Begin, Leave
<1>9. ASSUME NEW accepted, Proceed(accepted) \/ AnswerDeletion(accepted) PROVE Good
  BY <1>9 DEF Proceed, AnswerDeletion, At, Leave, bounds, RestoreConfiguredAgents, Configure, Finish
<1>10. ASSUME RunToolkitCommand \/ ToolkitCommandFails \/ ToolkitCommandsDone PROVE Good
  BY <1>10 DEF RunToolkitCommand, ToolkitCommandFails, ToolkitCommandsDone, At, bounds, control,
     RestoreConfiguredAgents, Configure, Finish
<1>11. ASSUME RollbackNewToolkitPaths \/ RecordToolkit \/ Relock \/ RelockFails PROVE Good
  BY <1>11 DEF RollbackNewToolkitPaths, RecordToolkit, Relock, RelockFails, At, Leave, bounds,
     RestoreConfiguredAgents, Configure, Finish
<1>12. ASSUME UninstallIntegration \/ DeleteToolkitPaths PROVE Good
  BY <1>12 DEF UninstallIntegration, DeleteToolkitPaths, LeaveBehind, bounds, control,
     RestoreConfiguredAgents, Configure, Finish
<1>13. ASSUME NEW mode, RestoreToolkits(mode) PROVE Good
  BY <1>13 DEF RestoreToolkits, BeginKit, Begin, Leave, RestoreConfiguredAgents, Configure, Finish
<1>14. ASSUME KillToolkit PROVE Good
  BY <1>14 DEF KillToolkit
<1>15. ASSUME NEW f, EditDisk(f) PROVE Good
  BY <1>15 DEF EditDisk, control
<1>16. ASSUME ToolkitNext PROVE Good
  BY <1>7, <1>8, <1>9, <1>10, <1>11, <1>12, <1>13, <1>14, <1>15, <1>16 DEF ToolkitNext
<1> QED
  BY <1>6, <1>16

-----------------------------------------------------------------------------
(* Each step about credentials.                                            *)

LEMMA EditedFile ==
  ASSUME NEW file \in EnvFileOrNone, file # NoFile, NEW n, NEW line \in {NoLine} \cup Answers
  PROVE  [file EXCEPT ![n] = line] \in EnvTexts
<1>1. file \in [EnvNames -> Texts \cup {NoLine}]
  BY Zenon DEF EnvFileOrNone, EnvTexts
<1>2. line \in Texts \cup {NoLine}
  BY EnvAssumption, Zenon DEF EnvAssumption
<1> QED
  BY <1>1, <1>2, Zenon DEF EnvTexts

LEMMA CutFile ==
  ASSUME NEW file \in EnvTexts, NEW S
  PROVE  [n \in EnvNames |-> IF n \in S THEN file[n] ELSE NoLine] \in EnvTexts
<1>1. file \in [EnvNames -> Texts \cup {NoLine}] /\ NoLine \in Texts \cup {NoLine}
  BY Zenon DEF EnvTexts
<1>2. \A n \in EnvNames : (IF n \in S THEN file[n] ELSE NoLine) \in Texts \cup {NoLine}
  BY <1>1, Zenon
<1> QED
  BY <1>2, Zenon DEF EnvTexts

LEMMA WrittenFile ==
  ASSUME CredentialsTyped
  PROVE  Synced \in EnvTexts
<1>1. PICK file : file = IF job.scope = "global" THEN globalFile ELSE envFile
  OBVIOUS
<1>2. file \in EnvFileOrNone /\ job.values \in Values
  BY <1>1, JobFields DEF CredentialsTyped
<1>3. Synced = SyncEnvFile(file, job.values, job.required)
  BY <1>1, Zenon DEF Synced
<1> QED
  BY <1>2, <1>3, SyncWrites, Zenon

LEMMA EmptyStored == NormalizeStoredEnvValue(<<>>) = <<>>
BY DEF NormalizeStoredEnvValue

\* A placeholder is for a name that has no value anywhere.
LEMMA PlaceholdersLack ==
  ASSUME NEW n \in EnvNames, n \notin DOMAIN ProcessEnv, n \notin DOMAIN ParseEnvFile(envFile),
         n \notin GlobalEnvNames(TRUE)
  PROVE  Tells(globalFile, n) = <<>> /\ Tells(envFile, n) = <<>>
<1>1. n \notin DOMAIN ReadEnvLayer(globalFile)
  BY Zenon DEF GlobalEnvNames
<1>2. n \notin DOMAIN ReadEnvLayer(envFile)
  BY LayerTells, Zenon
<1> QED
  BY <1>1, <1>2, LayerTells, Zenon

\* So is a question, but for the place it does not look at.
LEMMA NothingKnown ==
  ASSUME NEW n \in EnvNames, NEW file, ~(n \in DOMAIN ParseEnvFile(file) /\ ParseEnvFile(file)[n] # <<>>)
  PROVE  Tells(file, n) = <<>>
<1>1. CASE n \notin DOMAIN ParseEnvFile(file)
  BY <1>1, LayerTells, Zenon
<1>2. CASE n \in DOMAIN ParseEnvFile(file)
  <2>1. file[n] = <<>>
    BY <1>2, ParsedNames
  <2>2. n \in DOMAIN ReadEnvLayer(file) /\ ReadEnvLayer(file)[n] = NormalizeStoredEnvValue(file[n])
    BY <1>2, Zenon DEF ReadEnvLayer
  <2> QED
    BY <2>1, <2>2, EmptyStored, LayerTells, Zenon
<1> QED
  BY <1>1, <1>2, Zenon

LEMMA NotGlobal ==
  ASSUME NEW n \in EnvNames, n \notin GlobalEnvNames(FALSE)
  PROVE  Tells(globalFile, n) = <<>>
<1>1. n \in DOMAIN ReadEnvLayer(globalFile) => ReadEnvLayer(globalFile)[n] = <<>>
  BY Zenon DEF GlobalEnvNames
<1> QED
  BY <1>1, LayerTells, Zenon

LEMMA MigrationStarts ==
  ASSUME CredentialsInv, EnsureInitialized
  PROVE  CredentialsInv'
<1>1. /\ envFile' = envFile /\ legacyFile' = legacyFile /\ globalFile' = globalFile /\ edits' = edits
  BY DEF EnsureInitialized, BeginEnv, Begin
<1>2. envFile \in EnvFileOrNone /\ legacyFile \in EnvFileOrNone /\ globalFile \in EnvFileOrNone /\ edits \in Nat
  BY Zenon DEF CredentialsInv, CredentialsTyped
<1>3. CASE legacyFile = NoFile
  <2>1. pc' = "ensure" /\ job' = NoJob
    BY <1>3, Zenon DEF EnsureInitialized
  <2>2. /\ job' \in Jobs /\ job'.required = {} /\ job'.left = {}
        /\ job'.migrating = FALSE /\ DOMAIN job'.values = {}
    BY <2>1, NoJobFields, NoValues, Zenon DEF IsJob
  <2>3. CredentialsTyped'
    BY <1>1, <1>2, <2>2 DEF CredentialsTyped
  <2> QED
    BY <2>1, <2>2, <2>3 DEF CredentialsInv
<1>4. CASE legacyFile # NoFile
  <2>1. PICK v : v = Overlay(ParseEnvFile(envFile), ParseEnvFile(legacyFile))
    OBVIOUS
  <2>2. pc' = "sync" /\ job' = [NoJob EXCEPT !.values = v, !.required = DOMAIN v, !.migrating = TRUE]
    BY <1>4, <2>1, Zenon DEF EnsureInitialized
  <2>3. ParseEnvFile(envFile) \in Values /\ ParseEnvFile(legacyFile) \in Values
    BY <1>2, ParsedValues, Zenon
  <2> DEFINE merged == Overlay(ParseEnvFile(envFile), ParseEnvFile(legacyFile))
  <2>a. /\ merged \in Values /\ DOMAIN merged = DOMAIN ParseEnvFile(envFile) \cup DOMAIN ParseEnvFile(legacyFile)
        /\ \A n \in DOMAIN ParseEnvFile(envFile) : merged[n] = ParseEnvFile(envFile)[n]
    BY <2>3, OverlayValues, Zenon
  <2>b. v = merged
    BY <2>1
  <2> HIDE DEF merged
  <2>4. v \in Values /\ \A n \in DOMAIN ParseEnvFile(envFile) : v[n] = ParseEnvFile(envFile)[n]
    BY <2>a, <2>b
  <2>5. DOMAIN v = DOMAIN ParseEnvFile(envFile) \cup DOMAIN ParseEnvFile(legacyFile)
    BY <2>a, <2>b
  <2>6. PICK j : j = job'
    OBVIOUS
  <2>7. IsJob(j, "project", v, DOMAIN v, {}, TRUE)
    BY <2>2, <2>4, <2>6, MigrationJob, Zenon
  <2>8. /\ j \in Jobs /\ j.values = v /\ j.required = DOMAIN v /\ j.left = {}
        /\ j.migrating = TRUE /\ j.scope = "project"
    BY <2>7, Zenon DEF IsJob
  <2>9. CredentialsTyped'
    BY <1>1, <1>2, <2>6, <2>8 DEF CredentialsTyped
  <2>10. ASSUME NEW n \in EnvNames, envFile # NoFile, envFile[n] # NoLine
         PROVE  n \in DOMAIN v /\ v[n] = envFile[n]
    <3>1. n \in DOMAIN ParseEnvFile(envFile) /\ ParseEnvFile(envFile)[n] = envFile[n]
      BY <2>10, ParsedNames
    <3> QED
      BY <2>4, <2>5, <3>1, Zenon
  <2>11. JobFits'
    BY <1>1, <2>6, <2>8, <2>10, Zenon DEF JobFits
  <2>12. pc' = "sync"
    BY <2>2
  <2> QED
    BY <2>6, <2>8, <2>9, <2>11, <2>12 DEF CredentialsInv
<1> QED
  BY <1>3, <1>4

\* Placeholders are for what has no value anywhere.
LEMMA EntriesFit ==
  ASSUME CredentialsInv, NEW names \in SUBSET EnvNames, job' = EnsureMcpEnvFileEntries(names),
         UNCHANGED <<envFile, legacyFile, globalFile, edits>>, pc' = "sync"
  PROVE  CredentialsInv'
<1> DEFINE D == names \ (DOMAIN ProcessEnv \cup DOMAIN ParseEnvFile(envFile) \cup GlobalEnvNames(TRUE))
<1>1. PICK v : v = [n \in D |-> <<>>]
  OBVIOUS
<1>2. job' = [NoJob EXCEPT !.required = names, !.values = v]
  BY <1>1, Zenon DEF EnsureMcpEnvFileEntries
<1>3. PICK j : j = job'
  OBVIOUS
<1>5. D \subseteq names
  OBVIOUS
<1>6. \A n \in D : n \notin DOMAIN ProcessEnv /\ Tells(globalFile, n) = <<>> /\ Tells(envFile, n) = <<>>
  BY PlaceholdersLack
<1>7. PICK E : E = D
  OBVIOUS
<1> HIDE DEF D
<1>8. /\ j \in Jobs /\ j.required = names /\ j.left = {} /\ j.migrating = FALSE /\ j.scope = "project"
      /\ DOMAIN j.values = E
  <2>1. E \subseteq names /\ v = [n \in E |-> <<>>]
    BY <1>1, <1>5, <1>7, Zenon
  <2>2. E \in SUBSET EnvNames
    BY <2>1
  <2>3. v \in Values /\ DOMAIN v = E
    BY <2>1, <2>2, PlaceholderValues
  <2>4. names \subseteq EnvNames
    OBVIOUS
  <2>5. IsJob(j, "project", v, names, {}, FALSE)
    BY <1>2, <1>3, <2>3, <2>4, EntriesJob, Zenon
  <2> QED
    BY <2>3, <2>5, Zenon DEF IsJob
<1>9. CredentialsTyped'
  BY <1>3, <1>5, <1>7, <1>8 DEF CredentialsInv, CredentialsTyped
<1>10. \A n \in E : Lacks(n)'
  BY <1>6, <1>7, Zenon DEF Lacks
<1>11. JobFits'
  BY <1>3, <1>8, <1>10 DEF JobFits
<1> QED
  BY <1>3, <1>8, <1>9, <1>11 DEF CredentialsInv

\* What a question is asked for has no value where the command looked.
LEMMA QuestionsLack ==
  ASSUME NEW n \in EnvNames, NEW scope, n \notin GlobalEnvNames(FALSE),
         ~(n \in DOMAIN ProcessEnv /\ ProcessEnv[n] # <<>>),
         LET existing == ParseEnvFile(IF scope = "global" THEN globalFile ELSE envFile)
         IN ~(n \in DOMAIN existing /\ existing[n] # <<>>)
  PROVE  /\ n \in DOMAIN ProcessEnv => ProcessEnv[n] = <<>>
         /\ Tells(globalFile, n) = <<>>
         /\ scope = "project" => Tells(envFile, n) = <<>>
<1>1. Tells(globalFile, n) = <<>>
  BY NotGlobal, Zenon
<1>2. ASSUME scope = "project" PROVE Tells(envFile, n) = <<>>
  <2>1. (IF scope = "global" THEN globalFile ELSE envFile) = envFile
    BY <1>2
  <2> QED
    BY <2>1, NothingKnown, Zenon
<1> QED
  BY <1>1, <1>2, Zenon

LEMMA QuestionsFit ==
  ASSUME CredentialsInv, NEW names \in References, NEW scope \in {"project", "global"},
         ConfigureMcpCredentials(names, scope)
  PROVE  CredentialsInv'
<1> DEFINE R == names \ GlobalEnvNames(FALSE)
           existing == ParseEnvFile(IF scope = "global" THEN globalFile ELSE envFile)
           known(n) == \/ n \in DOMAIN ProcessEnv /\ ProcessEnv[n] # <<>>
                       \/ n \in DOMAIN existing /\ existing[n] # <<>>
           L == {n \in R : ~known(n)}
<1>1. names \in SUBSET EnvNames
  BY EnvAssumption DEF EnvAssumption
<1>2. /\ envFile' = envFile /\ legacyFile' = legacyFile /\ edits' = edits
      /\ globalFile' = IF R # {} /\ scope = "global" /\ globalFile = NoFile THEN BlankFile ELSE globalFile
  BY DEF ConfigureMcpCredentials, BeginEnv, Begin
<1>3. CASE R = {}
  <2>1. job' = EnsureMcpEnvFileEntries(names) /\ pc' = "sync"
    BY <1>3, Zenon DEF ConfigureMcpCredentials
  <2>2. globalFile' = globalFile
    BY <1>2, <1>3, Zenon
  <2> QED
    BY <1>1, <1>2, <2>1, <2>2, EntriesFit, Zenon
<1>4. CASE R # {}
  <2>1. pc' = "credentials" /\ job' = [NoJob EXCEPT !.scope = scope, !.required = R, !.left = L]
    BY <1>4, Zenon DEF ConfigureMcpCredentials
  <2>2. R \subseteq EnvNames /\ L \subseteq R
    BY <1>1
  <2>3. IsJob(job', scope, <<>>, R, L, FALSE)
    <3>1. PICK j : j = job'
      OBVIOUS
    <3>2. PICK S : S = R
      OBVIOUS
    <3>3. PICK M : M = L
      OBVIOUS
    <3> HIDE DEF R, L
    <3>4. S \subseteq EnvNames /\ M \subseteq S /\ j = [NoJob EXCEPT !.scope = scope, !.required = S, !.left = M]
      BY <2>1, <2>2, <3>1, <3>2, <3>3, Zenon
    <3>5. IsJob(j, scope, <<>>, S, M, FALSE)
      BY <3>4, QuestionsJob, Zenon
    <3> QED
      BY <3>1, <3>2, <3>3, <3>5, Zenon
  <2>4. \A n \in L : /\ n \in DOMAIN ProcessEnv => ProcessEnv[n] = <<>>
                     /\ Tells(globalFile, n) = <<>>
                     /\ scope = "project" => Tells(envFile, n) = <<>>
    <3>1. ASSUME NEW n \in L
          PROVE  /\ n \in DOMAIN ProcessEnv => ProcessEnv[n] = <<>>
                 /\ Tells(globalFile, n) = <<>>
                 /\ scope = "project" => Tells(envFile, n) = <<>>
      <4>1. n \in EnvNames /\ n \notin GlobalEnvNames(FALSE) /\ ~known(n)
        BY <2>2, <3>1
      <4> QED
        BY <4>1, QuestionsLack, Zenon
    <3> QED
      BY <3>1
  <2>5. globalFile' \in EnvFileOrNone /\ \A n \in EnvNames : Tells(globalFile', n) = Tells(globalFile, n)
    <3>1. CASE globalFile' = globalFile
      BY <3>1, Zenon DEF CredentialsInv, CredentialsTyped
    <3>2. CASE globalFile' = BlankFile /\ globalFile = NoFile
      BY <3>2, BlankTells, NoFileTells, Zenon DEF EnvFileOrNone
    <3> QED
      BY <1>2, <3>1, <3>2, Zenon
  <2> HIDE DEF R, L
  <2>6. /\ job' \in Jobs /\ job'.required = R /\ job'.left = L /\ job'.migrating = FALSE /\ job'.scope = scope
        /\ DOMAIN job'.values = {}
    BY <2>3, NoValues, Zenon DEF IsJob
  <2>7. CredentialsTyped'
    BY <1>2, <2>2, <2>5, <2>6 DEF CredentialsInv, CredentialsTyped
  <2>8. \A n \in L : Lacks(n)'
    BY <1>2, <2>2, <2>4, <2>5, <2>6, Zenon DEF Lacks
  <2>9. JobFits'
    BY <2>6, <2>8 DEF JobFits
  <2> QED
    BY <2>1, <2>6, <2>7, <2>9 DEF CredentialsInv
<1> QED
  BY <1>3, <1>4

LEMMA AnswersFit ==
  ASSUME CredentialsInv, NEW n \in EnvNames, NEW value \in Answers, AnswerCredential(n, value)
  PROVE  CredentialsInv'
<1>1. /\ UNCHANGED <<envFile, legacyFile, globalFile, edits, touched>> /\ pc = "credentials" /\ pc' = pc
      /\ n \in job.left
  BY DEF AnswerCredential, EnvStep, bounds, history
<1>2. /\ job \in Jobs /\ DOMAIN job.values \subseteq job.required
      /\ job.left \subseteq job.required \ DOMAIN job.values /\ job.migrating # TRUE
  BY <1>1, Zenon DEF CredentialsInv, CredentialsTyped
<1>3. value \in Texts
  BY EnvAssumption DEF EnvAssumption
<1>4. PICK g : g = [m \in {n} |-> value]
  OBVIOUS
<1>5. g \in Values /\ DOMAIN g = {n}
  BY <1>3, <1>4, AnswerValues, Zenon
<1>6. PICK v : v = Overlay(job.values, g)
  OBVIOUS
<1>7. v \in Values /\ DOMAIN v = DOMAIN job.values \cup {n}
  <2>1. PICK f : f = job.values
    OBVIOUS
  <2>2. f \in Values /\ v = Overlay(f, g)
    BY <1>2, <1>6, <2>1, JobFields, Zenon
  <2>3. v \in Values /\ DOMAIN v = DOMAIN f \cup DOMAIN g
    BY <1>5, <2>2, OverlayValues, Zenon
  <2> QED
    BY <1>5, <2>1, <2>3, Zenon
<1>8. PICK M : M = job.left \ {n}
  OBVIOUS
<1>9. IsJob(job', job.scope, v, job.required, M, job.migrating)
  <2>1. PICK i : i = job
    OBVIOUS
  <2>2. PICK j : j = job'
    OBVIOUS
  <2>3. j = [i EXCEPT !.left = M, !.values = v]
    BY <1>4, <1>6, <1>8, <2>1, <2>2, Zenon DEF AnswerCredential
  <2>4. i \in Jobs /\ M \subseteq i.left
    BY <1>2, <1>8, <2>1
  <2>5. IsJob(j, i.scope, v, i.required, M, i.migrating)
    BY <1>7, <2>3, <2>4, AnswerJob, Zenon
  <2> QED
    BY <2>1, <2>2, <2>5, Zenon
<1>10. /\ job' \in Jobs /\ job'.scope = job.scope /\ job'.required = job.required /\ job'.migrating = job.migrating
       /\ DOMAIN job'.values = DOMAIN job.values \cup {n} /\ job'.left = job.left \ {n}
  BY <1>7, <1>8, <1>9, Zenon DEF IsJob
<1>11. CredentialsTyped'
  BY <1>1, <1>2, <1>10 DEF CredentialsInv, CredentialsTyped
<1>12. ASSUME ~touched' PROVE JobFits'
  <2>1. \A m \in DOMAIN job.values \cup job.left : Lacks(m)
    BY <1>1, <1>2, <1>12, Zenon DEF CredentialsInv, JobFits
  <2>2. \A m \in DOMAIN job'.values \cup job'.left : m \in DOMAIN job.values \cup job.left
    BY <1>1, <1>10
  <2>3. \A m : Lacks(m) => Lacks(m)'
    BY <1>1, <1>10, Zenon DEF Lacks
  <2> QED
    BY <1>2, <1>10, <2>1, <2>2, <2>3, Zenon DEF JobFits
<1> QED
  BY <1>1, <1>2, <1>10, <1>11, <1>12, Zenon DEF CredentialsInv

\* A command that has ended keeps nothing.
LEMMA NoJobKept ==
  ASSUME job' = NoJob, pc' \notin {"credentials", "sync"}, envFile' \in EnvFileOrNone,
         legacyFile' \in EnvFileOrNone, globalFile' \in EnvFileOrNone, edits' \in Nat
  PROVE  CredentialsInv'
<1>1. /\ job' \in Jobs /\ job'.required = {} /\ job'.left = {} /\ job'.migrating = FALSE
      /\ DOMAIN job'.values = {}
  BY NoJobFields, NoValues, Zenon DEF IsJob
<1> QED
  BY <1>1 DEF CredentialsInv, CredentialsTyped

LEMMA WriteTyped ==
  ASSUME CredentialsInv, WriteEnvFile
  PROVE  CredentialsInv'
<1>1. /\ legacyFile' = legacyFile /\ edits' = edits
      /\ \/ envFile' = Synced /\ globalFile' = globalFile
         \/ globalFile' = Synced /\ envFile' = envFile
      /\ \/ job.migrating /\ job' = job /\ pc' = "legacy"
         \/ job' = NoJob /\ pc' = "idle"
  BY DEF WriteEnvFile, EnvDone, EnvStep, bounds
<1>2. Synced \in EnvFileOrNone
  BY WrittenFile, Zenon DEF EnvFileOrNone, CredentialsInv
<1>3. envFile' \in EnvFileOrNone /\ legacyFile' \in EnvFileOrNone /\ globalFile' \in EnvFileOrNone /\ edits' \in Nat
  BY <1>1, <1>2, Zenon DEF CredentialsInv, CredentialsTyped
<1>4. CASE job' = job /\ pc' = "legacy"
  BY <1>3, <1>4 DEF CredentialsInv, CredentialsTyped
<1>5. CASE job' = NoJob /\ pc' = "idle"
  BY <1>3, <1>5, NoJobKept
<1> QED
  BY <1>1, <1>4, <1>5

LEMMA FilesSettle ==
  ASSUME CredentialsInv, CredentialsAnswered \/ RemoveLegacyFile \/ EnsureMcpEnvFile
  PROVE  CredentialsInv'
<1>1. CASE CredentialsAnswered
  <2>1. UNCHANGED <<envFile, legacyFile, globalFile, job, edits, touched>> /\ pc = "credentials" /\ pc' = "sync"
    BY <1>1 DEF CredentialsAnswered, EnvStep, envVars, bounds, history
  <2>2. ~touched' => JobFits
    BY <2>1 DEF CredentialsInv
  <2>3. JobFits' <=> JobFits
    BY <2>1 DEF JobFits, Lacks, Tells
  <2> QED
    BY <2>1, <2>2, <2>3 DEF CredentialsInv, CredentialsTyped
<1>2. CASE RemoveLegacyFile
  <2>1. UNCHANGED <<envFile, globalFile, job, edits>> /\ legacyFile' = NoFile /\ pc' = "ensure"
    BY <1>2 DEF RemoveLegacyFile, EnvStep, bounds
  <2> QED
    BY <2>1 DEF CredentialsInv, CredentialsTyped, EnvFileOrNone
<1>3. CASE EnsureMcpEnvFile
  <2>1. UNCHANGED <<legacyFile, globalFile, edits>> /\ job' = NoJob /\ pc' = "idle"
        /\ envFile' = IF envFile = NoFile THEN BlankFile ELSE envFile
    BY <1>3 DEF EnsureMcpEnvFile, EnvDone, EnvStep, bounds
  <2>2. envFile' \in EnvFileOrNone
    BY <2>1, BlankTells, Zenon DEF EnvFileOrNone, CredentialsInv, CredentialsTyped
  <2> QED
    BY <2>1, <2>2, NoJobKept DEF CredentialsInv, CredentialsTyped
<1> QED
  BY <1>1, <1>2, <1>3

LEMMA FaultsKeepTypes ==
  ASSUME CredentialsInv,
         KillEnv \/ \E n \in EnvNames, line \in {NoLine} \cup Answers : EditEnv(n, line)
  PROVE  CredentialsInv'
<1>1. CASE KillEnv
  <2>1. legacyFile' = legacyFile /\ edits' = edits /\ job' = NoJob /\ pc' = "idle"
    BY <1>1 DEF KillEnv
  <2>2. \A S : [n \in EnvNames |-> IF n \in S THEN Synced[n] ELSE NoLine] \in EnvFileOrNone
    BY CutFile, WrittenFile, Zenon DEF EnvFileOrNone, CredentialsInv
  <2>3. envFile' \in EnvFileOrNone /\ globalFile' \in EnvFileOrNone
    <3>1. envFile \in EnvFileOrNone /\ globalFile \in EnvFileOrNone
      BY Zenon DEF CredentialsInv, CredentialsTyped
    <3>2. CASE pc = "sync"
      <4>1. PICK S \in SUBSET EnvNames :
              \/ /\ globalFile' = [n \in EnvNames |-> IF n \in S THEN Synced[n] ELSE NoLine]
                 /\ envFile' = envFile
              \/ /\ envFile' = [n \in EnvNames |-> IF n \in S THEN Synced[n] ELSE NoLine]
                 /\ globalFile' = globalFile
        BY <1>1, <3>2 DEF KillEnv
      <4> QED
        BY <2>2, <3>1, <4>1, Zenon
    <3>3. CASE pc # "sync"
      BY <1>1, <3>1, <3>3, Zenon DEF KillEnv
    <3> QED
      BY <3>2, <3>3
  <2> QED
    BY <2>1, <2>3, NoJobKept DEF CredentialsInv, CredentialsTyped
<1>2. ASSUME NEW n \in EnvNames, NEW line \in {NoLine} \cup Answers, EditEnv(n, line)
      PROVE  CredentialsInv'
  <2>1. /\ legacyFile' = legacyFile /\ edits' = edits + 1 /\ touched' = TRUE /\ job' = job /\ pc' = pc
        /\ \/ envFile # NoFile /\ envFile' = [envFile EXCEPT ![n] = line] /\ globalFile' = globalFile
           \/ globalFile # NoFile /\ globalFile' = [globalFile EXCEPT ![n] = line] /\ envFile' = envFile
    BY <1>2, Zenon DEF EditEnv, control
  <2>2. envFile' \in EnvFileOrNone /\ globalFile' \in EnvFileOrNone
    <3>1. envFile \in EnvFileOrNone /\ globalFile \in EnvFileOrNone
      BY Zenon DEF CredentialsInv, CredentialsTyped
    <3>2. CASE envFile # NoFile /\ envFile' = [envFile EXCEPT ![n] = line] /\ globalFile' = globalFile
      <4>1. [envFile EXCEPT ![n] = line] \in EnvTexts
        BY <3>1, <3>2, EditedFile
      <4> QED
        BY <3>1, <3>2, <4>1, Zenon DEF EnvFileOrNone
    <3>3. CASE globalFile # NoFile /\ globalFile' = [globalFile EXCEPT ![n] = line] /\ envFile' = envFile
      <4>1. [globalFile EXCEPT ![n] = line] \in EnvTexts
        BY <3>1, <3>3, EditedFile
      <4> QED
        BY <3>1, <3>3, <4>1, Zenon DEF EnvFileOrNone
    <3> QED
      BY <2>1, <3>2, <3>3, Zenon
  <2>3. edits' \in Nat
    BY <2>1 DEF CredentialsInv, CredentialsTyped
  <2> QED
    BY <2>1, <2>2, <2>3, Zenon DEF CredentialsInv, CredentialsTyped
<1> QED
  BY <1>1, <1>2

\* What a command about credentials found when it looked still holds when it writes
\* its file, unless the user edited one meanwhile: the names it has no value for
\* lack one, and a migration carries every line of the project's file
\* (sync.env.file.ts, configure.mcp.credentials.from.result.ts).
THEOREM CredentialsInductive == Spec => []CredentialsInv
<1>1. Init => CredentialsInv
  <2>1. ASSUME NEW scene \in Scenes, AgentInit(scene), EnvInit(scene)
        PROVE  CredentialsInv
    <3>1. {scene.envFile, scene.legacyFile, scene.globalFile} \subseteq EnvTexts \cup {NoFile}
      BY SceneAssumption, Zenon DEF SceneAssumption
    <3>2. envFile \in EnvFileOrNone /\ legacyFile \in EnvFileOrNone /\ globalFile \in EnvFileOrNone
      BY <2>1, <3>1 DEF EnvInit, EnvFileOrNone
    <3>3. job = NoJob /\ pc = "idle" /\ edits = 0
      BY <2>1 DEF EnvInit, AgentInit
    <3>4. IsJob(job, "project", <<>>, {}, {}, FALSE)
      BY <3>3, NoJobFields, Zenon
    <3>5. /\ job \in Jobs /\ job.required = {} /\ job.left = {} /\ job.migrating = FALSE
          /\ DOMAIN job.values = {}
      BY <3>4, NoValues, Zenon DEF IsJob
    <3> QED
      BY <3>2, <3>3, <3>5 DEF CredentialsInv, CredentialsTyped
  <2> QED
    BY <2>1 DEF Init
<1>2. CredentialsInv /\ [Next]_vars => CredentialsInv'
  <2> SUFFICES ASSUME CredentialsInv, [Next]_vars PROVE CredentialsInv'
    OBVIOUS
  <2>1. CASE EnvNext
    <3>1. ASSUME NEW names \in References, EnsureEntries(names) PROVE CredentialsInv'
      <4>1. /\ job' = EnsureMcpEnvFileEntries(names) /\ UNCHANGED <<envFile, legacyFile, globalFile, edits>>
            /\ pc' = "sync"
        BY <3>1 DEF EnsureEntries, BeginEnv, Begin
      <4>2. names \in SUBSET EnvNames
        BY EnvAssumption DEF EnvAssumption
      <4> QED
        BY <4>1, <4>2, EntriesFit, Zenon
    <3> QED
      BY <2>1, <3>1, MigrationStarts, QuestionsFit, AnswersFit, WriteTyped, FilesSettle, FaultsKeepTypes, Zenon
      DEF EnvNext
  <2>2. CASE (AgentNext \/ ToolkitNext) /\ UNCHANGED envVars
    <3>1. edits' \in Nat /\ pc' \notin {"credentials", "sync"}
      BY <2>2, OthersElsewhere, Zenon DEF CredentialsInv, CredentialsTyped
    <3> QED
      BY <2>2, <3>1, Zenon DEF CredentialsInv, CredentialsTyped, envVars
  <2>3. CASE UNCHANGED vars
    BY <2>3 DEF CredentialsInv, CredentialsTyped, JobFits, Lacks, Tells, vars, agentVars, envVars, control, bounds,
       history
  <2> QED
    BY <2>1, <2>2, <2>3, Zenon DEF Next, Rest
<1> QED
  BY <1>1, <1>2, PTL DEF Spec

-----------------------------------------------------------------------------
(* What a server is given.                                                 *)

\* A value a server is given is still given, or it was a legacy default.
Kept(n) == Given'[n] = Given[n] \/ IsLegacyDefault(n)

LEMMA GivenNow ==
  ASSUME NEW n \in EnvNames
  PROVE  /\ Given[n] = IF n \in DOMAIN ProcessEnv /\ ProcessEnv[n] # <<>> THEN ProcessEnv[n]
                       ELSE IF Tells(envFile, n) # <<>> THEN Tells(envFile, n) ELSE Tells(globalFile, n)
         /\ Given'[n] = IF n \in DOMAIN ProcessEnv /\ ProcessEnv[n] # <<>> THEN ProcessEnv[n]
                        ELSE IF Tells(envFile', n) # <<>> THEN Tells(envFile', n) ELSE Tells(globalFile', n)
<1>1. Given = GivenBy(envFile, globalFile) /\ Given' = GivenBy(envFile', globalFile')
  BY DEF Given, GivenBy
<1> QED
  BY <1>1, MergeTells, Zenon

\* The file a command writes, and the other one.
LEMMA WriteTells ==
  ASSUME CredentialsInv, WriteEnvFile, NEW n \in EnvNames
  PROVE  \E before, after :
           /\ \/ /\ job.scope = "project" /\ before = envFile /\ after = envFile' /\ globalFile' = globalFile
              \/ /\ job.scope = "global" /\ before = globalFile /\ after = globalFile' /\ envFile' = envFile
           /\ LinesKept(before, job.values, after, n)
<1>1. PICK before : before = IF job.scope = "global" THEN globalFile ELSE envFile
  OBVIOUS
<1>2. PICK after : after = Synced
  OBVIOUS
<1>3. before \in EnvFileOrNone /\ job.values \in Values /\ job.scope \in {"project", "global"}
  <2>1. job \in Jobs /\ envFile \in EnvFileOrNone /\ globalFile \in EnvFileOrNone
    BY Zenon DEF CredentialsInv, CredentialsTyped
  <2> QED
    BY <1>1, <2>1, JobFields
<1>4. after = SyncEnvFile(before, job.values, job.required)
  BY <1>1, <1>2, Zenon DEF Synced
<1>5. LinesKept(before, job.values, after, n)
  BY <1>3, <1>4, SyncWrites, Zenon
<1>6. \/ /\ job.scope = "project" /\ before = envFile /\ after = envFile' /\ globalFile' = globalFile
      \/ /\ job.scope = "global" /\ before = globalFile /\ after = globalFile' /\ envFile' = envFile
  BY <1>1, <1>2, <1>3 DEF WriteEnvFile
<1> QED
  BY <1>5, <1>6, Zenon

LEMMA MigrationKeeps ==
  ASSUME CredentialsInv, WriteEnvFile, job.migrating, ~touched, NEW n \in EnvNames
  PROVE  \/ Given'[n] = Given[n]
         \/ n \in DOMAIN job.values /\ (Plain(job.values[n]) => Given'[n] = job.values[n])
<1>1. pc = "sync" /\ job.scope = "project" /\ JobFits
  BY DEF WriteEnvFile, CredentialsInv
<1>2. envFile # NoFile /\ envFile[n] # NoLine => n \in DOMAIN job.values /\ job.values[n] = envFile[n]
  BY <1>1, Zenon DEF JobFits
<1>3. globalFile' = globalFile
      /\ (n \in DOMAIN job.values /\ Plain(job.values[n]) => Tells(envFile', n) = job.values[n])
      /\ (n \notin DOMAIN job.values =>
            Tells(envFile', n) = Tells(envFile, n) \/ Tells(envFile', n) = <<>>)
  BY <1>1, WriteTells, Zenon DEF LinesKept
<1>4. CASE n \notin DOMAIN job.values
  <2>1. Tells(envFile, n) = <<>>
    BY <1>2, <1>4, Zenon DEF Tells
  <2> QED
    BY <1>3, <1>4, <2>1, GivenNow, Zenon
<1>5. CASE n \in DOMAIN job.values /\ ~Plain(job.values[n])
  BY <1>5
<1>6. CASE n \in DOMAIN job.values /\ Plain(job.values[n])
  <2>1. CASE job.values[n] # <<>>
    BY <1>3, <1>6, <2>1, GivenNow, Zenon
  <2>2. CASE job.values[n] = <<>>
    <3>1. Tells(envFile, n) = <<>>
      BY <1>2, <2>2, EmptyStored, Zenon DEF Tells
    <3> QED
      BY <1>3, <1>6, <2>2, <3>1, GivenNow, Zenon
  <2> QED
    BY <2>1, <2>2
<1> QED
  BY <1>4, <1>5, <1>6

LEMMA WriteKeeps ==
  ASSUME CredentialsInv, WriteEnvFile, ~job.migrating, ~touched, NEW n \in EnvNames
  PROVE  /\ Given[n] # <<>> => Kept(n)
         /\ n \in DOMAIN job.values /\ Plain(job.values[n]) /\ Given[n] = <<>> => Given'[n] = job.values[n]
<1>1. n \in DOMAIN job.values => Lacks(n)
  BY DEF WriteEnvFile, CredentialsInv, JobFits
<1>2. PICK before, after :
        /\ \/ /\ job.scope = "project" /\ before = envFile /\ after = envFile' /\ globalFile' = globalFile
           \/ /\ job.scope = "global" /\ before = globalFile /\ after = globalFile' /\ envFile' = envFile
        /\ LinesKept(before, job.values, after, n)
  BY WriteTells, Zenon
<1>3. "project" # "global"
  OBVIOUS
<1>4. CASE n \in DOMAIN job.values
  <2>1. /\ n \in DOMAIN ProcessEnv => ProcessEnv[n] = <<>>
        /\ Tells(globalFile, n) = <<>>
        /\ job.scope = "project" => Tells(envFile, n) = <<>>
    BY <1>1, <1>4, Zenon DEF Lacks
  <2>2. CASE job.scope = "project"
    BY <1>2, <1>3, <1>4, <2>1, <2>2, GivenNow, Zenon DEF LinesKept
  <2>3. CASE job.scope = "global"
    BY <1>2, <1>3, <1>4, <2>1, <2>3, GivenNow, Zenon DEF LinesKept, Kept
  <2> QED
    BY <1>2, <2>2, <2>3
<1>5. CASE n \notin DOMAIN job.values
  BY <1>2, <1>5, GivenNow, Zenon DEF LinesKept, Kept, IsLegacyDefault
<1> QED
  BY <1>4, <1>5

\* A new file says nothing.
LEMMA BlankKeeps ==
  ASSUME NEW n \in EnvNames, envFile' = envFile \/ (envFile = NoFile /\ envFile' = BlankFile),
         globalFile' = globalFile \/ (globalFile = NoFile /\ globalFile' = BlankFile)
  PROVE  Given'[n] = Given[n]
<1>1. Tells(envFile', n) = Tells(envFile, n) /\ Tells(globalFile', n) = Tells(globalFile, n)
  BY BlankTells, NoFileTells, Zenon
<1> QED
  BY <1>1, GivenNow, Zenon

\* What a server is given for a name is not lost, nor replaced, by a command
\* that was not about it, and a plain answer is what the server is given
\* (sync.env.file.ts, configure.mcp.credentials.from.result.ts).
THEOREM CredentialsSurvive == Spec => ValuesSurvive
<1> DEFINE Changes ==
      <<envFile', globalFile'>> # <<envFile, globalFile>> /\ edits' = edits /\ outcome' # "killed" /\ ~touched
           Survive ==
      /\ \A n \in EnvNames : Given[n] # <<>> =>
           \/ Given'[n] = Given[n]
           \/ IsLegacyDefault(n)
           \/ /\ pc = "sync" /\ job.migrating /\ n \in DOMAIN job.values
              /\ Plain(job.values[n]) => Given'[n] = job.values[n]
      /\ pc = "sync" /\ ~job.migrating =>
           \A n \in DOMAIN job.values :
             Plain(job.values[n]) /\ Given[n] = <<>> => Given'[n] = job.values[n]
<1>1. CredentialsInv /\ [Next]_vars => [Changes => Survive]_envVars
  <2> SUFFICES ASSUME CredentialsInv, Next, Changes PROVE Survive
    BY DEF vars
  <2>1. DOMAIN job.values \subseteq EnvNames /\ edits \in Nat
    BY JobFields DEF CredentialsInv, CredentialsTyped
  <2>2. CASE WriteEnvFile
    <3>1. pc = "sync"
      BY <2>2 DEF WriteEnvFile
    <3>2. CASE job.migrating
      BY <2>2, <3>1, <3>2, MigrationKeeps, Zenon
    <3>3. CASE ~job.migrating
      BY <2>1, <2>2, <3>3, WriteKeeps, Zenon DEF Kept
    <3> QED
      BY <3>2, <3>3
  <2>3. CASE pc # "sync" /\ (envFile' = envFile \/ (envFile = NoFile /\ envFile' = BlankFile))
             /\ (globalFile' = globalFile \/ (globalFile = NoFile /\ globalFile' = BlankFile))
    BY <2>3, BlankKeeps, Zenon
  <2> HIDE DEF Changes, Survive
  <2>4. ASSUME EnsureMcpEnvFile \/ \E names \in References, scope \in {"project", "global"} :
                                   ConfigureMcpCredentials(names, scope)
        PROVE  Survive
    <3>1. CASE EnsureMcpEnvFile
      <4>1. pc # "sync" /\ globalFile' = globalFile /\ (envFile' = envFile \/ (envFile = NoFile /\ envFile' = BlankFile))
        BY <3>1 DEF EnsureMcpEnvFile
      <4> QED
        BY <2>3, <4>1, Zenon
    <3>2. ASSUME NEW names, NEW scope, ConfigureMcpCredentials(names, scope) PROVE Survive
      <4>1. pc = "idle" /\ envFile' = envFile
        BY <3>2, Zenon DEF ConfigureMcpCredentials, BeginEnv, Begin
      <4>2. globalFile' = globalFile \/ (globalFile = NoFile /\ globalFile' = BlankFile)
        BY <3>2, Zenon DEF ConfigureMcpCredentials
      <4> QED
        BY <2>3, <4>1, <4>2
    <3> QED
      BY <2>4, <3>1, <3>2
  <2>5. CASE envFile' = envFile /\ globalFile' = globalFile
    BY <2>5 DEF Changes
  <2>6. CASE KillEnv
    BY <2>6 DEF KillEnv, Changes
  <2>7. ASSUME NEW n, NEW line, EditEnv(n, line) PROVE FALSE
    BY <2>1, <2>7 DEF EditEnv, Changes
  <2>8. ASSUME EnsureInitialized \/ (\E names \in References : EnsureEntries(names))
               \/ (\E n \in EnvNames, value \in Answers : AnswerCredential(n, value))
               \/ CredentialsAnswered \/ RemoveLegacyFile
        PROVE  envFile' = envFile /\ globalFile' = globalFile
    BY <2>8 DEF EnsureInitialized, EnsureEntries, AnswerCredential, CredentialsAnswered, RemoveLegacyFile, envVars
  <2>9. CASE UNCHANGED envVars
    BY <2>5, <2>9 DEF envVars
  <2>10. CASE EnvNext
    BY <2>2, <2>4, <2>5, <2>6, <2>7, <2>8, <2>10 DEF EnvNext
  <2> QED
    BY <2>9, <2>10 DEF Next, Rest, vars
<1> QED
  BY <1>1, CredentialsInductive, PTL DEF Spec, ValuesSurvive

-----------------------------------------------------------------------------
(* The bounds of a behaviour, and the rest of the types.                   *)

Spent ==
  /\ commands \in 0..MaxCommands[menu] /\ edits \in Nat /\ kills \in Nat
  /\ edits + kills <= MaxFaults

\* A step begins a command, is a fault, or neither.
Charge(c, e, k) == commands' = commands + c /\ edits' = edits + e /\ kills' = kills + k
Charged ==
  /\ menu' = menu
  /\ \/ commands < MaxCommands[menu] /\ Charge(1, 0, 0)
     \/ edits + kills < MaxFaults /\ (Charge(0, 1, 0) \/ Charge(0, 0, 1))
     \/ UNCHANGED <<commands, edits, kills>>

LEMMA ChargedKeeps ==
  ASSUME Spent, Charged, menu \in Menus
  PROVE  Spent'
<1>1. MaxCommands[menu] \in Nat /\ MaxFaults \in Nat
  BY AgentAssumption DEF AgentAssumption
<1>2. MaxCommands[menu'] = MaxCommands[menu]
  BY DEF Charged
<1> QED
  BY <1>1, <1>2 DEF Spent, Charged, Charge

LEMMA AgentCharge ==
  ASSUME AgentNext, Spent
  PROVE  Charged
<1> USE DEF Charged, Charge, Spent
<1>0. ASSUME Begin("agents") PROVE Charged
  BY <1>0 DEF Begin
<1>1. CASE AgentCommand
  BY <1>0, <1>1, Zenon DEF AgentCommand, AddAgents, InitAgents, InitAgain, RemoveAgents, InstallSkill, RemoveSkill
<1>2. CASE ConfigureStep
  BY <1>2 DEF ConfigureStep, WriteProfile, InjectAgentConfig, ResolveClineRegistration, AnswerOffer,
     OfferClineGlobalRegistration, MigrateLegacyProxyLocations, MaterializeAgentSkills,
     WriteAgentInstructions, bounds
<1>3. CASE RemovalStep
  BY <1>3 DEF RemovalStep, DropAgent, RemoveEntry, RemoveBlock, RemoveProfile, AnswerRemoval,
     RemoveClineGlobalRegistration, bounds
<1>4. CASE Kill
  BY <1>4 DEF Kill
<1>5. ASSUME NEW f, EditConfig(f) \/ EditSettings(f) \/ EditNotes(f) PROVE Charged
  BY <1>5 DEF EditConfig, EditSettings, EditNotes, EditFile
<1> QED
  BY <1>1, <1>2, <1>3, <1>4, <1>5 DEF AgentNext

LEMMA KitCharge ==
  ASSUME ToolkitNext, Spent
  PROVE  Charged
<1> USE DEF Charged, Charge, Spent
<1>1. ASSUME BeginKit PROVE Charged
  BY <1>1 DEF BeginKit, Begin
<1>2. ASSUME NEW v, NEW g, InstallToolkit(v, g) PROVE Charged
  BY <1>1, <1>2, Zenon DEF InstallToolkit
<1>3. ASSUME RefuseToolkit \/ RemoveToolkit PROVE Charged
  BY <1>1, <1>3, Zenon DEF RefuseToolkit, RemoveToolkit
<1>4. ASSUME NEW mode, RestoreToolkits(mode) PROVE Charged
  BY <1>1, <1>4, Zenon DEF RestoreToolkits
<1>5. ASSUME UNCHANGED bounds PROVE Charged
  BY <1>5 DEF bounds
<1>6. ASSUME NEW accepted, Proceed(accepted) \/ AnswerDeletion(accepted) PROVE Charged
  BY <1>5, <1>6, Zenon DEF Proceed, AnswerDeletion
<1>7. ASSUME RunToolkitCommand \/ ToolkitCommandFails \/ ToolkitCommandsDone PROVE Charged
  BY <1>5, <1>7, Zenon DEF RunToolkitCommand, ToolkitCommandFails, ToolkitCommandsDone
<1>8. ASSUME RollbackNewToolkitPaths \/ RecordToolkit \/ Relock \/ RelockFails PROVE Charged
  BY <1>5, <1>8, Zenon DEF RollbackNewToolkitPaths, RecordToolkit, Relock, RelockFails
<1>9. ASSUME UninstallIntegration \/ DeleteToolkitPaths PROVE Charged
  BY <1>5, <1>9, Zenon DEF UninstallIntegration, DeleteToolkitPaths
<1>10. ASSUME KillToolkit PROVE Charged
  BY <1>10 DEF KillToolkit
<1>11. ASSUME NEW f, EditDisk(f) PROVE Charged
  BY <1>11 DEF EditDisk
<1> QED
  BY <1>2, <1>3, <1>4, <1>6, <1>7, <1>8, <1>9, <1>10, <1>11, Zenon DEF ToolkitNext

LEMMA EnvCharge ==
  ASSUME EnvNext, Spent
  PROVE  Charged
<1> USE DEF Charged, Charge, Spent
<1>1. ASSUME BeginEnv PROVE Charged
  BY <1>1 DEF BeginEnv, Begin
<1>2. ASSUME EnsureInitialized \/ (\E names : EnsureEntries(names)
             \/ \E scope : ConfigureMcpCredentials(names, scope)) PROVE Charged
  BY <1>1, <1>2, Zenon DEF EnsureInitialized, EnsureEntries, ConfigureMcpCredentials
<1>3. ASSUME UNCHANGED bounds PROVE Charged
  BY <1>3 DEF bounds
<1>4. ASSUME NEW n, NEW value, AnswerCredential(n, value) PROVE Charged
  BY <1>3, <1>4 DEF AnswerCredential, EnvStep
<1>5. ASSUME CredentialsAnswered \/ WriteEnvFile \/ RemoveLegacyFile \/ EnsureMcpEnvFile PROVE Charged
  BY <1>3, <1>5 DEF CredentialsAnswered, WriteEnvFile, RemoveLegacyFile, EnsureMcpEnvFile, EnvStep, EnvDone
<1>6. ASSUME KillEnv PROVE Charged
  BY <1>6 DEF KillEnv
<1>7. ASSUME NEW n, NEW line, EditEnv(n, line) PROVE Charged
  BY <1>7 DEF EditEnv
<1> QED
  BY <1>2, <1>4, <1>5, <1>6, <1>7, Zenon DEF EnvNext

-----------------------------------------------------------------------------
(* No agent is declared twice.                                             *)

LEMMA SavedOnce ==
  ASSUME NEW declared \in Seq(AgentNames), NEW T \in SUBSET AgentNames, NEW names \in Seq(T)
  PROVE  Once(SaveSelectedAgents(declared, names))
<1> DEFINE canonical(name) == IF FindAgent(name) = NoTarget THEN name ELSE FindAgent(name).id
           given == [i \in DOMAIN names |-> canonical(names[i])]
<1>1. ASSUME NEW name \in T PROVE canonical(name) \in AgentNames
  BY FindAgentType DEF AgentNames
<1> HIDE DEF canonical
<1>2. given \in Seq(AgentNames)
  <2>1. \A i \in 1..Len(names) : names[i] \in T /\ canonical(names[i]) \in AgentNames
    BY <1>1
  <2>2. given = [i \in 1..Len(names) |-> canonical(names[i])]
    BY DEF given
  <2>3. given \in [1..Len(names) -> AgentNames]
    BY <2>1, <2>2
  <2> QED
    BY <2>3
<1> HIDE DEF given
<1>3. declared \o given \in Seq(AgentNames)
  BY <1>2
<1>4. Once(Distinct(declared \o given))
  BY <1>3, DistinctOnce
<1> QED
  BY <1>4 DEF SaveSelectedAgents, given, canonical

LEMMA AgentsOnce ==
  ASSUME AgentNext, agents \in Seq(AgentNames), Once(agents)
  PROVE  Once(agents')
<1>1. ASSUME NEW names \in Requests, AddAgents(names) \/ InitAgents(names) PROVE Once(agents')
  <2>1. agents' \in {agents, SaveSelectedAgents(agents, names)}
    BY <1>1 DEF AddAgents, InitAgents
  <2>2. names \in Seq(STRING) /\ STRING \in SUBSET AgentNames
    BY AgentAssumption, Zenon DEF AgentNames, AgentAssumption
  <2>3. Once(SaveSelectedAgents(agents, names))
    BY <2>2, SavedOnce, Zenon
  <2> QED
    BY <2>1, <2>3
<1>2. ASSUME DropAgent PROVE Once(agents')
  <2>1. Once(RemoveSelectedAgents(agents, Target.id))
    BY KeepOnce, Zenon DEF RemoveSelectedAgents
  <2> QED
    BY <1>2, <2>1 DEF DropAgent
<1>3. ASSUME UNCHANGED agents PROVE Once(agents')
  BY <1>3
<1>4. ASSUME AgentCommand PROVE Once(agents')
  BY <1>1, <1>3, <1>4 DEF AgentCommand, RemoveAgents, InitAgain, InstallSkill, RemoveSkill, records
<1>5. ASSUME ConfigureStep PROVE agents' = agents
  BY <1>5 DEF ConfigureStep, WriteProfile, InjectAgentConfig, ResolveClineRegistration, AnswerOffer,
     OfferClineGlobalRegistration, MigrateLegacyProxyLocations, MaterializeAgentSkills,
     WriteAgentInstructions, records
<1>6. ASSUME RemovalStep PROVE DropAgent \/ agents' = agents
  BY <1>6 DEF RemovalStep, RemoveEntry, RemoveBlock, RemoveProfile, AnswerRemoval,
     RemoveClineGlobalRegistration, records
<1>7. ASSUME NEW f, Kill \/ EditConfig(f) \/ EditSettings(f) \/ EditNotes(f) PROVE agents' = agents
  BY <1>7 DEF Kill, EditConfig, EditSettings, EditNotes, EditFile, records
<1> QED
  BY <1>2, <1>3, <1>4, <1>5, <1>6, <1>7 DEF AgentNext

LEMMA OthersDeclareNone ==
  ASSUME ToolkitNext \/ EnvNext
  PROVE  agents' = agents
<1>1. ASSUME BeginKit \/ UNCHANGED records \/ BeginEnv PROVE agents' = agents
  BY <1>1 DEF BeginKit, BeginEnv, records
<1>2. ASSUME NEW v, NEW g, InstallToolkit(v, g) PROVE agents' = agents
  BY <1>1, <1>2, Zenon DEF InstallToolkit
<1>3. ASSUME NEW mode, RefuseToolkit \/ RemoveToolkit \/ RestoreToolkits(mode) PROVE agents' = agents
  BY <1>1, <1>3, Zenon DEF RefuseToolkit, RemoveToolkit, RestoreToolkits
<1>4. ASSUME NEW accepted, Proceed(accepted) \/ AnswerDeletion(accepted) PROVE agents' = agents
  BY <1>4 DEF Proceed, AnswerDeletion, records
<1>5. ASSUME RunToolkitCommand \/ ToolkitCommandFails \/ ToolkitCommandsDone \/ RollbackNewToolkitPaths
             \/ RecordToolkit \/ Relock \/ RelockFails PROVE agents' = agents
  BY <1>5 DEF RunToolkitCommand, ToolkitCommandFails, ToolkitCommandsDone, RollbackNewToolkitPaths,
     RecordToolkit, Relock, RelockFails, records
<1>6. ASSUME NEW f, UninstallIntegration \/ DeleteToolkitPaths \/ KillToolkit \/ EditDisk(f)
      PROVE  agents' = agents
  BY <1>6 DEF UninstallIntegration, DeleteToolkitPaths, KillToolkit, EditDisk, records
<1>7. ASSUME ToolkitNext PROVE agents' = agents
  BY <1>2, <1>3, <1>4, <1>5, <1>6, <1>7, Zenon DEF ToolkitNext
<1>8. ASSUME NEW names, NEW scope, EnsureInitialized \/ EnsureEntries(names) \/ ConfigureMcpCredentials(names, scope)
      PROVE  agents' = agents
  BY <1>1, <1>8, Zenon DEF EnsureInitialized, EnsureEntries, ConfigureMcpCredentials
<1>9. ASSUME NEW n, NEW x, AnswerCredential(n, x) \/ EditEnv(n, x) PROVE agents' = agents
  BY <1>9 DEF AnswerCredential, EditEnv, EnvStep, records
<1>10. ASSUME CredentialsAnswered \/ WriteEnvFile \/ RemoveLegacyFile \/ EnsureMcpEnvFile \/ KillEnv
       PROVE  agents' = agents
  BY <1>10 DEF CredentialsAnswered, WriteEnvFile, RemoveLegacyFile, EnsureMcpEnvFile, KillEnv, EnvStep,
     EnvDone, records
<1> QED
  BY <1>7, <1>8, <1>9, <1>10, Zenon DEF EnvNext

-----------------------------------------------------------------------------
(* The toolkit's own program, and what was there before it ran.            *)

Grounded(paths) == \A p \in paths : \E f \in Paths : IsPrefix(p, f)
Tooled == globalTool \in Versions \cup {Gone} /\ Grounded(kit.before)

LEMMA SnapshotGrounded ==
  ASSUME NEW files1, NEW patterns
  PROVE  Grounded(SnapshotToolkitPaths(files1, patterns))
  BY DEF Grounded, SnapshotToolkitPaths, Exists

LEMMA NoneGrounded == Grounded(NoKit.before) /\ Grounded({})
  BY DEF Grounded, NoKit

LEMMA InstallGrounded ==
  ASSUME NEW v, NEW g, InstallToolkit(v, g)
  PROVE  kit'.before = {}
<1> DEFINE goal == Dependency(v, ResolveEffectiveScope(g))
           state == DetectToolkitState(goal, disk, globalTool)
           keys == ResolveToolkitIntegrations(agents)
           patterns == CollectToolkitPathPatterns(keys)
           queue == BuildToolkitInstallCommands(goal, keys, state, globalTool)
           switching == state = "mismatch"
           plan == [NoKit EXCEPT !.mode = "install", !.goal = goal, !.entry = locked,
                      !.patterns = patterns, !.switching = switching, !.queue = queue]
<1>1. kit' = IF state = "installed" THEN [plan EXCEPT !.queue = <<>>] ELSE plan
  BY Zenon DEF InstallToolkit, goal, state, keys, patterns, queue, plan
<1> HIDE DEF goal, state, keys, patterns, queue, switching
<1>2. plan.before = {} /\ [plan EXCEPT !.queue = <<>>].before = {}
  BY DEF NoKit
<1> HIDE DEF plan
<1> QED
  BY <1>1, <1>2

LEMMA RestoreGrounded ==
  ASSUME NEW mode, RestoreToolkits(mode)
  PROVE  Grounded(kit'.before)
<1> DEFINE built == BuildToolkitLockEntries(toolkit, agents)
           lock == IF mode = "install" THEN built ELSE locked
           state == DetectToolkitState(lock, disk, globalTool)
           queue == IF state = "installed" THEN <<>>
                    ELSE BuildToolkitInstallCommands(lock, lock.integrations, state, globalTool)
           before == SnapshotToolkitPaths(disk, lock.paths)
           plan == [NoKit EXCEPT !.mode = "restore", !.patterns = lock.paths,
                      !.before = before, !.queue = queue]
<1>1. kit' = NoKit \/ kit' = plan
  BY Zenon DEF RestoreToolkits, built, lock, state, queue, before, plan
<1>2. Grounded(before)
  BY SnapshotGrounded
<1> HIDE DEF lock, state, queue, before
<1>3. plan.before = before
  BY DEF NoKit
<1> QED
  BY <1>1, <1>2, <1>3, NoneGrounded

LEMMA KitTooled ==
  ASSUME ToolkitNext, Plan, Tooled
  PROVE  Tooled'
<1>1. ASSUME NEW paths, kit'.before = paths, Grounded(paths), globalTool' = globalTool PROVE Tooled'
  BY <1>1 DEF Tooled, Grounded
<1>2. ASSUME kit'.before = kit.before, globalTool' = globalTool PROVE Tooled'
  BY <1>1, <1>2 DEF Tooled
<1>3. ASSUME kit' = NoKit, globalTool' = globalTool PROVE Tooled'
  BY <1>1, <1>3, NoneGrounded
<1>4. ASSUME NEW v, NEW g, InstallToolkit(v, g) PROVE Tooled'
  BY <1>1, <1>4, InstallGrounded, NoneGrounded DEF InstallToolkit, BeginKit
<1>5. ASSUME RefuseToolkit PROVE Tooled'
  <2>1. kit'.before = NoKit.before
    BY <1>5 DEF RefuseToolkit, NoKit
  <2> QED
    BY <1>1, <1>5, <2>1, NoneGrounded DEF RefuseToolkit, BeginKit
<1>6. ASSUME RemoveToolkit PROVE Tooled'
  <2>1. kit'.before = NoKit.before
    BY <1>6 DEF RemoveToolkit, NoKit
  <2> QED
    BY <1>1, <1>6, <2>1, NoneGrounded DEF RemoveToolkit, BeginKit
<1>7. ASSUME NEW mode, RestoreToolkits(mode) PROVE Tooled'
  <2>1. globalTool' = globalTool
    BY <1>7, Zenon DEF RestoreToolkits, BeginKit
  <2>2. Grounded(kit'.before)
    BY <1>7, RestoreGrounded
  <2> QED
    BY <1>1, <2>1, <2>2
<1>8. ASSUME NEW accepted, Proceed(accepted) PROVE Tooled'
  <2>1. kit'.before = SnapshotToolkitPaths(disk, kit.patterns)
    BY <1>8 DEF Proceed, Plan, KitTyped, Kits
  <2> QED
    BY <1>1, <1>8, <2>1, SnapshotGrounded DEF Proceed
<1>9. ASSUME NEW accepted, AnswerDeletion(accepted) PROVE Tooled'
  <2>1. kit'.before = kit.before
    BY <1>9 DEF AnswerDeletion, Plan, KitTyped, Kits
  <2> QED
    BY <1>2, <1>9, <2>1 DEF AnswerDeletion
<1>10. ASSUME RunToolkitCommand PROVE Tooled'
  <2>1. kit'.before = kit.before
    BY <1>10 DEF RunToolkitCommand, Plan, KitTyped, Kits
  <2>2. globalTool' \in {Expected.version, globalTool}
    BY <1>10 DEF RunToolkitCommand
  <2>3. Expected.version \in Versions
    BY <1>10, ExpectedType DEF RunToolkitCommand
  <2> QED
    BY <2>1, <2>2, <2>3 DEF Tooled, Grounded
<1>11. ASSUME ToolkitCommandFails \/ ToolkitCommandsDone \/ RollbackNewToolkitPaths \/ RelockFails
              \/ DeleteToolkitPaths \/ Relock PROVE Tooled'
  BY <1>2, <1>11 DEF ToolkitCommandFails, ToolkitCommandsDone, RollbackNewToolkitPaths, RelockFails,
     DeleteToolkitPaths, Relock, kitVars
<1>12. ASSUME RecordToolkit PROVE Tooled'
  <2>1. kit'.before = kit.before
    BY <1>12 DEF RecordToolkit, Plan, KitTyped, Kits
  <2> QED
    BY <1>2, <1>12, <2>1 DEF RecordToolkit
<1>13. ASSUME UninstallIntegration PROVE Tooled'
  <2>1. kit' = kit \/ \E b : kit' = [kit EXCEPT !.queue = Tail(@), !.blocked = @ \cup b]
    BY <1>13, Zenon DEF UninstallIntegration
  <2>2. kit'.before = kit.before
    BY <2>1 DEF Plan, KitTyped, Kits
  <2> QED
    BY <1>2, <1>13, <2>2 DEF UninstallIntegration
<1>14. ASSUME KillToolkit PROVE Tooled'
  BY <1>3, <1>14 DEF KillToolkit
<1>15. ASSUME NEW f, EditDisk(f) PROVE Tooled'
  BY <1>2, <1>15 DEF EditDisk
<1> QED
  BY <1>4, <1>5, <1>6, <1>7, <1>8, <1>9, <1>10, <1>11, <1>12, <1>13, <1>14, <1>15, Zenon DEF ToolkitNext

-----------------------------------------------------------------------------
(* Every variable.                                                         *)

LimitsInv == Spent /\ Once(agents) /\ Tooled

LEMMA LimitsInit ==
  ASSUME Init
  PROVE  LimitsInv
<1>1. PICK scene \in Scenes : AgentInit(scene) /\ ToolkitInit(scene)
  BY DEF Init
<1>2. Spent
  <2>1. menu \in Menus /\ commands = 0 /\ edits = 0 /\ kills = 0
    BY <1>1, SceneAssumption DEF AgentInit, SceneAssumption
  <2>2. MaxCommands[menu] \in Nat /\ MaxFaults \in Nat
    BY <2>1, AgentAssumption DEF AgentAssumption
  <2> QED
    BY <2>1, <2>2 DEF Spent
<1>3. Once(agents)
  <2>1. agents \in Seq(STRING) /\ Distinct(agents) = agents
    BY <1>1, SceneAssumption, Zenon DEF AgentInit, SceneAssumption
  <2>2. Once(Distinct(agents))
    BY <2>1, DistinctOnce, Zenon
  <2> QED
    BY <2>1, <2>2, Zenon
<1>4. Tooled
  BY <1>1, NoneGrounded DEF ToolkitInit, Tooled
<1> QED
  BY <1>2, <1>3, <1>4 DEF LimitsInv

LEMMA LimitsNext ==
  ASSUME LimitsInv, Plan, [Next]_vars
  PROVE  LimitsInv'
<1>1. menu \in Menus /\ agents \in Seq(AgentNames)
  BY DEF Plan, KitTyped
<1>2. CASE UNCHANGED vars
  BY <1>2 DEF vars, agentVars, kitVars, records, bounds, LimitsInv, Spent, Tooled, Grounded, Once
<1>3. CASE AgentNext /\ UNCHANGED <<kitVars, envVars>>
  <2>1. Spent'
    BY <1>1, <1>3, AgentCharge, ChargedKeeps DEF LimitsInv
  <2>2. Once(agents')
    BY <1>1, <1>3, AgentsOnce DEF LimitsInv
  <2>3. Tooled'
    BY <1>3 DEF kitVars, LimitsInv, Tooled, Grounded
  <2> QED
    BY <2>1, <2>2, <2>3 DEF LimitsInv, Once
<1>4. CASE ToolkitNext
  <2>1. Spent'
    BY <1>1, <1>4, KitCharge, ChargedKeeps DEF LimitsInv
  <2>2. Once(agents')
    BY <1>4, OthersDeclareNone DEF LimitsInv
  <2>3. Tooled'
    BY <1>4, KitTooled DEF LimitsInv
  <2> QED
    BY <2>1, <2>2, <2>3 DEF LimitsInv, Once
<1>5. CASE EnvNext /\ UNCHANGED kitVars
  <2>1. Spent'
    BY <1>1, <1>5, EnvCharge, ChargedKeeps DEF LimitsInv
  <2>2. Once(agents')
    BY <1>5, OthersDeclareNone DEF LimitsInv
  <2>3. Tooled'
    BY <1>5 DEF kitVars, LimitsInv, Tooled, Grounded
  <2> QED
    BY <2>1, <2>2, <2>3 DEF LimitsInv, Once
<1> QED
  BY <1>2, <1>3, <1>4, <1>5 DEF Next, Rest

LEMMA TokenTyped ==
  ASSUME NEW token \in Tokens
  PROVE  token.kind \in {"user", "start", "end", "body"}
  BY TokenKinds DEF Tokens

LEMMA EnvTyped ==
  ASSUME CredentialsTyped
  PROVE  EnvTypeOK
<1>1. ASSUME NEW file \in EnvFileOrNone, file # NoFile
      PROVE  /\ DOMAIN file = EnvNames
             /\ \A n \in EnvNames : file[n] # NoLine => DOMAIN file[n] = 1..Len(file[n])
  <2>1. file \in [EnvNames -> Texts \cup {NoLine}]
    BY <1>1, Zenon DEF EnvFileOrNone, EnvTexts
  <2>2. DOMAIN file = EnvNames /\ \A n \in EnvNames : file[n] \in Texts \cup {NoLine}
    BY <2>1, Zenon
  <2>3. ASSUME NEW text \in Texts PROVE DOMAIN text = 1..Len(text)
    BY <2>3 DEF Texts
  <2> QED
    BY <2>2, <2>3, Zenon
<1>2. {envFile, legacyFile, globalFile} \subseteq EnvFileOrNone
  BY Zenon DEF CredentialsTyped
<1> QED
  BY <1>1, <1>2, Zenon DEF CredentialsTyped, EnvTypeOK

\* Every variable of the workspace has its type: no agent is declared twice, the
\* step and the locals of a command fit, the files are what the code can read or
\* a kill leaves, and no behaviour exceeds its bounds.
THEOREM TypesHold == Spec => []TypeOK
<1>1. Init => LimitsInv
  BY LimitsInit
<1>2. WholeInv /\ LimitsInv /\ [Next]_vars => LimitsInv'
  BY LimitsNext DEF WholeInv, Typed
<1>3. WholeInv /\ LimitsInv /\ CredentialsInv => TypeOK
  <2> SUFFICES ASSUME WholeInv, LimitsInv, CredentialsInv PROVE TypeOK
    OBVIOUS
  <2>1. AgentTypeOK
    <3>1. menu \in Menus /\ agents \in Seq(AgentNames)
      BY DEF WholeInv, Typed, Plan, KitTyped
    <3>2. Distinct(agents) = agents
      BY <3>1, DistinctSame, Zenon DEF LimitsInv
    <3>3. /\ config \in [ConfigFiles -> ConfigFile \cup {NoFile}]
          /\ settings \in [1..Candidates -> Settings]
          /\ notes \in [NoteFiles -> Seq(Tokens)]
          /\ profile \in [Agents -> SUBSET (Skills \cup NoProfile \cup TornProfile)]
          /\ copies \in [Agents -> SUBSET Skills]
          /\ materialized \subseteq Skills
          /\ torn \subseteq ConfigFiles \cup NoteFiles
      BY Zenon DEF WholeInv, Typed, Filed
    <3>4. \A f \in DOMAIN notes : \A token \in ToSet(notes[f]) : token.kind \in {"user", "start", "end", "body"}
      <4>1. ASSUME NEW f \in DOMAIN notes, NEW token \in ToSet(notes[f]) PROVE token \in Tokens
        <5>1. notes[f] \in Seq(Tokens)
          BY <3>3, Zenon
        <5> QED
          BY <4>1, <5>1 DEF ToSet
      <4> QED
        BY <4>1, TokenTyped, Zenon
    <3>5. DOMAIN config = ConfigFiles /\ DOMAIN notes = NoteFiles
      BY <3>3, Zenon
    <3>6. /\ task \in Tasks /\ outcome \in {"none", "ok", "failed", "killed"}
          /\ unsettled \subseteq Agents /\ installed \subseteq Skills
      BY DEF WholeInv, Typed, Working
    <3>7. /\ task.todo \in Seq(Registry) /\ task.left \in Seq(1..Candidates)
          /\ task.status \in {NoStatus, "registered", "pending"}
      BY <3>6 DEF Tasks, Statuses
    <3>8. commands \in 0..MaxCommands[menu] /\ edits \in Nat /\ kills \in Nat /\ edits + kills <= MaxFaults
      BY DEF LimitsInv, Spent
    <3> QED
      BY <3>1, <3>2, <3>3, <3>4, <3>5, <3>6, <3>7, <3>8, Zenon DEF AgentTypeOK
  <2>2. ToolkitTypeOK
    <3>1. /\ kit \in Kits /\ disk \in [Paths -> Contents]
          /\ toolkit \in Dependencies \cup {NoToolkit}
      BY DEF WholeInv, Typed, Plan, KitTyped
    <3>2. toolkit # NoToolkit => toolkit.version \in Versions /\ toolkit.scope \in Scopes
      BY <3>1, DependencyFields
    <3>3. kit.mode \in {"none", "install", "remove", "restore"}
      BY <3>1 DEF Kits
    <3> QED
      BY <3>1, <3>2, <3>3, Zenon DEF ToolkitTypeOK, LimitsInv, Tooled, Grounded
  <2>3. EnvTypeOK
    BY EnvTyped DEF CredentialsInv
  <2> QED
    BY <2>1, <2>2, <2>3 DEF TypeOK
<1> QED
  BY <1>1, <1>2, <1>3, FilesInductive, CredentialsInductive, PTL DEF Spec
=============================================================================
