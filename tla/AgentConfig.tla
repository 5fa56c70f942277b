---------------------------- MODULE AgentConfig ----------------------------
(***************************************************************************)
(* Configuring agents: the commands that select or drop an agent, the ones *)
(* that install or remove a package and refresh the agents afterwards, and *)
(* the loop that configures one agent after the other. For each it writes  *)
(* a capability profile, the agent's own configuration, copies of skills   *)
(* and a marked block in its instructions, with no rollback: a step that   *)
(* fails ends the loop, and the next command has to converge.              *)
(*                                                                         *)
(* Except for the manifest, the lock and Cline's settings a file is        *)
(* written in place: a kill may tear the one being written. The user edits *)
(* files between commands and while a question waits for its answer.       *)
(*                                                                         *)
(* Every registered agent keeps its configuration inside the project, so   *)
(* the branch of configureAgents for one that does not is left out. An     *)
(* installed package is a skill; what a block says of tools and of servers *)
(* is decided alike.                                                       *)
(***************************************************************************)
EXTENDS Integers, FiniteSets, AgentFiles, Access

CONSTANTS
  Requests,       \* the names a command may be given, sequences of them
  Skills,         \* the skills that may be installed
  AllowedLlms,    \* whom each is authorized for
  DefaultPolicy,  \* llmAccess.default of the manifest
  Candidates,     \* how many places Cline's settings may be in
  MaxCommands,    \* bound: commands run in a behaviour, by what it is about
  MaxFaults       \* bound: changes made by hand and commands killed, together

\* What the commands of a behaviour are about.
Menus == {"agents", "toolkits", "env"}

ASSUME AgentAssumption ==
  /\ Requests \subseteq Seq(STRING)
  /\ DefaultPolicy \in {AllowByDefault, DenyByDefault}
  /\ Candidates \in Nat
  /\ MaxCommands \in [Menus -> Nat]
  /\ MaxFaults \in Nat

Agents == {t.id : t \in Registry}
ConfigFiles == {t.config : t \in Registry} \cup {t.legacy.path : t \in Registry}
NoteFiles == {t.notes : t \in Registry}
NoProfile == {"none"}
TornProfile == {"torn"}

VARIABLES
  agents,      \* manifest.agents: the ids, in the order they were declared
  installed,   \* the skills in the lock
  materialized,\* the skills whose files are in .maia
  locked,      \* the toolkit in the lock
  config,      \* the agents' configuration files, and the legacy ones
  settings,    \* Cline's settings, by candidate
  notes,       \* the instruction files
  profile,     \* .maia/agents/<id>/capabilities.json: the packages it lists
  copies,      \* the agents' native copies of skills
  pc, task,    \* the step of the command under way, and its locals
  outcome,     \* how the last command ended
  menu,        \* the kind of commands this behaviour is about
  commands, edits, kills,
  torn,        \* history: the files a kill has torn
  unsettled,   \* history: agents that a failed or killed command left behind
  start,       \* history: what a removal found, until it ends
  touched      \* history: the user changed a file during the command

records == <<agents, installed, materialized, locked>>
files == <<config, settings, notes, profile, copies>>
control == <<pc, task, outcome, unsettled>>
bounds == <<commands, edits, kills, menu>>
history == <<torn, start, touched>>
agentVars == <<records, files, control, bounds, history>>

NoToolkit == [version |-> -1]    \* none is declared, or locked
NoStatus == "none"
NoTask == [todo |-> <<>>, offering |-> FALSE, status |-> NoStatus, left |-> <<>>,
           undo |-> {}]
NoStart == <<>>
Target == Head(task.todo)

Authorized(id) ==
  {s \in installed : MayUse(id, "skill", s, AllowedLlms[s], DefaultPolicy)}

\* Every way a step may end. A failed command declares again what it was to
\* remove, and the agents it had not come to are left as they were.
Abort ==
  /\ pc' = "idle"
  /\ task' = NoTask
  /\ outcome' = "failed"
  /\ installed' = installed \cup task.undo
  /\ unsettled' = unsettled \cup (IF task.undo = {} THEN {t.id : t \in ToSet(task.todo)}
                                  ELSE Agents)

Finish ==
  /\ pc' = "idle"
  /\ task' = NoTask
  /\ outcome' = "ok"
  /\ UNCHANGED unsettled

Step(next) == pc' = next /\ UNCHANGED <<task, outcome, installed, unsettled>>

Begin(kind) ==
  /\ pc = "idle"
  /\ menu = kind
  /\ commands < MaxCommands[menu]
  /\ commands' = commands + 1
  /\ touched' = FALSE
  /\ UNCHANGED <<edits, kills, menu, torn>>

\* configureAgents, which throws before it changes anything.
Configure(names, offering, undo) ==
  IF Resolvable(names)
  THEN /\ pc' = "profile"
       /\ task' = [NoTask EXCEPT !.todo = ResolveTargets(names), !.offering = offering, !.undo = undo]
       /\ outcome' = "none"
       /\ UNCHANGED unsettled
  ELSE /\ pc' = "idle"
       /\ task' = NoTask
       /\ outcome' = "failed"
       /\ unsettled' = Agents

\* Mutant: only the first agent is configured again.
RestoreFirstAgent(offering, undo) ==
  IF agents = <<>> THEN Finish ELSE Configure(SubSeq(agents, 1, 1), offering, undo)

RestoreConfiguredAgents(offering, undo) ==
  IF agents = <<>> THEN Finish ELSE Configure(agents, offering, undo)

\* agent add: the names are saved before they are looked up.
AddAgents(names) ==
  /\ Begin("agents")
  /\ agents' = SaveSelectedAgents(agents, names)
  /\ Configure(names, TRUE, {})
  /\ start' = NoStart
  /\ UNCHANGED <<installed, materialized, locked, files>>

\* init with names looks them up first.
InitAgents(names) ==
  /\ Begin("agents")
  /\ start' = NoStart
  /\ Configure(names, TRUE, {})
  /\ agents' = IF Resolvable(names) THEN SaveSelectedAgents(agents, names) ELSE agents
  /\ UNCHANGED <<installed, materialized, locked, files>>

\* init without names, on a project that has agents.
InitAgain ==
  /\ Begin("agents")
  /\ start' = NoStart
  /\ agents # <<>>
  /\ RestoreConfiguredAgents(TRUE, {})
  /\ UNCHANGED <<records, files>>

InstallSkill(s) ==
  /\ Begin("agents")
  /\ start' = NoStart
  /\ installed' = installed \cup {s}
  /\ materialized' = materialized \cup {s}
  /\ RestoreConfiguredAgents(FALSE, {})
  /\ UNCHANGED <<agents, locked, files>>

\* The last step of a removal: the skill is no longer in the manifest, nor in
\* the lock; a failure from here on declares it again.
RemoveNativeAgentSkillCopies(s) ==
  copies' = [id \in Agents |->
               IF Contains(agents, id) /\ FindAgent(id).skillsDir
               THEN copies[id] \ {s} ELSE copies[id]]

RemoveSkill(s) ==
  /\ Begin("agents")
  /\ start' = NoStart
  /\ s \in installed
  /\ materialized' = materialized \ {s}
  /\ RestoreConfiguredAgents(FALSE, {s})
  /\ IF agents = <<>> \/ Resolvable(agents)
     THEN /\ installed' = installed \ {s}
          /\ RemoveNativeAgentSkillCopies(s)
     ELSE UNCHANGED <<installed, copies>>
  /\ UNCHANGED <<agents, locked, config, settings, notes, profile>>

WriteProfile ==
  /\ pc = "profile"
  /\ profile' = [profile EXCEPT ![Target.id] = Authorized(Target.id)]
  /\ Step(IF Target.global THEN "resolve" ELSE "inject")
  /\ UNCHANGED <<agents, materialized, locked, config, settings, notes, copies, bounds, history>>

\* Mutant: a file that is not JSON counts as an empty one.
OverwriteUnreadable ==
  /\ pc = "inject"
  /\ config' = [config EXCEPT ![Target.config] =
                  Inject(Target, IF @.state = "broken" THEN [Empty EXCEPT !.foreign = FALSE] ELSE @)]
  /\ pc' = "migrate"
  /\ task' = [task EXCEPT !.status = "registered"]
  /\ UNCHANGED <<records, outcome, unsettled, settings, notes, profile, copies, bounds, history>>

InjectAgentConfig ==
  /\ pc = "inject"
  /\ IF ValidateAgentMcpEntryRemoval(Target, config[Target.config])
     THEN /\ config' = [config EXCEPT ![Target.config] = Inject(Target, @)]
          /\ pc' = "migrate"
          /\ task' = [task EXCEPT !.status = "registered"]
          /\ UNCHANGED <<outcome, installed, unsettled>>
     ELSE Abort /\ UNCHANGED config
  /\ UNCHANGED <<agents, materialized, locked, settings, notes, profile, copies, bounds, history>>

\* The places that exist, up to and including the first that registers the
\* project or cannot be read: the rest is not looked at.
Existing == Keep([i \in 1..Candidates |-> i], {i \in 1..Candidates : settings[i] # NoFile})
Invalid(i) == settings[i].state = "broken"
FirstTelling ==
  SelectInSeq(Existing, LAMBDA i : Invalid(i) \/ InspectClineGlobalEntry(settings[i]).current)
ClineRegistered == FirstTelling # 0 /\ ~Invalid(Existing[FirstTelling])
ClineInvalid == FirstTelling # 0 /\ Invalid(Existing[FirstTelling])

ResolveClineRegistration ==
  /\ pc = "resolve"
  /\ LET ask == task.offering /\ Existing # <<>> /\ FirstTelling = 0
     IN /\ pc' = IF ask THEN "confirm" ELSE "migrate"
        /\ task' = [task EXCEPT !.left = IF ask THEN Existing ELSE <<>>,
                                !.status = IF ClineRegistered THEN "registered" ELSE "pending"]
  /\ UNCHANGED <<records, files, outcome, unsettled, bounds, history>>

\* The user accepts, or declines; without a terminal the answer is no.
AnswerOffer(accepted) ==
  /\ pc = "confirm"
  /\ pc' = IF accepted THEN "offer" ELSE "migrate"
  /\ UNCHANGED <<records, files, task, outcome, unsettled, bounds, history>>

\* The places found before the question; each is read again.
OfferClineGlobalRegistration ==
  /\ pc = "offer"
  /\ IF task.left = <<>>
     THEN pc' = "migrate" /\ UNCHANGED <<task, settings>>
     ELSE LET i == Head(task.left) IN
          IF settings[i] = NoFile
          THEN task' = [task EXCEPT !.left = Tail(@)] /\ UNCHANGED <<pc, settings>>
          ELSE IF Invalid(i)
          THEN /\ task' = [task EXCEPT !.left = <<>>, !.status = "pending"]
               /\ pc' = "migrate"
               /\ UNCHANGED settings
          ELSE /\ settings' = [settings EXCEPT ![i] = RemoveStaleEntries(UpsertClineGlobalEntry(@))]
               /\ task' = [task EXCEPT !.left = Tail(@), !.status = "registered"]
               /\ UNCHANGED pc
  /\ UNCHANGED <<records, config, notes, profile, copies, outcome, unsettled, bounds, history>>

\* Mutant: the migration deletes the entry from the section the agent uses now.
MigrateOwnSection ==
  /\ pc = "migrate"
  /\ IF Target.legacy = NoPlace \/ config[Target.legacy.path] = NoFile
     THEN UNCHANGED config
     ELSE config' = [config EXCEPT ![Target.legacy.path] = RemoveProxyEntry(@, Target.format)]
  /\ Step("skills")
  /\ UNCHANGED <<agents, materialized, locked, settings, notes, profile, copies, bounds, history>>

\* Each agent has at most one legacy location.
MigrateLegacyProxyLocations ==
  /\ pc = "migrate"
  /\ IF Target.legacy = NoPlace \/ config[Target.legacy.path] = NoFile
     THEN Step("skills") /\ UNCHANGED config
     ELSE IF ReadJson(config[Target.legacy.path])
     THEN /\ config' = [config EXCEPT ![Target.legacy.path] =
                          RemoveProxyEntry(@, Target.legacy.format)]
          /\ Step("skills")
     ELSE Abort /\ UNCHANGED config
  /\ UNCHANGED <<agents, materialized, locked, settings, notes, profile, copies, bounds, history>>

\* Write-only: a copy that is no longer authorized stays.
MaterializeAgentSkills ==
  /\ pc = "skills"
  /\ copies' = [copies EXCEPT ![Target.id] =
                  @ \cup (IF Target.skillsDir THEN Authorized(Target.id) \cap materialized ELSE {})]
  /\ Step("notes")
  /\ UNCHANGED <<agents, materialized, locked, config, settings, notes, profile, bounds, history>>

RenderAgentCapabilityBlock ==
  << Start,
     [kind |-> "body", agent |-> Target.id, status |-> task.status,
      skills |-> Authorized(Target.id), toolkit |-> locked],
     End >>

WriteAgentInstructions ==
  /\ pc = "notes"
  /\ notes' = [notes EXCEPT ![Target.notes] = UpsertMarkedBlock(@, RenderAgentCapabilityBlock)]
  /\ unsettled' = unsettled \ {Target.id}
  /\ IF Len(task.todo) = 1
     THEN pc' = "idle" /\ task' = NoTask /\ outcome' = "ok"
     ELSE /\ pc' = "profile"
          /\ task' = [task EXCEPT !.todo = Tail(@), !.status = NoStatus]
          /\ UNCHANGED outcome
  /\ UNCHANGED <<records, config, settings, profile, copies, bounds, history>>

Snapshot == <<agents, config, settings, notes, profile>>

StartRemoval(selected) ==
  /\ pc' = "drop"
  /\ task' = [NoTask EXCEPT !.todo = selected]
  /\ outcome' = "none"
  /\ start' = Snapshot
  /\ UNCHANGED unsettled
Selected(names) == Keep(ResolveTargets(names), {t \in Registry : Contains(agents, t.id)})

RefuseRemoval ==
  /\ outcome' = "failed"
  /\ start' = NoStart
  /\ UNCHANGED <<pc, task, unsettled>>

\* Mutant: the configurations are not read before the first change.
RemoveUnchecked(names) ==
  /\ Begin("agents")
  /\ IF ~Resolvable(names) THEN RefuseRemoval
     ELSE IF Selected(names) = <<>> THEN Finish /\ start' = NoStart
     ELSE StartRemoval(Selected(names))
  /\ UNCHANGED <<records, files>>

\* Every configuration is checked before the first agent is dropped.
RemoveAgents(names) ==
  /\ Begin("agents")
  /\ IF ~Resolvable(names) THEN RefuseRemoval
     ELSE IF Selected(names) = <<>> THEN Finish /\ start' = NoStart
     ELSE IF \A t \in ToSet(Selected(names)) : ValidateAgentMcpEntryRemoval(t, config[t.config])
     THEN StartRemoval(Selected(names))
     ELSE RefuseRemoval
  /\ UNCHANGED <<records, files>>

DropAgent ==
  /\ pc = "drop"
  /\ agents' = RemoveSelectedAgents(agents, Target.id)
  /\ pc' = "entry"
  /\ UNCHANGED <<task, outcome, unsettled, installed, materialized, locked, files, bounds, history>>

RemoveEntry ==
  /\ pc = "entry"
  /\ IF ValidateAgentMcpEntryRemoval(Target, config[Target.config])
     THEN /\ config' = [config EXCEPT ![Target.config] = RemoveAgentMcpEntry(Target, @)]
          /\ Step("block")
     ELSE Abort /\ UNCHANGED config
  /\ UNCHANGED <<agents, materialized, locked, settings, notes, profile, copies, bounds, history>>

RemoveBlock ==
  /\ pc = "block"
  /\ notes' = [notes EXCEPT ![Target.notes] = RemoveMarkedBlock(@)]
  /\ Step("forget")
  /\ UNCHANGED <<agents, materialized, locked, config, settings, profile, copies, bounds, history>>

NextRemoval ==
  IF Len(task.todo) = 1
  THEN pc' = "idle" /\ task' = NoTask /\ outcome' = "ok"
  ELSE pc' = "drop" /\ task' = [task EXCEPT !.todo = Tail(@)] /\ UNCHANGED outcome

\* The profile goes; then Cline's settings are looked at as they are now.
RemoveProfile ==
  /\ pc = "forget"
  /\ profile' = [profile EXCEPT ![Target.id] = NoProfile]
  /\ IF Target.global /\ ClineRegistered
     THEN /\ pc' = "ask"
          /\ task' = [task EXCEPT !.left = Existing]
          /\ UNCHANGED outcome
     ELSE NextRemoval
  /\ UNCHANGED <<records, unsettled, config, settings, notes, copies, bounds, history>>

AnswerRemoval(accepted) ==
  /\ pc = "ask"
  /\ IF accepted THEN pc' = "unregister" /\ UNCHANGED <<task, outcome>> ELSE NextRemoval
  /\ UNCHANGED <<records, unsettled, files, bounds, history>>

\* A file that cannot be read is passed over.
RemoveClineGlobalRegistration ==
  /\ pc = "unregister"
  /\ IF task.left = <<>>
     THEN NextRemoval /\ UNCHANGED settings
     ELSE LET i == Head(task.left) IN
          /\ settings' = IF settings[i].state = "whole" /\ InspectClineGlobalEntry(settings[i]).current
                         THEN [settings EXCEPT ![i] = RemoveClineGlobalEntry(@)]
                         ELSE settings
          /\ task' = [task EXCEPT !.left = Tail(@)]
          /\ UNCHANGED <<pc, outcome>>
  /\ UNCHANGED <<records, unsettled, config, notes, profile, copies, bounds, history>>

-----------------------------------------------------------------------------
(* A kill, and what it tears: the file that was being written in place.    *)

TornConfigs(path) ==
  {config} \cup {[config EXCEPT ![path] = [Empty EXCEPT !.state = s, !.foreign = FALSE]] :
                   s \in {"cut", "broken"}}
TornNotes(path, next) ==
  {notes} \cup {[notes EXCEPT ![path] = SubSeq(next, 1, n)] : n \in 0..Len(next)-1}

TearConfig(path) ==
  /\ config' \in TornConfigs(path)
  /\ torn' = IF config' = config THEN torn ELSE torn \cup {path}
  /\ UNCHANGED <<settings, notes, profile, copies>>

TearNotes(path, next) ==
  /\ notes' \in TornNotes(path, next)
  /\ torn' = IF notes' = notes THEN torn ELSE torn \cup {path}
  /\ UNCHANGED <<config, settings, profile, copies>>

Kill ==
  /\ task.todo # <<>>
  /\ edits + kills < MaxFaults
  /\ kills' = kills + 1
  /\ pc' = "idle"
  /\ task' = NoTask
  /\ outcome' = "killed"
  /\ unsettled' = unsettled \cup {t.id : t \in ToSet(task.todo)}
  /\ \/ pc \in {"inject", "entry"} /\ config[Target.config].state # "broken"
        /\ TearConfig(Target.config)
     \/ pc = "migrate" /\ Target.legacy # NoPlace
        /\ config[Target.legacy.path].state = "whole"
        /\ TearConfig(Target.legacy.path)
     \/ pc = "notes"
        /\ TearNotes(Target.notes, UpsertMarkedBlock(notes[Target.notes], RenderAgentCapabilityBlock))
     \/ pc = "block" /\ HasBlock(notes[Target.notes])
        /\ TearNotes(Target.notes, RemoveMarkedBlock(notes[Target.notes]))
     \/ pc = "profile"
        /\ profile' = [profile EXCEPT ![Target.id] = TornProfile]
        /\ UNCHANGED <<config, settings, notes, copies, torn>>
     \/ UNCHANGED <<files, torn>>
  /\ UNCHANGED <<records, commands, edits, menu, start, touched>>

-----------------------------------------------------------------------------
(* The user's own changes.                                                 *)

EditFile ==
  /\ pc \in {"idle", "confirm", "ask"}
  /\ menu = "agents"
  /\ edits + kills < MaxFaults
  /\ edits' = edits + 1
  /\ touched' = TRUE
  /\ UNCHANGED <<records, control, profile, copies, commands, kills, menu, start>>

\* A file is created, spoilt, or put right.
EditConfig(f) ==
  /\ EditFile
  /\ config' = [config EXCEPT ![f] =
                  IF @ = NoFile THEN Empty
                  ELSE IF @.state = "whole" THEN [@ EXCEPT !.state = "broken"]
                  ELSE [@ EXCEPT !.state = "whole", !.foreign = TRUE]]
  /\ torn' = torn \ {f}
  /\ UNCHANGED <<settings, notes>>

NewSettings == [state |-> "whole", entry |-> "none", stale |-> FALSE, foreign |-> TRUE]

\* Or an editor is uninstalled, and its settings with it.
EditSettings(i) ==
  /\ EditFile
  /\ \/ settings[i] = NoFile /\ settings' = [settings EXCEPT ![i] = NewSettings]
     \/ settings[i] # NoFile /\ settings[i].entry # "current"
        /\ settings' = [settings EXCEPT ![i] = NoFile]
     \/ settings[i] # NoFile
        /\ settings' = [settings EXCEPT ![i].state = IF @ = "whole" THEN "broken" ELSE "whole"]
  /\ UNCHANGED <<config, notes, torn>>

EditNotes(f) ==
  /\ EditFile
  /\ notes' = [notes EXCEPT ![f] = Append(@, UserText)]
  /\ UNCHANGED <<config, settings, torn>>

-----------------------------------------------------------------------------
ConfigureStep ==
  \/ WriteProfile
  \/ InjectAgentConfig
  \/ ResolveClineRegistration
  \/ \E accepted \in BOOLEAN : AnswerOffer(accepted)
  \/ OfferClineGlobalRegistration
  \/ MigrateLegacyProxyLocations
  \/ MaterializeAgentSkills
  \/ WriteAgentInstructions

RemovalStep ==
  \/ DropAgent
  \/ RemoveEntry
  \/ RemoveBlock
  \/ RemoveProfile
  \/ \E accepted \in BOOLEAN : AnswerRemoval(accepted)
  \/ RemoveClineGlobalRegistration

AgentCommand ==
  \/ \E names \in Requests : AddAgents(names) \/ InitAgents(names) \/ RemoveAgents(names)
  \/ InitAgain
  \/ \E s \in Skills : InstallSkill(s) \/ RemoveSkill(s)

AgentNext ==
  \/ AgentCommand
  \/ ConfigureStep
  \/ RemovalStep
  \/ Kill
  \/ \E f \in ConfigFiles : EditConfig(f)
  \/ \E i \in 1..Candidates : EditSettings(i)
  \/ \E f \in NoteFiles : EditNotes(f)

\* A scene is what a behaviour is about and what it finds on the disk.
AgentInit(scene) ==
  /\ menu = scene.menu
  /\ agents = scene.agents
  /\ installed = scene.installed
  /\ materialized = installed
  /\ locked = NoToolkit
  /\ config = scene.config
  /\ settings = scene.settings
  /\ notes = scene.notes
  /\ profile = [id \in Agents |-> NoProfile]
  /\ copies = [id \in Agents |-> {}]
  /\ pc = "idle"
  /\ task = NoTask
  /\ outcome = "none"
  /\ commands = 0
  /\ edits = 0
  /\ kills = 0
  /\ torn = {}
  /\ unsettled = Agents
  /\ start = NoStart
  /\ touched = FALSE

-----------------------------------------------------------------------------
Bodies(f) == {i \in DOMAIN notes[f] : notes[f][i].kind = "body"}

AgentTypeOK ==
  /\ menu \in Menus
  /\ Distinct(agents) = agents
  /\ installed \subseteq Skills /\ materialized \subseteq Skills
  /\ config \in [ConfigFiles -> ConfigFile \cup {NoFile}]
  /\ settings \in [1..Candidates -> Settings]
  /\ \A f \in DOMAIN notes : \A token \in ToSet(notes[f]) :
       token.kind \in {"user", "start", "end", "body"}
  /\ profile \in [Agents -> SUBSET (Skills \cup NoProfile \cup TornProfile)]
  /\ copies \in [Agents -> SUBSET Skills]
  /\ task.todo \in Seq(Registry) /\ task.left \in Seq(1..Candidates)
  /\ task.status \in {NoStatus, "registered", "pending"}
  /\ outcome \in {"none", "ok", "failed", "killed"}
  /\ torn \subseteq DOMAIN config \cup DOMAIN notes
  /\ unsettled \subseteq Agents
  /\ commands \in 0..MaxCommands[menu] /\ edits \in Nat /\ kills \in Nat /\ edits + kills <= MaxFaults

(***************************************************************************)
(* What others wrote in an agent's files outlives every command: their     *)
(* entries stay, a configuration that cannot be read is left for the user  *)
(* to mend, and the user's lines of an instruction file are not lost, but  *)
(* in a file that a kill has torn. Continue's file is Maia's own: it is    *)
(* written, or deleted, whatever state it is in.                           *)
(***************************************************************************)
UserLines(text) == Len(Keep(text, {UserText}))
ForeignKept ==
  [][/\ \A f \in DOMAIN config \ torn' :
          /\ config'[f] # NoFile => config'[f].foreign
          /\ config[f].state = "broken" /\ f # Continue.config /\ edits' = edits => config'[f] = config[f]
     /\ \A i \in 1..Candidates :
          /\ settings'[i] # NoFile => settings'[i].foreign
          /\ settings[i].state = "broken" /\ edits' = edits => settings'[i] = settings[i]
     /\ \A f \in DOMAIN notes \ torn' : UserLines(notes'[f]) >= UserLines(notes[f])
    ]_agentVars

(***************************************************************************)
(* The instructions of an agent that say its proxy is registered tell the  *)
(* truth, whatever other agents were configured, migrated or removed since *)
(* and whoever shares a file with it. Exempt are agents that a command is  *)
(* working on, or left behind when it failed or was killed, and a file the *)
(* user has spoilt.                                                        *)
(***************************************************************************)
Settled(id) ==
  /\ Contains(agents, id)
  /\ id \notin unsettled
  /\ \A i \in DOMAIN task.todo : task.todo[i].id # id
HasEntry(t) ==
  IF t.global
  THEN \E i \in 1..Candidates : settings[i] # NoFile /\ settings[i].entry = "current"
  ELSE config[t.config].state = "broken" \/ Registered(t, config[t.config])
ClaimsRegistered ==
  \A f \in DOMAIN notes \ torn : \A i \in Bodies(f) :
    LET block == notes[f][i] IN
    Settled(block.agent) /\ block.status = "registered" => HasEntry(FindAgent(block.agent))

(***************************************************************************)
(* Between commands the profile of an agent, its copies of skills and its  *)
(* instructions agree with the lock: they list what it is authorized to    *)
(* use now and the toolkit installed now, after any sequence of commands.  *)
(***************************************************************************)
InSync(t) ==
  /\ profile[t.id] = Authorized(t.id)
  /\ t.skillsDir => Authorized(t.id) \cap materialized \subseteq copies[t.id]
  /\ \A f \in DOMAIN notes \ torn : \A i \in Bodies(f) :
       notes[f][i].agent = t.id =>
         notes[f][i].skills = Authorized(t.id) /\ notes[f][i].toolkit = locked
AgentsInSync ==
  pc = "idle" => \A t \in Registry : Settled(t.id) => InSync(t)

(***************************************************************************)
(* A removal that fails, because a configuration cannot be read, has       *)
(* changed nothing: neither the manifest nor a file of any agent it named. *)
(* Exempt is one during which the user changed a file.                     *)
(***************************************************************************)
RefusedRemovalChangesNothing ==
  pc = "idle" /\ outcome = "failed" /\ start # NoStart /\ ~touched => Snapshot = start
=============================================================================
