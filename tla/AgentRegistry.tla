--------------------------- MODULE AgentRegistry ---------------------------
(***************************************************************************)
(* The agents Maia knows: where each keeps its configuration and its       *)
(* instructions, in which format, and where older versions of Maia left    *)
(* their entry. A file is its name, a format the section Maia writes in.   *)
(***************************************************************************)
EXTENDS Lists

NoPlace == [path |-> "", format |-> ""]
NoTarget == [id |-> ""]

\* What every registered agent has; the rest is declared where it applies.
AgentTarget(id, format, config, notes) ==
  [id |-> id, aliases |-> {}, format |-> format, config |-> config,
   notes |-> notes, legacy |-> NoPlace, projectDir |-> "omit",
   stdioType |-> FALSE, skillsDir |-> FALSE, global |-> FALSE]

Claude ==
  [AgentTarget("claude", "mcp-servers", ".mcp.json", "CLAUDE.md") EXCEPT
     !.legacy = [path |-> "claude_desktop_config.json", format |-> "mcp-servers"],
     !.skillsDir = TRUE]

\* Cline's project file is a place older versions wrote to; it reads only its
\* settings, which are the user's and not the project's.
Cline ==
  [AgentTarget("cline", "servers", ".cline/mcp.json", ".clinerules/maia.md") EXCEPT
     !.legacy = [path |-> ".cline/mcp.json", format |-> "servers"],
     !.global = TRUE]

Codex ==
  [AgentTarget("codex", "toml-mcp-servers", ".codex/config.toml", "AGENTS.md") EXCEPT
     !.aliases = {"openai-codex", "gpt-codex"}]

Continue ==
  [AgentTarget("continue", "continue-mcp-block", "maia.yaml", "AGENTS.md") EXCEPT
     !.aliases = {"continue-dev"},
     !.legacy = [path |-> ".continue/config.json", format |-> "mcp-servers"]]

Copilot ==
  [AgentTarget("copilot", "servers", ".vscode/mcp.json", "copilot-instructions.md") EXCEPT
     !.aliases = {"vscode", "code"}, !.projectDir = "workspace-variable",
     !.skillsDir = TRUE]

\* The same file, another section: the entry moved from servers to mcpServers.
Cursor ==
  [AgentTarget("cursor", "mcp-servers", ".cursor/mcp.json", "maia.mdc") EXCEPT
     !.aliases = {"cursor-ide"}, !.projectDir = "workspace-env", !.stdioType = TRUE,
     !.legacy = [path |-> ".cursor/mcp.json", format |-> "servers"]]

Zed == AgentTarget("zed", "zed-settings", ".zed/settings.json", "AGENTS.md")

Registry == {Claude, Copilot, Cursor, Zed, Cline, Continue, Codex}

\* By id or alias. Case is ignored, so names are taken in lower case.
FindAgent(name) ==
  IF \E t \in Registry : name = t.id \/ name \in t.aliases
  THEN CHOOSE t \in Registry : name = t.id \/ name \in t.aliases
  ELSE NoTarget

\* The proxy entry says how the agent tells Maia where the project is.
McpEntry(t) ==
  [agent |-> t.id, stdio |-> t.stdioType,
   cwd |-> t.projectDir = "workspace-variable", env |-> t.projectDir = "workspace-env"]

\* resolveTargets throws when it is given no name, or one it does not know. The
\* first mention of each agent counts.
Resolvable(names) == names # <<>> /\ \A i \in DOMAIN names : FindAgent(names[i]) # NoTarget
ResolveTargets(names) == Distinct([i \in DOMAIN names |-> FindAgent(names[i])])

\* Mutant: an agent that is declared already is declared again.
AppendSelectedAgents(declared, names) == declared \o names

\* saveSelectedAgents keeps a name it does not know, as it was given. An agent
\* that is declared already keeps its place.
SaveSelectedAgents(declared, names) ==
  LET canonical(name) == IF FindAgent(name) = NoTarget THEN name ELSE FindAgent(name).id
  IN Distinct(declared \o [i \in DOMAIN names |-> canonical(names[i])])

RemoveSelectedAgents(declared, id) == Keep(declared, ToSet(declared) \ {id})
=============================================================================
