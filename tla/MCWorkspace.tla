---------------------------- MODULE MCWorkspace ----------------------------
\* Agents: two with legacy locations, one of them in its own file, one behind Cline's settings, two
\* that share AGENTS.md, one in TOML, and a name nobody has. The toolkit: two
\* versions, an agent whose integration may be combined and one whose may not, and
\* a file of the user where the toolkit's own go, which a guardrail protects by
\* default or by policy. Credentials: placeholders, quoted values, a legacy default,
\* a name in the process and a legacy file.
EXTENDS Workspace

CONSTANT guide     \* a skill

MCSkills == {guide}
MCAllowedLlms == [s \in MCSkills |-> {"claude", "zed"}]
MCRequests == {<<"claude", "cursor", "zed">>, <<"cline", "codex">>, <<"clien">>}
MCMaxCommands == [m \in Menus |-> IF m = "agents" THEN 3 ELSE 2]

VersionFile == Speckit.projectVersionFile
UserKeys == <<".specify", "keys.env">>
ClaudeSkill == <<".claude", "skills", "speckit-plan", "SKILL.md">>
ClaudeKeys == <<".claude", "skills", "speckit-plan", "a.env">>
CopilotSkill == <<".github", "skills", "speckit-plan", "SKILL.md">>
MCPaths == {VersionFile, UserKeys, ClaudeSkill, ClaudeKeys, CopilotSkill}
MCUserPaths == {UserKeys, ClaudeKeys}
MCEnvSegments == {"keys.env", "a.env"}
MCPolicies == {MalformedPolicy, LoadedPolicy({<<{".claude"}, Globstar>>})}

MCEnvNames == {"TOKEN", "NODE_ENV", "HOME"}
MCLegacyDefaults == [n \in {"NODE_ENV"} |-> <<"d">>]
MCProcessEnv == [n \in {"HOME"} |-> <<"v">>]
MCReferences == {{"TOKEN"}, MCEnvNames}
MCLetters == {"v", "w", "d"}
MCAnswers == {<<>>, <<"v">>, <<"quote", "v", "quote">>}

NoFiles == [f \in ConfigFiles |-> NoFile]
Configs ==
  [f \in ConfigFiles |->
     CASE f \in {".mcp.json", ".codex/config.toml"} -> Empty
       [] f = ".cursor/mcp.json" -> [Empty EXCEPT !.maia["servers"] = OldEntry]
       [] f = "claude_desktop_config.json" ->
            [Empty EXCEPT !.maia["mcpServers"] = OldEntry]
       [] OTHER -> NoFile]
OldSettings == <<[NewSettings EXCEPT !.stale = TRUE], NoFile>>
Notes == [f \in NoteFiles |-> IF f = "AGENTS.md" THEN <<UserText>> ELSE <<>>]
Line(token, mode) ==
  [n \in MCEnvNames |-> CASE n = "TOKEN" -> token [] n = "NODE_ENV" -> mode [] OTHER -> NoLine]

Bare ==
  [menu |-> "agents", agents |-> <<>>, installed |-> {}, config |-> NoFiles,
   settings |-> <<NoFile, NoFile>>, notes |-> [f \in NoteFiles |-> <<>>],
   disk |-> [f \in MCPaths |-> Gone], policy |-> AbsentPolicy,
   envFile |-> NoFile, legacyFile |-> NoFile, globalFile |-> NoFile]

AgentScene == [Bare EXCEPT !.config = Configs, !.settings = OldSettings, !.notes = Notes]
Kit(ids, rules, user) ==
  [Bare EXCEPT !.menu = "toolkits", !.agents = ids, !.policy = rules,
               !.disk = [f \in MCPaths |-> IF f = user THEN Junk ELSE Gone]]
ToolkitScenes ==
  {Kit(<<"claude", "copilot">>, rules, user) : rules \in MCPolicies, user \in MCUserPaths} \cup
  {Kit(<<"copilot">>, AbsentPolicy, UserKeys)}
Env(project, legacy, global) ==
  [Bare EXCEPT !.menu = "env", !.envFile = project, !.legacyFile = legacy, !.globalFile = global]
EnvScenes ==
  LET placeholder == Line(<<"quote", "quote">>, <<"d">>)
      old == Line(<<"v">>, <<"quote", "d", "quote">>)
  IN {Env(NoFile, Line(<<"v">>, NoLine), Line(<<"w">>, NoLine)),
      Env(placeholder, old, NoFile),
      Env(placeholder, old, Line(<<>>, <<"d">>)),
      Env(Line(<<"quote", "v", "quote">>, <<"v">>), NoFile, NoFile),
      Env(Line(NoLine, <<"v">>), NoFile, Line(<<"w">>, <<"d">>))}
MCScenes == {AgentScene} \cup ToolkitScenes \cup EnvScenes
=============================================================================
