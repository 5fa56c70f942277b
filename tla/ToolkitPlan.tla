----------------------------- MODULE ToolkitPlan -----------------------------
(***************************************************************************)
(* What a toolkit is and how Maia drives its native installer: the paths   *)
(* it owns, the integrations the configured agents ask for, the state it   *)
(* is found in and the commands that install it. The catalog holds one     *)
(* toolkit. A version is its major.minor.patch, a number here.             *)
(*                                                                         *)
(* The workspace is a function from paths to contents; a directory exists  *)
(* when something below it does. A pattern is a directory and the names    *)
(* that its last segment matches.                                          *)
(***************************************************************************)
EXTENDS FiniteSets, Lists, Guardrails

CONSTANTS
  Versions,    \* the releases of the toolkit
  Paths,       \* the files that may exist in the workspace
  UserPaths    \* those of them that no installer writes

ASSUME VersionAssumption == Versions \subseteq Nat \ {0}

Gone == -1     \* there is no such file
Junk == 0      \* the user's own content; as a version file, not readable
Scopes == {"project", "global"}

Pattern(dir, names) == [dir |-> dir, names |-> names]
SpeckitSkills == {"speckit-plan"}    \* what speckit-* matches

Speckit ==
  [supportsGlobal |-> TRUE,
   integrations |->
     [claude |-> [key |-> "claude", multiInstallSafe |-> TRUE],
      copilot |-> [key |-> "copilot", multiInstallSafe |-> FALSE],
      cursor |-> [key |-> "cursor-agent", multiInstallSafe |-> TRUE],
      zed |-> [key |-> "zed", multiInstallSafe |-> FALSE],
      cline |-> [key |-> "cline", multiInstallSafe |-> TRUE],
      codex |-> [key |-> "codex", multiInstallSafe |-> TRUE]],
   projectPaths |-> {Pattern(<<>>, {".specify"})},
   integrationPaths |->
     [key \in {"claude", "copilot", "cursor-agent", "codex", "zed", "cline"} |->
        Pattern(CASE key = "claude" -> <<".claude", "skills">>
                  [] key = "copilot" -> <<".github", "skills">>
                  [] key = "cursor-agent" -> <<".cursor", "skills">>
                  [] key = "cline" -> <<".clinerules", "workflows">>
                  [] OTHER -> <<".agents", "skills">>, SpeckitSkills)],
   projectVersionFile |-> <<".specify", "init-options.json">>]

Keys == DOMAIN Speckit.integrationPaths
ToolkitPatterns == Speckit.projectPaths \cup {Speckit.integrationPaths[key] : key \in Keys}

ASSUME PathAssumption ==
  Paths \subseteq Seq(STRING) /\ Speckit.projectVersionFile \in Paths \ UserPaths

\* A version file that is not JSON, or names no version, is read as none.
ProjectVersion(disk) ==
  LET content == disk[Speckit.projectVersionFile] IN IF content \in Versions THEN content ELSE Gone

Exists(disk, p) == \E f \in Paths : disk[f] # Gone /\ IsPrefix(p, f)

PathsOf(patterns) == UNION {{Append(pat.dir, name) : name \in pat.names} : pat \in patterns}
SnapshotToolkitPaths(disk, patterns) == {p \in PathsOf(patterns) : Exists(disk, p)}

\* A path and everything below it, directories included.
ListPathsUnder(disk, p) ==
  {q \in UNION {Prefixes(f) : f \in {g \in Paths : disk[g] # Gone}} : IsPrefix(p, q)}

\* A directory is blocked when anything in it is. A malformed policy throws.
AssertToolkitPathsAllowed(disk, paths, policy) ==
  LET verdicts(p) == {AssertPathAllowed(q, policy) : q \in ListPathsUnder(disk, p)}
      allowed == {p \in paths : verdicts(p) \subseteq {0}}
  IN [allowed |-> allowed, blocked |-> paths \ allowed,
      throws |-> \E p \in paths : 2 \in verdicts(p)]

ResolveEffectiveScope(requestedGlobal) ==
  IF requestedGlobal /\ Speckit.supportsGlobal THEN "global" ELSE "project"

\* When one integration may be combined with others, those that may not are
\* skipped; otherwise the first is used alone.
ResolveToolkitIntegrations(agentIds) ==
  LET offered == DOMAIN Speckit.integrations
      supported == Keep(agentIds, offered)
      safe == Keep(supported, {id \in offered : Speckit.integrations[id].multiInstallSafe})
      chosen == IF safe # <<>> THEN safe ELSE SubSeq(supported, 1, IF supported = <<>> THEN 0 ELSE 1)
  IN [i \in DOMAIN chosen |-> Speckit.integrations[chosen[i]].key]

CollectToolkitPathPatterns(integrations) ==
  Speckit.projectPaths \cup {Speckit.integrationPaths[key] : key \in ToSet(integrations)}

ClassifyToolkitState(expected, projectVersion, globalToolVersion) ==
  CASE projectVersion = Gone -> "absent"
    [] projectVersion \notin {Gone, expected.version} -> "mismatch"
    [] OTHER -> IF expected.scope = "global" /\ globalToolVersion # expected.version
                THEN "global-tool-missing" ELSE "installed"

DetectToolkitState(expected, disk, globalTool) ==
  ClassifyToolkitState(expected, ProjectVersion(disk), globalTool)

Command(run, key) == [run |-> run, key |-> key]
BuildToolkitInstallCommands(expected, integrations, state, globalTool) ==
  LET tool == IF expected.scope = "global" /\ globalTool # expected.version
              THEN <<Command("installGlobalTool", "")>> ELSE <<>>
      primary == IF integrations = <<>> THEN "" ELSE Head(integrations)
      extras == IF integrations = <<>> THEN <<>> ELSE Tail(integrations)
  IN IF state = "global-tool-missing" THEN <<Command("installGlobalTool", "")>>
     ELSE tool \o <<Command("initProject", primary)>>
               \o [i \in DOMAIN extras |-> Command("addIntegration", extras[i])]

\* Under a path of the toolkit; what a native command writes, in the project
\* and for an integration.
Under(patterns) == {f \in Paths : \E p \in PathsOf(patterns) : IsPrefix(p, f)}
Writes(command) ==
  (Under(IF command.run = "initProject" THEN Speckit.projectPaths ELSE {})
     \cup Under(IF command.key = "" THEN {} ELSE {Speckit.integrationPaths[command.key]}))
  \ UserPaths
=============================================================================
