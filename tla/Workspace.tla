----------------------------- MODULE Workspace -----------------------------
(***************************************************************************)
(* The files of one project outside .maia's packages, and the commands     *)
(* that write them: the agents' configuration (AgentConfig), the toolkit   *)
(* (Toolkits) and the credentials (EnvFiles). They share the manifest, the *)
(* lock and the loop over the agents: every command about the toolkit ends *)
(* by configuring the agents. One command runs at a time.                  *)
(*                                                                         *)
(* A behaviour runs commands of one menu, from one scene: a bound on what  *)
(* is mixed. Credentials share no state with the rest, and the agents meet *)
(* the toolkit in the toolkit's own commands.                              *)
(***************************************************************************)
EXTENDS Toolkits, EnvFiles

CONSTANT Scenes    \* what a behaviour may be about and start from

ASSUME SceneAssumption ==
  \A scene \in Scenes :
    /\ scene.menu \in Menus
    /\ scene.agents \in Seq(STRING) /\ Distinct(scene.agents) = scene.agents
    /\ scene.installed \subseteq Skills
    /\ scene.config \in [ConfigFiles -> ConfigFile \cup {NoFile}]
    /\ \A f \in ConfigFiles : scene.config[f] # NoFile => scene.config[f].foreign
    /\ scene.settings \in [1..Candidates -> Settings]
    /\ \A i \in 1..Candidates : scene.settings[i] # NoFile => scene.settings[i].foreign
    /\ scene.notes \in [NoteFiles -> Seq({UserText})]
    /\ scene.disk \in [Paths -> Contents]
    /\ {scene.envFile, scene.legacyFile, scene.globalFile} \subseteq EnvTexts \cup {NoFile}

vars == <<agentVars, kitVars, envVars>>

Init == \E scene \in Scenes : AgentInit(scene) /\ ToolkitInit(scene) /\ EnvInit(scene)

\* Between commands anything may be the end.
Rest == pc = "idle" /\ UNCHANGED vars

Next ==
  \/ AgentNext /\ UNCHANGED <<kitVars, envVars>>
  \/ ToolkitNext /\ UNCHANGED envVars
  \/ EnvNext /\ UNCHANGED kitVars
  \/ Rest

Spec == Init /\ [][Next]_vars

TypeOK == AgentTypeOK /\ ToolkitTypeOK /\ EnvTypeOK
=============================================================================
