------------------------------ MODULE EnvFiles ------------------------------
(***************************************************************************)
(* The credentials of MCP servers: .maia/mcp.env of the project, the       *)
(* global file of the user, and the .env.maia of older versions that maia  *)
(* init moves into the first. Installing a server asks for the values that *)
(* are missing; installing anything adds empty placeholders; starting a    *)
(* server reads the files, the project's before the global one.            *)
(*                                                                         *)
(* A file maps each name to what stands right of its = sign, a sequence of *)
(* quotes, backslashes and other characters: it is written quoted and      *)
(* escaped, read with the outer quotes stripped, and never unescaped.      *)
(* Files are written in place. Comments, and a second line for one name,   *)
(* are left out.                                                           *)
(***************************************************************************)
EXTENDS AgentConfig

CONSTANTS
  EnvNames,        \* the names of variables
  LegacyDefaults,  \* what older versions wrote on their own, for some names
  ProcessEnv,      \* the environment of the process, for some names
  References,      \* the names a server's configuration may refer to: sets
  Answers,         \* what the user may type or paste
  NoLine,          \* a file does not mention the name
  Letters          \* the characters that are neither quotes nor backslashes

\* A value, and what stands for it in a file, is a text.
Characters == Letters \cup {"quote", "backslash"}
Texts == Seq(Characters)
EnvTexts == [EnvNames -> Texts \cup {NoLine}]
ASSUME EnvAssumption ==
  /\ References \subseteq SUBSET EnvNames
  /\ Answers \subseteq Texts
  /\ NoLine \notin Texts
  /\ NoFile \notin EnvTexts

VARIABLES
  envFile,     \* .maia/mcp.env, or NoFile
  legacyFile,  \* .env.maia, or NoFile
  globalFile,  \* the user's mcp.env, or NoFile
  job          \* the locals of the command under way

envVars == <<envFile, legacyFile, globalFile, job>>

NoJob == [scope |-> "project", values |-> <<>>, required |-> {}, left |-> {}, migrating |-> FALSE]

\* What the first says of a name wins.
Overlay(first, second) ==
  [n \in DOMAIN first \cup DOMAIN second |-> IF n \in DOMAIN first THEN first[n] ELSE second[n]]

BlankFile == [n \in EnvNames |-> NoLine]
ParseEnvFile(file) ==
  IF file = NoFile THEN <<>>
  ELSE [n \in {m \in EnvNames : file[m] # NoLine} |-> file[n]]

Escape(value) ==
  FlattenSeq([i \in DOMAIN value |->
                IF value[i] \in {"quote", "backslash"} THEN <<"backslash", value[i]>> ELSE <<value[i]>>])
FormatEnvValue(value) == <<"quote">> \o Escape(value) \o <<"quote">>

\* One quote at each end, if it is there.
NormalizeStoredEnvValue(value) ==
  LET from == IF value # <<>> /\ value[1] = "quote" THEN 2 ELSE 1
      to == IF Len(value) >= from /\ value[Len(value)] = "quote" THEN Len(value) - 1 ELSE Len(value)
  IN SubSeq(value, from, to)

ReadEnvLayer(file) ==
  [n \in DOMAIN ParseEnvFile(file) |-> NormalizeStoredEnvValue(file[n])]

\* An empty value never hides one of a later layer.
MergeEnvLayers(processEnv, project, global) ==
  [n \in EnvNames |->
     IF n \in DOMAIN processEnv /\ processEnv[n] # <<>> THEN processEnv[n]
     ELSE IF n \in DOMAIN project /\ project[n] # <<>> THEN project[n]
     ELSE IF n \in DOMAIN global THEN global[n] ELSE <<>>]

GlobalEnvNames(includeEmpty) ==
  LET layer == ReadEnvLayer(globalFile) IN {n \in DOMAIN layer : includeEmpty \/ layer[n] # <<>>}

\* Lines that only repeat a legacy default go, unless they are required.
SyncEnvFile(file, values, required) ==
  [n \in EnvNames |->
     IF n \in DOMAIN values THEN FormatEnvValue(values[n])
     ELSE IF n \in DOMAIN ParseEnvFile(file) /\
             ~(n \in DOMAIN LegacyDefaults \ required /\
               NormalizeStoredEnvValue(file[n]) = LegacyDefaults[n])
     THEN file[n] ELSE NoLine]

Synced == SyncEnvFile(IF job.scope = "global" THEN globalFile ELSE envFile, job.values, job.required)

-----------------------------------------------------------------------------
BeginEnv ==
  /\ Begin("env")
  /\ start' = NoStart
  /\ outcome' = "none"
  /\ UNCHANGED <<records, files, task, unsettled>>
EnvStep(next) == pc' = next /\ UNCHANGED <<records, files, task, unsettled, bounds, history>>
EnvDone == EnvStep("idle") /\ outcome' = "ok" /\ job' = NoJob

\* maia init; what the project's file says wins over the legacy one.
EnsureInitialized ==
  /\ BeginEnv
  /\ IF legacyFile = NoFile
     THEN pc' = "ensure" /\ job' = NoJob
     ELSE LET merged == Overlay(ParseEnvFile(envFile), ParseEnvFile(legacyFile)) IN
          /\ pc' = "sync"
          /\ job' = [NoJob EXCEPT !.values = merged, !.required = DOMAIN merged, !.migrating = TRUE]
  /\ UNCHANGED <<envFile, legacyFile, globalFile>>

\* Mutant: a name that already has a line gets a placeholder too.
OverwriteEntries(names) ==
  [NoJob EXCEPT !.required = names,
     !.values = [n \in names \ (DOMAIN ProcessEnv \cup GlobalEnvNames(TRUE)) |-> <<>>]]

EnsureMcpEnvFileEntries(names) ==
  [NoJob EXCEPT !.required = names,
     !.values = [n \in names \ (DOMAIN ProcessEnv \cup DOMAIN ParseEnvFile(envFile) \cup
                                GlobalEnvNames(TRUE)) |-> <<>>]]

\* Installing a server by name, from the lock, or again: only placeholders.
EnsureEntries(names) ==
  /\ BeginEnv
  /\ pc' = "sync"
  /\ job' = EnsureMcpEnvFileEntries(names)
  /\ UNCHANGED <<envFile, legacyFile, globalFile>>

\* Installing one from a catalog: what has no value is asked for. The file is
\* read before the first question, and a line of two quotes is a value to it.
\* The global one is created first.
ConfigureMcpCredentials(names, scope) ==
  LET requirements == names \ GlobalEnvNames(FALSE)
      existing == ParseEnvFile(IF scope = "global" THEN globalFile ELSE envFile)
      known(n) == \/ n \in DOMAIN ProcessEnv /\ ProcessEnv[n] # <<>>
                  \/ n \in DOMAIN existing /\ existing[n] # <<>>
  IN /\ BeginEnv
     /\ IF requirements = {}
        THEN pc' = "sync" /\ job' = EnsureMcpEnvFileEntries(names)
        ELSE /\ pc' = "credentials"
             /\ job' = [NoJob EXCEPT !.scope = scope, !.required = requirements,
                          !.left = {n \in requirements : ~known(n)}]
     /\ globalFile' = IF requirements # {} /\ scope = "global" /\ globalFile = NoFile
                      THEN BlankFile ELSE globalFile
     /\ UNCHANGED <<envFile, legacyFile>>

\* Without a terminal every answer is empty.
AnswerCredential(n, value) ==
  /\ pc = "credentials"
  /\ n \in job.left
  /\ job' = [job EXCEPT !.left = @ \ {n}, !.values = Overlay(@, [m \in {n} |-> value])]
  /\ EnvStep("credentials")
  /\ UNCHANGED <<outcome, envFile, legacyFile, globalFile>>

CredentialsAnswered ==
  /\ pc = "credentials"
  /\ job.left = {}
  /\ EnvStep("sync")
  /\ UNCHANGED <<outcome, envVars>>

\* The file is read again; what the command does not set stays.
WriteEnvFile ==
  /\ pc = "sync"
  /\ IF job.scope = "global"
     THEN globalFile' = Synced /\ UNCHANGED envFile
     ELSE envFile' = Synced /\ UNCHANGED globalFile
  /\ IF job.migrating
     THEN EnvStep("legacy") /\ UNCHANGED <<outcome, job>>
     ELSE EnvDone
  /\ UNCHANGED legacyFile

RemoveLegacyFile ==
  /\ pc = "legacy"
  /\ legacyFile' = NoFile
  /\ EnvStep("ensure")
  /\ UNCHANGED <<outcome, envFile, globalFile, job>>

EnsureMcpEnvFile ==
  /\ pc = "ensure"
  /\ envFile' = IF envFile = NoFile THEN BlankFile ELSE envFile
  /\ EnvDone
  /\ UNCHANGED <<legacyFile, globalFile>>

\* A kill may cut the file being written after any line.
KillEnv ==
  /\ pc \in {"credentials", "sync", "legacy"}
  /\ edits + kills < MaxFaults
  /\ kills' = kills + 1
  /\ pc' = "idle" /\ outcome' = "killed" /\ job' = NoJob
  /\ IF pc = "sync"
     THEN \E S \in SUBSET EnvNames :
            LET cut == [n \in EnvNames |-> IF n \in S THEN Synced[n] ELSE NoLine] IN
            IF job.scope = "global" THEN globalFile' = cut /\ UNCHANGED envFile
            ELSE envFile' = cut /\ UNCHANGED globalFile
     ELSE UNCHANGED <<envFile, globalFile>>
  /\ UNCHANGED <<legacyFile, records, files, task, unsettled, commands, edits, menu, history>>

\* The user gives a name another value, or none.
EditEnv(n, line) ==
  /\ pc \in {"idle", "credentials"}
  /\ menu = "env"
  /\ edits + kills < MaxFaults
  /\ edits' = edits + 1
  /\ touched' = TRUE
  /\ \/ envFile # NoFile /\ envFile' = [envFile EXCEPT ![n] = line] /\ UNCHANGED globalFile
     \/ globalFile # NoFile /\ globalFile' = [globalFile EXCEPT ![n] = line] /\ UNCHANGED envFile
  /\ UNCHANGED <<legacyFile, job, records, files, control, commands, kills, menu, torn, start>>

EnvNext ==
  \/ EnsureInitialized
  \/ \E names \in References :
       \/ EnsureEntries(names)
       \/ \E scope \in {"project", "global"} : ConfigureMcpCredentials(names, scope)
  \/ \E n \in EnvNames, value \in Answers : AnswerCredential(n, value)
  \/ CredentialsAnswered
  \/ WriteEnvFile
  \/ RemoveLegacyFile
  \/ EnsureMcpEnvFile
  \/ KillEnv
  \/ \E n \in EnvNames, line \in {NoLine} \cup Answers : EditEnv(n, line)

EnvInit(scene) ==
  /\ envFile = scene.envFile
  /\ legacyFile = scene.legacyFile
  /\ globalFile = scene.globalFile
  /\ job = NoJob

-----------------------------------------------------------------------------
EnvTypeOK ==
  /\ \A file \in {envFile, legacyFile, globalFile} : file # NoFile =>
       /\ DOMAIN file = EnvNames
       /\ \A n \in EnvNames : file[n] # NoLine => DOMAIN file[n] = 1..Len(file[n])
  /\ DOMAIN job.values \subseteq job.required
  /\ job.left \subseteq job.required \ DOMAIN job.values
  /\ job.migrating => job.required = DOMAIN job.values

Given == MergeEnvLayers(ProcessEnv, ReadEnvLayer(envFile), ReadEnvLayer(globalFile))
Plain(value) == ToSet(value) \cap {"quote", "backslash"} = {}

(***************************************************************************)
(* What a server is given for a name is never lost, nor replaced, by a     *)
(* command that was not about it: not by a placeholder, not by an answer   *)
(* to a question about another name or in another file. A plain answer is  *)
(* what the server is given, where it was given nothing before.            *)
(* Exempt are a kill, an edit while a question waits, the legacy defaults, *)
(* and a migration of values that hold quotes or backslashes.              *)
(***************************************************************************)
IsLegacyDefault(n) == n \in DOMAIN LegacyDefaults /\ Given[n] = LegacyDefaults[n]
ValuesSurvive ==
  [][<<envFile', globalFile'>> # <<envFile, globalFile>> /\
     edits' = edits /\ outcome' # "killed" /\ ~touched =>
       /\ \A n \in EnvNames : Given[n] # <<>> =>
            \/ Given'[n] = Given[n]
            \/ IsLegacyDefault(n)
            \/ /\ pc = "sync" /\ job.migrating /\ n \in DOMAIN job.values
               /\ Plain(job.values[n]) => Given'[n] = job.values[n]
       /\ pc = "sync" /\ ~job.migrating =>
            \A n \in DOMAIN job.values :
              Plain(job.values[n]) /\ Given[n] = <<>> => Given'[n] = job.values[n]]_envVars

(***************************************************************************)
(* The migration loses no value (migrate.legacy.mcp.env.file.ts): when the *)
(* legacy file is deleted, a server is given what stood there, if neither  *)
(* the process nor the project's file had a value for the name.            *)
(***************************************************************************)
MigrationKeepsValues ==
  [][legacyFile # NoFile /\ legacyFile' = NoFile =>
       \A n \in DOMAIN ParseEnvFile(legacyFile) \ DOMAIN ProcessEnv :
         \/ Given[n] = NormalizeStoredEnvValue(legacyFile[n])
         \/ /\ job.values[n] # legacyFile[n]
            /\ NormalizeStoredEnvValue(job.values[n]) # <<>>]_envVars
=============================================================================
