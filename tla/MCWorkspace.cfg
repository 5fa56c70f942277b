CONSTANTS
  guide = guide
  NoList = NoList
  NoLlm = NoLlm
  NoLine = NoLine
  Outside = Outside
  Globstar = Globstar
  EnvSegments <- MCEnvSegments
  Versions = {1, 2}
  Paths <- MCPaths
  UserPaths <- MCUserPaths
  EnvNames <- MCEnvNames
  LegacyDefaults <- MCLegacyDefaults
  ProcessEnv <- MCProcessEnv
  References <- MCReferences
  Answers <- MCAnswers
  Letters <- MCLetters
  Requests <- MCRequests
  Skills <- MCSkills
  AllowedLlms <- MCAllowedLlms
  DefaultPolicy = "allow"
  Candidates = 2
  Scenes <- MCScenes
  MaxCommands <- MCMaxCommands
  MaxFaults = 1
SPECIFICATION Spec
INVARIANTS
  TypeOK
  ClaimsRegistered
  AgentsInSync
  RefusedRemovalChangesNothing
  FailedInstallUndone
  LockFollowsManifest
PROPERTIES
  ForeignKept
  GuardedKept
  ValuesSurvive
