CONSTANTS
  skill = skill
  otherSkill = otherSkill
  tool = tool
  mcp = mcp
  declared = declared
  disabled = disabled
  None = None
  NoLock = NoLock
  RemoteSkills <- MCRemoteSkills
  LocalSkills = {}
  Tools <- MCTools
  Mcps <- MCMcps
  Deps <- MCDeps
  DisabledDeps <- MCDisabledDeps
  Offered <- Commands
  MaxRevision = 2
  MaxEdits = 1
  MaxFaults = 1
SPECIFICATION Spec
INVARIANTS
  TypeOK
  SuccessRecorded
  InstallHeals
  BlockUndone
  CiVouches
  CiChecksFirst
