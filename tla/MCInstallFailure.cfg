CONSTANTS
  skill = skill
  otherSkill = otherSkill
  tool = tool
  mcp = mcp
  declared = declared
  disabled = disabled
  None = None
  NoLock = NoLock
  RemoteSkills <- MCRemoteSkills
  LocalSkills = {}
  Tools <- MCTools
  Mcps = {}
  Deps <- MCDeps
  DisabledDeps <- MCDisabledDeps
  Offered <- Commands
  MaxRevision = 1
  MaxEdits = 0
  MaxFaults = 1
SPECIFICATION Spec
INVARIANTS
  FailureUndone
