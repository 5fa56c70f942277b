CONSTANTS
  skill = skill
  otherSkill = otherSkill
  tool = tool
  mcp = mcp
  declared = declared
  disabled = disabled
  None = None
  NoLock = NoLock
  RemoteSkills <- MCTwoSkills
  LocalSkills = {}
  Tools = {}
  Mcps = {}
  Deps <- MCDeps
  DisabledDeps <- MCDisabledDeps
  Offered <- MCInstallAndLock
  MaxRevision = 2
  MaxEdits = 0
  MaxFaults = 0
SPECIFICATION Spec
INVARIANTS
  LockRestorable
