CONSTANTS
  None = None
  NoList = NoList
  NoLlm = NoLlm
  Requests = {0, 1, 2, 3}
  Kinds = {"stdio", "http", "ws"}
  Peers = {"modern", "legacy", "absent"}
  Servers = {"docs", "vault"}
  Setups <- MCSetups
  Locals = {"plan", "draft", "maia_toolkits"}
  Segment <- MCSegment
  Offers <- MCOffers
  Exposed <- MCExposed
  AgentId = "claude"
  DefaultPolicy = "deny"
  Contents <- MCContents
  Locks <- MCLocks
  Forms <- MCForms
  DynamicOptions = {TRUE, FALSE}
  MaxEdits = 1
  MaxFaults = 1
SPECIFICATION Spec
INVARIANTS
  TypeOK
  ListIsCurrent
  AccessRechecked
  NoDowngrade
  ListedIsRouted
  ForwardedAsExposed
