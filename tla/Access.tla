------------------------------- MODULE Access -------------------------------
(***************************************************************************)
(* Who may use an installed package. A package carries the list of agents  *)
(* it was authorized for, or none; the manifest says what none means. The  *)
(* same decision is taken when tools are listed, when one is called, when  *)
(* a server is started and when an agent's files are written.              *)
(***************************************************************************)
EXTENDS FiniteSets

CONSTANTS
  NoList,   \* no list was declared
  NoLlm     \* the caller does not say which agent it is

AccessAll == "*"
Blank == ""      \* an entry that trims to nothing
AllowByDefault == "allow"
DenyByDefault == "deny"

NormalizeAccessList(list, emptyFallback) ==
  IF list = NoList THEN {AccessAll}
  ELSE IF list \ {Blank} = {} THEN emptyFallback ELSE list \ {Blank}

ListAllowsValue(list, value) == AccessAll \in list \/ value \in list

\* A list that only holds blanks allows nobody.
ResolveAllowedLlms(allowedLlms, defaultPolicy) ==
  IF allowedLlms # NoList THEN NormalizeAccessList(allowedLlms, {})
  ELSE IF defaultPolicy = DenyByDefault THEN {} ELSE {AccessAll}

\* What one agent may use of each kind, before the packages have their say.
NormalizeLlmAccessPolicy(llmPolicy) ==
  [kind \in DOMAIN llmPolicy |-> NormalizeAccessList(llmPolicy[kind], {})]

CanLlmAccessResource(llmId, kind, name, llmPolicy, allowedLlms, defaultPolicy) ==
  LET allowed == ResolveAllowedLlms(allowedLlms, defaultPolicy)
  IN IF llmId = NoLlm
     THEN AccessAll \in allowed
     ELSE /\ ListAllowsValue(NormalizeLlmAccessPolicy(llmPolicy)[kind], name)
          /\ ListAllowsValue(allowed, llmId)

\* Every caller but the manager passes no policy for the agent.
NoPolicy == [kind \in {"tool", "skill", "mcp"} |-> NoList]
MayUse(llmId, kind, name, allowedLlms, defaultPolicy) ==
  CanLlmAccessResource(llmId, kind, name, NoPolicy, allowedLlms, defaultPolicy)
=============================================================================
