----------------------------- MODULE AgentFiles -----------------------------
(***************************************************************************)
(* The files of an agent, and what Maia does to the content of one.        *)
(*                                                                         *)
(* A configuration file is "whole", "cut" between two lines or "broken";   *)
(* foreign says whether what others wrote in it is still there; maia holds *)
(* Maia's entries by section. An instruction file is a sequence of tokens: *)
(* lines of the user's, Maia's markers and the text between them.          *)
(***************************************************************************)
EXTENDS AgentRegistry

NoEntry == [agent |-> "none"]
OldEntry == [agent |-> "old"]      \* written by an older version
NoFile == [state |-> "absent"]

TopKey(format) ==
  CASE format = "mcp-servers" -> "mcpServers"
    [] format = "servers" -> "servers"
    [] format = "zed-settings" -> "context_servers"
    [] format = "toml-mcp-servers" -> "mcp_servers"
    [] format = "continue-mcp-block" -> "document"

Sections == {TopKey(t.format) : t \in Registry} \cup {"inline"}
McpEntries ==
  [agent : {t.id : t \in Registry}, stdio : BOOLEAN, cwd : BOOLEAN, env : BOOLEAN] \cup
  {OldEntry, NoEntry}
ConfigFile ==
  [state : {"whole", "cut", "broken"}, foreign : BOOLEAN, maia : [Sections -> McpEntries]]
Empty == [state |-> "whole", foreign |-> TRUE, maia |-> [s \in Sections |-> NoEntry]]

\* readJson throws on a file that is not JSON; TOML is only checked for its
\* structure, which a file cut between two lines may keep.
ReadJson(file) == file.state \in {"absent", "whole"}
ValidateTomlStructure(file) == file.state # "broken"

\* The Continue file is Maia's own, and is not read before it is written.
ValidateAgentMcpEntryRemoval(t, file) ==
  CASE t.format = "continue-mcp-block" -> TRUE
    [] t.format = "toml-mcp-servers" -> ValidateTomlStructure(file)
    [] OTHER -> ReadJson(file)

InjectMcpServers(file, t) ==
  LET data == IF file = NoFile THEN Empty ELSE file
  IN [data EXCEPT !.maia[TopKey(t.format)] = McpEntry(t)]

\* A context server has no type and no working directory.
InjectZedSettings(file, t) ==
  LET data == IF file = NoFile THEN Empty ELSE file
  IN [data EXCEPT !.maia[TopKey(t.format)] = [McpEntry(t) EXCEPT !.stdio = FALSE, !.cwd = FALSE]]

\* The table [mcp_servers.maia], and every line maia = {...}, whose ever it is.
RemoveTomlMcpEntryText(file) ==
  [file EXCEPT !.maia["mcp_servers"] = NoEntry, !.maia["inline"] = NoEntry]

InjectTomlMcpServers(file, t) ==
  LET data == IF file = NoFile THEN Empty ELSE RemoveTomlMcpEntryText(file)
  IN [data EXCEPT !.maia["mcp_servers"] = [McpEntry(t) EXCEPT !.stdio = FALSE]]

RenderContinueMcpBlock(t) ==
  [Empty EXCEPT !.maia["document"] = [McpEntry(t) EXCEPT !.stdio = TRUE, !.cwd = FALSE]]

Inject(t, file) ==
  CASE t.format = "zed-settings" -> InjectZedSettings(file, t)
    [] t.format = "toml-mcp-servers" -> InjectTomlMcpServers(file, t)
    [] t.format = "continue-mcp-block" -> RenderContinueMcpBlock(t)
    [] OTHER -> InjectMcpServers(file, t)

RemoveProxyEntry(file, format) == [file EXCEPT !.maia[TopKey(format)] = NoEntry]

RemoveAgentMcpEntry(t, file) ==
  IF file = NoFile \/ t.format = "continue-mcp-block" THEN NoFile
  ELSE IF t.format = "toml-mcp-servers" THEN RemoveTomlMcpEntryText(file)
  ELSE RemoveProxyEntry(file, t.format)

Registered(t, file) ==
  /\ file.state \in {"whole", "cut"}
  /\ file.maia[TopKey(t.format)] = Inject(t, NoFile).maia[TopKey(t.format)]

\* Cline's settings: the project's entry, which may be an outdated one, and
\* the entries of projects that are gone.
Settings ==
  [state: {"whole", "broken"}, entry: {"none", "old", "current"}, stale: BOOLEAN,
   foreign: BOOLEAN] \cup {NoFile}
InspectClineGlobalEntry(file) == [current |-> file.entry = "current", stale |-> file.stale]
UpsertClineGlobalEntry(file) == [file EXCEPT !.entry = "current"]
RemoveClineGlobalEntry(file) == [file EXCEPT !.entry = "none"]
RemoveStaleEntries(file) == [file EXCEPT !.stale = FALSE]

Token(kind) == [kind |-> kind]
UserText == Token("user")
Start == Token("start")
End == Token("end")

\* Both look for the first start and the first end.
FirstOf(text, kind) == SelectInSeq(text, LAMBDA token : token.kind = kind)
HasBlock(text) ==
  /\ FirstOf(text, "start") # 0
  /\ FirstOf(text, "end") > FirstOf(text, "start")
Before(text) == SubSeq(text, 1, FirstOf(text, "start") - 1)
After(text) == SubSeq(text, FirstOf(text, "end") + 1, Len(text))

UpsertMarkedBlock(text, block) ==
  IF HasBlock(text) THEN Before(text) \o block \o After(text) ELSE text \o block

RemoveMarkedBlock(text) == IF HasBlock(text) THEN Before(text) \o After(text) ELSE text
=============================================================================
