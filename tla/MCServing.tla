----------------------------- MODULE MCServing -----------------------------
\* One MCP server, modern or legacy, over stdio or HTTP, or absent, or over a WebSocket;
\* another the agent is not authorized for; a skill, one more it is
\* denied, and a skill of the reserved name.
\* Three requests: a list or a call of anything, then a list, a stop or what changes
\* nothing, then a call of the server's tool.
EXTENDS McpServer

Held == [enabled |-> TRUE, allowedLlms |-> {"claude"}]
Denied == [Held EXCEPT !.allowedLlms = {}]
Disabled == [Held EXCEPT !.enabled = FALSE]
MCContents ==
  [p \in Packages |-> CASE p = "docs" -> {None, Held, Denied, Disabled}
                       [] p = "vault" -> {Denied}
                       [] p = "draft" -> {Denied}
                       [] OTHER -> {Held}]
Lock(docs) ==
  [p \in Packages |-> CASE p = "docs" -> docs [] p \in {"vault", "draft"} -> Denied [] OTHER -> Held]
MCLocks == {Lock(Held), Lock(None)}
MCSetups ==
  {[s \in Servers |-> setup] :
     setup \in [kind : Kinds \ {"ws"}, peer : Peers \ {"absent"}] \cup
               {[kind |-> "http", peer |-> "absent"], [kind |-> "ws", peer |-> "modern"]}}
MCSegment == [s \in Servers |-> <<s>>]
MCOffers == [s \in Servers |-> {"q"}]
MCExposed == [t \in {"q"} |-> <<"q", "r">>]
Proxied == ToProxiedToolName("docs", "q")
Form(method, envelope, param) == [method |-> method, envelope |-> envelope, param |-> param]
Listing == {Form("tools/list", "none", None)}
Call(name) == Form("tools/call", "none", name)
Calls == {Call(n) : n \in {Proxied, <<"plan">>, <<"draft">>, <<"maia_toolkits">>}}
MCForms ==
  [r \in Requests |->
     CASE r = 1 -> Listing \cup Calls
       [] r = 2 -> Listing \cup
                   {Form("shutdown", "none", None), Form("shutdown", "complete", None),
                    Form("tools/list", "partial", None), Form("server/discover", "complete", None)} \cup
                   {Form("initialize", "none", v) : v \in {None, "2025-06-18", "2026-07-28"}}
       [] OTHER -> {Call(Proxied)}]
=============================================================================
