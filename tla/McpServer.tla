----------------------------- MODULE McpServer -----------------------------
(***************************************************************************)
(* The MCP server maia is to an agent (McpStdioServer): it lists the tools *)
(* of every installed package and routes calls to them, over the links of  *)
(* McpClient for what other MCP servers expose. The agent does not wait    *)
(* for one answer before the next request, and other maia processes change *)
(* the catalog meanwhile. What standard input's end does is in McpSessions.*)
(*                                                                         *)
(* A tool's name is the sequence of its parts between the "__" that join   *)
(* them. Request 0 is the collection made before the first line is read.   *)
(***************************************************************************)
EXTENDS McpClient, Access, Sequences

CONSTANTS
  Servers,       \* packages that are MCP servers
  Locals,        \* packages that are skills or tools, by their names
  Segment,       \* the last segment of a server's name, as exposed
  Setups,        \* the transport and the peer of each
  Offers,        \* the tools each server has, by their own names
  Exposed,       \* a tool's name, sanitized
  AgentId, DefaultPolicy,
  Contents,      \* what the lock may say of each package; None when it is not there
  Locks,         \* what may be installed at first
  Forms,         \* what each request may be: method, envelope and parameter
  DynamicOptions, MaxEdits, MaxFaults

Packages == Servers \cup Locals
Start == 0
Outcomes ==
  {"listed", "forwarded", "executed", "toolkits", "notFound", "denied", "refused",
   "served", "failed", "stopped"}

\* Splitting a name at "__" gives at least one part.
ASSUME ServingAssumption ==
  /\ Requests = 0..(Cardinality(Requests) - 1) /\ Start \in Requests
  /\ Servers \cap Locals = {}
  /\ None \notin Packages \cup Outcomes
  /\ Setups \subseteq [Servers -> [kind : Kinds, peer : Peers]]
  /\ \A lock \in Locks : DOMAIN lock = Packages /\ \A p \in Packages : lock[p] \in Contents[p]
  /\ \A s \in Servers : Segment[s] \in Seq(STRING) \ {<<>>}
  /\ \A s \in Servers : \A tool \in Offers[s] : Exposed[tool] \in Seq(STRING) \ {<<>>}
  /\ DynamicOptions \subseteq BOOLEAN
  /\ AgentId # NoLlm
  /\ MaxEdits \in Nat /\ MaxFaults \in Nat

VARIABLES
  installed,   \* the lock: [enabled, allowedLlms] of each package, or None
  dynamic,     \* dynamicDiscovery
  link,        \* what there is of each MCP server
  request,     \* the requests, in the order they came
  arrived,     \* how many came
  cached,      \* cachedTools
  latest,      \* history: of the answered lists, the one asked for last, and whether an older
               \* request's collection ended after it
  authorized,  \* history: per request, the packages allowed at some moment of it
  usable,      \* history: the same, of the packages enabled and allowed
  said,        \* what the step that led here answered
  edits, faults

vars == <<installed, dynamic, link, request, arrived, cached, latest, authorized, usable,
          said, edits, faults>>

Entry(name, origin) == [name |-> name, origin |-> origin]
ReservedName == <<"maia_toolkits">>
ToolkitEntry == Entry(ReservedName, None)

ToProxiedToolName(s, tool) == Segment[s] \o Exposed[tool]

\* Mutant: the router splits at the last "__".
McpToolNameLast(name) == IF Len(name) = 1 THEN <<>> ELSE <<name[Len(name)]>>

\* The router splits the name again at its first "__".
McpToolName(name) == Tail(name)

ToolNames ==
  {ReservedName} \cup {<<p>> : p \in Locals} \cup
  UNION {{ToProxiedToolName(s, t) : t \in Offers[s]} : s \in Servers}
McpToolNames == {McpToolName(n) : n \in ToolNames}
Entries == {Entry(n, o) : n \in ToolNames, o \in Packages \cup {None}}

Expected == [doing |-> "expected", tools |-> {}, asked |-> {}, target |-> None, tool |-> <<>>]
Silence ==
  [outcome |-> None, name |-> <<>>, target |-> None, tools |-> {}, answering |-> {},
   authorized |-> {}, usable |-> {}]

Working == {"collecting", "calling", "stopping"}

-----------------------------------------------------------------------------
\* The catalog.

Kind(p) == IF p \in Servers THEN "mcp" ELSE "skill"
Enabled(p) == installed[p] # None /\ installed[p].enabled

\* A package that is not installed is judged by the default alone.
Allowed(p) ==
  LET list == IF installed[p] = None THEN NoList ELSE installed[p].allowedLlms
  IN MayUse(AgentId, Kind(p), p, list, DefaultPolicy)

AllowedNow == {p \in Packages : Allowed(p)}
UsableNow == {p \in Packages : Enabled(p) /\ Allowed(p)}

CollectLocalEntries ==
  {Entry(<<p>>, p) : p \in {q \in Locals : Enabled(q) /\ <<q>> # ReservedName /\ Allowed(q)}}

\* Mutant: servers that are installed are asked, disabled ones too.
InstalledServers == {s \in Servers : installed[s] # None}

EnabledServers == {s \in Servers : Enabled(s)}

\* Mutant: the origin names the tool, not the server.
CollectByTool(s) == {Entry(ToProxiedToolName(s, t), t) : t \in Offers[s]}

CollectMcpEntries(s) == {Entry(ToProxiedToolName(s, t), s) : t \in Offers[s]}

\* Mutant: access is asserted only when a session has to be started.
EnterOnStart(l, s, r, job, healthy) ==
  IF Running(l) \/ Allowed(s) THEN GetOrStartSession(l, r, job, installed[s] # None, healthy)
  ELSE [l EXCEPT !.ops[r].doing = "failed"]

\* Access is asserted before the session is looked up.
Enter(l, s, r, job, healthy) ==
  IF Allowed(s) THEN GetOrStartSession(l, r, job, installed[s] # None, healthy)
  ELSE [l EXCEPT !.ops[r].doing = "failed"]

-----------------------------------------------------------------------------
\* tools/list.

Collecting(r, asked) ==
  /\ link' = [s \in Servers |-> IF s \in asked THEN Enter(link[s], s, r, "list", TRUE) ELSE link[s]]
  /\ request' = [request EXCEPT ![r].doing = "collecting", ![r].tools = CollectLocalEntries,
                                ![r].asked = asked]
  /\ said' = Silence

\* Every server has answered or has been skipped.
Collected(r) ==
  /\ request[r].doing = "collecting"
  /\ \A s \in request[r].asked : link[s].ops[r].doing \in {"done", "failed"}

Answering(r) == {s \in request[r].asked : link[s].ops[r].doing = "done"}
CollectAllTools(r) ==
  {ToolkitEntry} \cup request[r].tools \cup UNION {CollectMcpEntries(s) : s \in Answering(r)}

Since(r, history, now) == IF request[r].doing = "expected" THEN now ELSE history[r]
Authorized(r) == Since(r, authorized, AllowedNow)
Usable(r) == Since(r, usable, UsableNow)
Witness(r) ==
  LET over == request'[r].doing = "answered"
  IN /\ authorized' = [authorized EXCEPT ![r] = IF over THEN {} ELSE Authorized(r)]
     /\ usable' = [usable EXCEPT ![r] = IF over THEN {} ELSE Usable(r)]

\* A request that was answered is forgotten, with the clients nobody refers to.
Forget(l, r) ==
  LET ops == [l.ops EXCEPT ![r] = NoOperation]
      held == {l.session} \cup {ops[q].via : q \in Requests}
  IN [l EXCEPT !.ops = ops, !.clients = [c \in Requests |-> IF c \in held THEN @[c] ELSE NoClient]]

Answer(r, reply) ==
  /\ said' = [reply EXCEPT !.authorized = Authorized(r), !.usable = Usable(r)]
  /\ request' = [request EXCEPT ![r] = [Expected EXCEPT !.doing = "answered"]]
  /\ link' = [s \in Servers |-> Forget(link[s], r)]

\* The start's collection is not an answer, but the first list the agent may go by.
Told(from, tools) ==
  latest' = IF latest.from <= from
            THEN [from |-> from, names |-> {e.name : e \in tools}, overtaken |-> FALSE]
            ELSE [latest EXCEPT !.overtaken = TRUE]

\* Mutant: the collection of the start is the one that is kept.
KeepCache(r) == cached' = IF r = Start THEN CollectAllTools(r) ELSE cached

Refresh(r) == cached' = CollectAllTools(r)

HandleToolsList(r) ==
  /\ Collected(r)
  /\ Refresh(r)
  /\ Told(r, CollectAllTools(r))
  /\ Answer(r, [Silence EXCEPT !.outcome = "listed", !.tools = CollectAllTools(r),
                               !.answering = Answering(r)])
  /\ Witness(r)
  /\ UNCHANGED <<installed, dynamic, arrived, edits, faults>>

ToolsList(r) ==
  \/ dynamic /\ Collecting(r, EnabledServers) /\ UNCHANGED latest
  \/ /\ ~dynamic
     /\ Answer(r, [Silence EXCEPT !.outcome = "listed", !.tools = cached])
     /\ Told(Start, cached)

-----------------------------------------------------------------------------
\* tools/call.

Called(outcome, name, target) ==
  [Silence EXCEPT !.outcome = outcome, !.name = name, !.target = target]

\* What a local package does is not modelled: it succeeds or fails.
CallLocal(r, name) ==
  LET found == {p \in Locals : Enabled(p) /\ <<p>> = name}
  IN \/ found = {} /\ Answer(r, Called("notFound", name, None))
     \/ \E p \in found :
          \/ ~Allowed(p) /\ Answer(r, Called("denied", name, p))
          \/ Allowed(p) /\ \E outcome \in {"executed", "failed"} : Answer(r, Called(outcome, name, p))

CallServer(r, s, tool) ==
  \E healthy \in BOOLEAN :
    /\ link' = [link EXCEPT ![s] = Enter(@, s, r, "call", healthy)]
    /\ request' = [request EXCEPT ![r].doing = "calling", ![r].target = s, ![r].tool = tool]
    /\ said' = Silence

RouteToolCall(r, name) ==
  LET proxied == {e \in cached : e.name = name /\ e.origin \in Servers}
  IN \/ name = ReservedName /\ Answer(r, Called("toolkits", name, None))
     \/ name # ReservedName /\ \E e \in proxied : CallServer(r, e.origin, McpToolName(name))
     \/ name # ReservedName /\ proxied = {} /\ CallLocal(r, name)

HandleToolsCall(r) ==
  /\ request[r].doing = "calling"
  /\ LET s == request[r].target
     IN \/ link[s].ops[r].doing = "done" /\ Answer(r, Called("forwarded", request[r].tool, s))
        \/ link[s].ops[r].doing = "failed" /\ Answer(r, Called("failed", <<>>, s))
  /\ Witness(r)
  /\ UNCHANGED <<installed, dynamic, arrived, cached, latest, edits, faults>>

-----------------------------------------------------------------------------
\* Other requests.

Sessions == {s \in Servers : link[s].session # None}

\* shutdownAll: the sessions of the moment, one after the other.
ShutDown(r) ==
  /\ request' = [request EXCEPT ![r].doing = "stopping", ![r].asked = Sessions]
  /\ said' = Silence
  /\ UNCHANGED link

StopNext(r) ==
  /\ request[r].doing = "stopping"
  /\ \A s \in Servers : link[s].ops[r].doing \in {None, "done"}
  /\ \/ \E s \in {t \in request[r].asked : link[t].ops[r].doing = None} :
          /\ link' = [link EXCEPT ![s] = StopSession(@, r)]
          /\ said' = Silence
          /\ UNCHANGED request
     \/ /\ \A s \in request[r].asked : link[s].ops[r].doing = "done"
        /\ Answer(r, Called("stopped", <<>>, None))
  /\ Witness(r)
  /\ UNCHANGED <<installed, dynamic, arrived, cached, latest, edits, faults>>

StopRejected(r) ==
  /\ request[r].doing = "stopping"
  /\ \E s \in request[r].asked : link[s].ops[r].doing = "failed"
  /\ Answer(r, Called("failed", <<>>, None))
  /\ Witness(r)
  /\ UNCHANGED <<installed, dynamic, arrived, cached, latest, edits, faults>>

LegacyRevisions == <<"2025-11-25", "2025-06-18", "2024-11-05">>

\* An omitted revision is the newest, one that is known is echoed; no other is
\* answered with one of ours.
NegotiateMcpProtocolVersion(revision) ==
  CASE revision = None -> LegacyRevisions[1]
    [] \E i \in DOMAIN LegacyRevisions : LegacyRevisions[i] = revision -> revision
    [] OTHER -> None

\* A modern request says so in its envelope, which has to name the revision
\* ("foreign" names another) and, for what is modern, to be complete.
ModernMethods == {"server/discover", "tools/list", "tools/call"}
LegacyMethods == {"ping", "shutdown"}
EitherMethods == {"initialize", "notifications/initialized"}

Refused(form) ==
  \/ form.envelope = "foreign"
  \/ form.envelope = "partial" /\ form.method \in ModernMethods
  \/ form.envelope = "none" /\ form.method = "server/discover"
  \/ form.envelope # "none" /\ form.method \in LegacyMethods
  \/ form.method = "initialize" /\ NegotiateMcpProtocolVersion(form.param) = None
  \/ form.method \notin ModernMethods \cup LegacyMethods \cup EitherMethods

Handle(r, form) ==
  IF Refused(form) THEN Answer(r, Called("refused", <<>>, None)) /\ UNCHANGED latest
  ELSE CASE form.method = "tools/list" -> ToolsList(r)
         [] form.method = "tools/call" -> RouteToolCall(r, form.param) /\ UNCHANGED latest
         [] form.method = "shutdown" -> ShutDown(r) /\ UNCHANGED latest
         [] OTHER -> Answer(r, Called("served", <<>>, None)) /\ UNCHANGED latest

\* The start's collection is answered before the first line is read.
Arrive(r) ==
  /\ r = arrived + 1 /\ r \in Requests
  /\ request[Start].doing = "answered"
  /\ arrived' = r
  /\ \E form \in Forms[r] : Handle(r, form)
  /\ Witness(r)
  /\ UNCHANGED <<installed, dynamic, cached, edits, faults>>

-----------------------------------------------------------------------------
\* The servers and the other processes.

untouched == <<installed, dynamic, request, arrived, cached, latest, authorized,
               usable, edits>>

\* What nobody expects counts; that a peer which is not there does not answer is expected.
Mishap(expected) ==
  IF expected THEN UNCHANGED faults ELSE faults < MaxFaults /\ faults' = faults + 1

\* The peer answers an operation, in any order.
PeerAnswers(s, r) ==
  /\ Pending(link[s], r)
  /\ \E reply \in Replies(link[s], link[s].ops[r].doing) :
       link' = [link EXCEPT ![s] = Answered(@, r, reply)]
  /\ said' = Silence
  /\ UNCHANGED <<untouched, faults>>

\* An operation fails on the way, or the peer is not there at all.
OperationFaults(s, r) ==
  /\ Pending(link[s], r)
  /\ Mishap(link[s].peer = "absent")
  /\ \E error \in Faults(link[s].kind) :
       link' = [link EXCEPT ![s] = SettleFailed(@, r, error)]
  /\ said' = Silence
  /\ UNCHANGED untouched

\* A process exits, or a connection drops; a process that was told to terminate is to
\* exit. Of a transport already closed only what waits on it notices.
TransportEnds(s, c) ==
  /\ ~IsHttp(link[s].kind) /\ ~link[s].clients[c].gone
  /\ \/ link[s].clients[c].open
     \/ \E r \in Requests : Pending(link[s], r) /\ link[s].ops[r].via = c
  /\ Mishap(link[s].peer = "absent" \/ ~link[s].clients[c].open)
  /\ link' = [link EXCEPT ![s] = EndClient(@, c)]
  /\ said' = Silence
  /\ UNCHANGED untouched

\* failAllPending: what waits on a transport that has ended fails, in any order.
EndedUnder(s, r) ==
  /\ Asks(link[s], r) /\ ~Pending(link[s], r)
  /\ link' = [link EXCEPT ![s] = SettleFailed(@, r, LastWord(@, @.ops[r].via))]
  /\ said' = Silence
  /\ UNCHANGED <<untouched, faults>>

\* Another process installs, removes, enables or authorizes a package.
EditCatalog(p) ==
  /\ edits < MaxEdits
  /\ edits' = edits + 1
  /\ \E entry \in Contents[p] :
       entry # installed[p] /\ installed' = [installed EXCEPT ![p] = entry]
  /\ authorized' = [r \in Requests |->
       IF request[r].doing \in Working THEN authorized[r] \cup AllowedNow' ELSE authorized[r]]
  /\ usable' = [r \in Requests |->
       IF request[r].doing \in Working THEN usable[r] \cup UsableNow' ELSE usable[r]]
  /\ said' = Silence
  /\ UNCHANGED <<dynamic, link, request, arrived, cached, latest, faults>>

Init ==
  /\ installed \in Locks
  /\ dynamic \in DynamicOptions
  /\ \E setup \in Setups :
       link = [s \in Servers |->
                 LET l == NewLink(setup[s].kind, setup[s].peer)
                 IN IF Enabled(s) THEN Enter(l, s, Start, "list", TRUE) ELSE l]
  /\ request = [r \in Requests |->
                  IF r # Start THEN Expected
                  ELSE [Expected EXCEPT !.doing = "collecting", !.tools = CollectLocalEntries,
                                        !.asked = EnabledServers]]
  /\ arrived = 0
  /\ cached = {}
  /\ latest = [from |-> Start, names |-> {}, overtaken |-> FALSE]
  /\ authorized = [r \in Requests |-> IF r = Start THEN AllowedNow ELSE {}]
  /\ usable = [r \in Requests |-> IF r = Start THEN UsableNow ELSE {}]
  /\ said = Silence
  /\ edits = 0 /\ faults = 0

\* Nothing more is asked.
Quiet ==
  /\ \A r \in Requests : request[r].doing = "answered"
  /\ \A s \in Servers, r \in Requests : ~Asks(link[s], r)
  /\ UNCHANGED vars

Next ==
  \/ \E r \in Requests :
       \/ Arrive(r)
       \/ HandleToolsList(r)
       \/ HandleToolsCall(r)
       \/ StopNext(r)
       \/ StopRejected(r)
       \/ \E s \in Servers :
            PeerAnswers(s, r) \/ OperationFaults(s, r) \/ TransportEnds(s, r) \/ EndedUnder(s, r)
  \/ \E p \in Packages : EditCatalog(p)
  \/ Quiet

Spec == Init /\ [][Next]_vars

-----------------------------------------------------------------------------
TypeOK ==
  /\ \A p \in Packages : installed[p] \in Contents[p]
  /\ dynamic \in BOOLEAN
  /\ link \in [Servers -> Link]
  /\ \A r \in Requests :
       /\ request[r].doing \in Working \cup {"expected", "answered"}
       /\ request[r].tools \subseteq Entries
       /\ request[r].asked \subseteq Servers
       /\ request[r].target \in Packages \cup {None}
       /\ request[r].tool \in McpToolNames
  /\ arrived \in Requests
  /\ cached \subseteq Entries
  /\ latest.from \in Requests /\ latest.names \subseteq ToolNames /\ latest.overtaken \in BOOLEAN
  /\ authorized \in [Requests -> SUBSET Packages] /\ usable \in [Requests -> SUBSET Packages]
  /\ said.outcome \in Outcomes \cup {None} /\ said.tools \subseteq Entries
  /\ said.authorized \subseteq Packages /\ said.usable \subseteq Packages
  /\ edits \in 0..MaxEdits /\ faults \in 0..MaxFaults

\* Dynamic discovery (handleToolsList, collectAllTools): a list only has tools of
\* packages that at some moment since it was asked for were enabled, with the agent
\* authorized for them, whatever an earlier list found; and it has all the tools of
\* every server that answered: one that fails, is denied or is gone hides no other.
ListIsCurrent ==
  dynamic /\ said.outcome = "listed" =>
    /\ \A e \in said.tools : e = ToolkitEntry \/ e.origin \in said.usable
    /\ \A s \in said.answering : CollectMcpEntries(s) \subseteq said.tools

\* Access (assertLlmAccess, routeToolCall): whatever was listed to the agent before,
\* a call reaches a server or executes a package only if the agent was authorized
\* for it at some moment since the call arrived.
AccessRechecked ==
  /\ said.outcome \in {"forwarded", "executed"} => said.target \in said.authorized
  /\ \A s \in Servers, r \in Requests :
       link[s].ops[r].job = "call" /\ Asks(link[s], r) => s \in authorized[r]

\* Routing by the cached list (stdio.ts:245, router.ts:32): a tool of an MCP server
\* that the newest answered list has is not "not found" or taken for a local
\* package, unless the collection of an older request ended after that list's.
ListedIsRouted ==
  /\ said.outcome \in {"notFound", "denied", "executed"}
  /\ said.name \in latest.names
  /\ \E s \in Servers : \E t \in Offers[s] : said.name = ToProxiedToolName(s, t)
  => latest.overtaken

\* Forwarding (routeToolCall, toProxiedToolName): the name a server is called with is
\* that of a tool of this server, as it was sanitized to be listed, provided the
\* server's own name has no "__" for the router to split at; whatever was refreshed or
\* edited since the list the agent goes by.
ForwardedAsExposed ==
  \A r \in Requests :
    request[r].doing = "calling" /\ Len(Segment[request[r].target]) = 1 =>
      request[r].tool \in {Exposed[t] : t \in Offers[request[r].target]}

\* Negotiation (JsonRpcMcpClient): a peer that has shown itself modern is never
\* spoken to as a legacy one on that client, and one that has negotiated a legacy
\* revision gets no modern envelope, whoever stops or replaces the session while
\* an operation waits.
NoDowngrade ==
  \A s \in Servers, r \in Requests :
    LET op == link[s].ops[r]
    IN Asks(link[s], r) =>
         LET peer == link[s].clients[op.via]
         IN /\ peer.shown => op.envelope = "modern"
            /\ peer.era = "legacy" => op.envelope = "legacy"
=============================================================================
