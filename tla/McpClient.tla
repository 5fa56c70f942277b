----------------------------- MODULE McpClient -----------------------------
(***************************************************************************)
(* The MCP server behind one package, and what the manager has of it: the  *)
(* session, the JSON-RPC clients made for it and the operations waiting on *)
(* them. A client finds out which era of the protocol its peer speaks: it  *)
(* probes modern discovery and falls back to the legacy handshake only     *)
(* when the failure does not say that the peer is modern.                  *)
(*                                                                         *)
(* A link is the record of one server. Operations are known by the request *)
(* they serve, a client by the request that made it. A step that awaits    *)
(* only what has already been settled is not split: McpSessions does that, *)
(* and has the retries, which are left out here.                           *)
(***************************************************************************)
EXTENDS Naturals, FiniteSets

CONSTANTS
  Requests,    \* the requests the agent sends; each is served once
  Kinds,       \* the kinds of transport
  Peers,       \* what a server may be: modern, legacy, both or absent
  None

\* How one operation fails on the way. What else a process or a socket reports, its own
\* end, is the end of all that waits on it.
IsHttp(kind) == kind \in {"http", "sse"}
Faults(kind) == {"timeout"} \cup (IF IsHttp(kind) THEN {"status4xx", "status5xx"} ELSE {})

Client ==
  [status : {None, "starting", "running", "failed", "stopped"},
   era : {None, "modern", "legacy"},   \* set exactly when initialized is
   open : BOOLEAN,                     \* the transport's flag
   gone : BOOLEAN,                     \* the process has exited, the socket has closed
   listed : BOOLEAN,                   \* the tools are known
   shown : BOOLEAN]                    \* the peer has answered as a modern one does
NoClient == [status |-> None, era |-> None, open |-> FALSE, gone |-> FALSE,
             listed |-> FALSE, shown |-> FALSE]
NewClient == [NoClient EXCEPT !.status = "starting", !.open = TRUE]

Asking == {"probing", "initializing", "listing", "checking", "preparing", "calling", "stopping"}
Operation ==
  [job : {None, "list", "call", "stop"},
   doing : Asking \cup {None, "done", "failed"},
   via : Requests \cup {None},
   envelope : {None, "modern", "legacy"}]
NoOperation == [job |-> None, doing |-> None, via |-> None, envelope |-> None]

ASSUME ClientAssumption ==
  /\ None \notin Requests
  /\ None \notin Asking \cup {"done", "failed"}
  /\ None \notin {"starting", "running", "failed", "stopped"} \cup {"modern", "legacy"} \cup
                 {"list", "call", "stop"}

Link ==
  [kind : Kinds, peer : Peers, session : Requests \cup {None},
   clients : [Requests -> Client], ops : [Requests -> Operation]]
NewLink(kind, peer) ==
  [kind |-> kind, peer |-> peer, session |-> None,
   clients |-> [q \in Requests |-> NoClient], ops |-> [q \in Requests |-> NoOperation]]

-----------------------------------------------------------------------------
\* Ending an operation.

CloseClient(link, c) == [link EXCEPT !.clients[c].open = FALSE]

InvalidateSession(link) ==
  IF link.session = None THEN link
  ELSE [CloseClient(link, link.session) EXCEPT
          !.clients[link.session].status = "failed", !.session = None]

\* A peer that answered with an error keeps its session, except when listing.
ShouldInvalidate(error) == error \in {"timeout", "status4xx", "status5xx", "exited", "closed"}

Failed(link, r, error) ==
  LET over == [link EXCEPT !.ops[r].doing = "failed"]
  IN IF link.ops[r].job = "list" \/ (link.ops[r].job = "call" /\ ShouldInvalidate(error))
     THEN InvalidateSession(over) ELSE over

Done(link, r) == [link EXCEPT !.ops[r].doing = "done"]

-----------------------------------------------------------------------------
\* One request on the client's transport.

Era(link, c) == link.clients[c].era

\* Only after modern negotiation do parameters carry the modern envelope.
Envelope(link, c) == IF Era(link, c) = "modern" THEN "modern" ELSE "legacy"

Ask(link, r, c, doing, envelope) ==
  IF link.clients[c].open
  THEN [link EXCEPT !.ops[r].doing = doing, !.ops[r].via = c, !.ops[r].envelope = envelope]
  ELSE Failed(link, r, "closed")

\* server/discover; a client initializes itself before its first operation.
Probe(link, r, c) == Ask(link, r, c, "probing", "modern")

ListTools(link, r, c, doing) ==
  IF Era(link, c) = None THEN Probe(link, r, c)
  ELSE Ask(link, r, c, doing, Envelope(link, c))

SendCall(link, r, c) == Ask(link, r, c, "calling", Envelope(link, c))

\* Over HTTP the parameter headers of a modern call come from the tool's schema.
CallTool(link, r, c) ==
  IF Era(link, c) = None THEN Probe(link, r, c)
  ELSE IF Era(link, c) = "modern" /\ IsHttp(link.kind) /\ ~link.clients[c].listed
       THEN ListTools(link, r, c, "preparing")
       ELSE SendCall(link, r, c)

\* What the manager does once it has a session; a session not seen healthy for a
\* while is checked before a call.
UseSession(link, r, c, healthy) ==
  IF link.ops[r].job = "list" THEN ListTools(link, r, c, "listing")
  ELSE IF healthy THEN CallTool(link, r, c)
  ELSE ListTools(link, r, c, "checking")

-----------------------------------------------------------------------------
\* The session.

StartSession(link, r, installed) ==
  IF ~installed THEN Failed(link, r, "notInstalled")
  ELSE Probe([link EXCEPT !.clients[r] = NewClient, !.session = r], r, r)

Running(link) ==
  /\ link.session # None
  /\ link.clients[link.session].status = "running"
  /\ link.clients[link.session].open

GetOrStartSession(link, r, job, installed, healthy) ==
  LET begun == [link EXCEPT !.ops[r].job = job]
  IN IF Running(link) THEN UseSession(begun, r, link.session, healthy)
     ELSE StartSession(InvalidateSession(begun), r, installed)

\* The entry is deleted by the server's name, whoever's session it holds by now.
StartFailed(link, r, error) ==
  Failed([CloseClient(link, r) EXCEPT !.clients[r].status = "failed", !.session = None], r, error)

\* A legacy peer is then notified; that this fails is no different from the handshake
\* failing.
Negotiated(link, r, era) ==
  LET c == link.ops[r].via
  IN UseSession([link EXCEPT !.clients[c].era = era, !.clients[c].status = "running"], r, c, TRUE)

ShouldFallbackToLegacy(error, kind) ==
  CASE error \in {"methodNotFound", "protocolError"} -> error = "methodNotFound"
    [] error \in {"status4xx", "status5xx"} -> error = "status4xx"
    [] error \in {"exited", "closed"} -> FALSE
    [] OTHER -> ~IsHttp(kind)

\* A handshake is part of starting a session, or of the operation that found the
\* client cleared.
InitializeFailed(link, r, error) ==
  IF link.ops[r].via = r THEN StartFailed(link, r, error) ELSE Failed(link, r, error)

ProbeFailed(link, r, error) ==
  LET c == link.ops[r].via
  IN IF ~ShouldFallbackToLegacy(error, link.kind) THEN InitializeFailed(link, r, error)
     ELSE IF link.clients[c].open THEN Ask(link, r, c, "initializing", "legacy")
     ELSE InitializeFailed(link, r, "closed")

-----------------------------------------------------------------------------
\* What a peer answers to each request, and what comes of it.

Replies(link, doing) ==
  CASE doing = "probing" ->
         CASE link.peer = "modern" -> {"advertised", "otherRevision", "protocolError"}
           [] link.peer = "legacy" -> {"methodNotFound"}
           [] link.peer = "both" -> {"advertised"}
           [] OTHER -> {}
    [] doing = "initializing" ->
         IF link.peer = "modern" THEN {"methodNotFound"} ELSE {"legacyRevision", "otherRevision"}
    [] OTHER -> {"result", "protocolError"}

\* close() settles what is pending on a socket only. A process told to terminate may
\* still answer, or let a request time out, until it exits; a fetch goes on.
Asks(link, r) == link.ops[r].doing \in Asking
Severed(link, c) == link.clients[c].gone \/ (link.kind = "ws" /\ ~link.clients[c].open)
Pending(link, r) == Asks(link, r) /\ ~Severed(link, link.ops[r].via)

\* The process or the socket reports its end, for all that waits on it. The error a socket
\* reports before it closes is not told from its closing.
EndClient(link, c) == [CloseClient(link, c) EXCEPT !.clients[c].gone = TRUE]
LastWord(link, c) ==
  CASE ~link.clients[c].gone -> "closed"
    [] link.kind = "ws" -> "dropped"
    [] OTHER -> "exited"

Discovered(link, r, reply) ==
  LET shown == [link EXCEPT !.clients[link.ops[r].via].shown = @ \/ reply # "methodNotFound"]
  IN CASE reply = "advertised" -> Negotiated(shown, r, "modern")
       [] reply = "otherRevision" -> InitializeFailed(shown, r, reply)
       [] OTHER -> ProbeFailed(shown, r, reply)

Listed(link, r) ==
  LET c == link.ops[r].via
      known == [link EXCEPT !.clients[c].listed = TRUE]
  IN CASE link.ops[r].doing = "listing" -> Done(known, r)
       [] link.ops[r].doing = "checking" -> CallTool(known, r, c)
       [] link.ops[r].doing = "preparing" -> SendCall(known, r, c)

\* Mutant: a stopped session's transport stays open.
ClearedOpen(link, r) ==
  LET c == link.ops[r].via
  IN Done([link EXCEPT !.clients[c].era = None, !.clients[c].listed = FALSE,
                       !.clients[c].status = "stopped", !.session = None], r)

\* Legacy peers are asked to shut down and told to exit; then everything is cleared.
Cleared(link, r) ==
  LET c == link.ops[r].via
  IN Done([CloseClient(link, c) EXCEPT !.clients[c].era = None, !.clients[c].listed = FALSE,
                                       !.clients[c].status = "stopped", !.session = None], r)

StopFailed(link, r, error) ==
  LET c == link.ops[r].via
  IN Failed([CloseClient(link, c) EXCEPT !.clients[c].status = "stopped", !.session = None], r, error)

StopSession(link, r) ==
  IF link.session = None THEN [link EXCEPT !.ops[r].job = "stop", !.ops[r].doing = "done"]
  ELSE LET begun == [link EXCEPT !.ops[r].job = "stop", !.ops[r].via = link.session]
       IN IF Era(link, link.session) # "legacy" THEN Cleared(begun, r)
          ELSE IF link.clients[link.session].open THEN Ask(begun, r, link.session, "stopping", "legacy")
          ELSE StopFailed(begun, r, "closed")

SettleFailed(link, r, error) ==
  CASE link.ops[r].doing = "probing" -> ProbeFailed(link, r, error)
    [] link.ops[r].doing = "initializing" -> InitializeFailed(link, r, error)
    [] link.ops[r].doing = "stopping" -> StopFailed(link, r, error)
    [] OTHER -> Failed(link, r, error)

Answered(link, r, reply) ==
  LET doing == link.ops[r].doing
  IN CASE doing = "probing" -> Discovered(link, r, reply)
       [] doing = "initializing" /\ reply = "legacyRevision" ->
            IF link.clients[link.ops[r].via].open THEN Negotiated(link, r, "legacy")
            ELSE InitializeFailed(link, r, "closed")
       [] doing # "probing" /\ reply \notin {"result", "legacyRevision"} ->
            SettleFailed(link, r, reply)
       [] doing = "calling" /\ reply = "result" -> Done(link, r)
       [] doing = "stopping" /\ reply = "result" -> Cleared(link, r)
       [] OTHER -> Listed(link, r)
=============================================================================
