----------------------------- MODULE Transport -----------------------------
(***************************************************************************)
(* The transports a client speaks JSON-RPC over, and the requests under    *)
(* way on one of them: McpStdioTransport ("stdio", which the npx transport *)
(* wraps), McpWebSocketTransport ("ws") and McpHttpTransport ("http", which*)
(* McpSseTransport repeats).                                               *)
(*                                                                         *)
(* A message is known by its id and by the request it answers. The server  *)
(* answers what it received, in any order, late, repeatedly or never. A    *)
(* call makes one request; id 0 is none.                                   *)
(***************************************************************************)
EXTENDS Naturals, FiniteSets

CONSTANTS
  Calls,    \* requests made on the transport
  Timed,    \* the ones made with a positive timeout
  Kinds,    \* the kinds of transport
  NoCall

Ids == 1..Cardinality(Calls)

ASSUME TransportAssumption ==
  /\ IsFiniteSet(Calls)
  /\ NoCall \notin Calls
  /\ Timed \subseteq Calls
  /\ Kinds \subseteq {"stdio", "ws", "http"}

VARIABLES
  kind,       \* of the transport
  open,       \* the flag isOpen() returns
  link,       \* the process, or the socket
  opened,     \* the socket's openPromise
  nextId,     \* nextRequestId
  pending,    \* the map of pending requests
  received,   \* what the server can answer: for each id, the request that had it
  pc,         \* how far each call is
  id,         \* its request's id
  outcome,    \* how its promise was settled
  answers     \* for an answered call, the request the answer was written for

callVars == <<pc, id, outcome, answers>>
vars == <<kind, open, link, opened, nextId, pending, received, callVars>>

Outcomes == {"answered", "closed", "ended", "unopened", "timeout", "failed"}

TypeOK ==
  /\ kind \in Kinds
  /\ open \in BOOLEAN
  /\ link \in {"connecting", "up", "broken", "ended"}
  /\ opened \in {"pending", "resolved", "rejected"}
  /\ nextId \in Ids \cup {Cardinality(Calls) + 1}
  /\ pending \in [Ids -> Calls \cup {NoCall}]
  /\ received \in [Ids -> Calls \cup {NoCall}]
  /\ pc \in [Calls -> {"idle", "opening", "awaiting", "settled"}]
  /\ id \in [Calls -> Ids \cup {0}]
  /\ outcome \in [Calls -> Outcomes \cup {"none"}]
  /\ answers \in [Calls -> Calls \cup {NoCall}]

-----------------------------------------------------------------------------
\* Settling promises.

\* The promises of the calls in S are settled with o.
SettleAll(S, o) ==
  /\ pc' = [c \in Calls |-> IF c \in S THEN "settled" ELSE pc[c]]
  /\ outcome' = [c \in Calls |-> IF c \in S THEN o ELSE outcome[c]]

Reject(c, o) == SettleAll({c}, o) /\ UNCHANGED <<id, answers>>

Forget(i) == pending' = [pending EXCEPT ![i] = NoCall]

\* Faulty variant of FailAllPending: the map keeps the entries.
FailAllPendingKeeps(o) ==
  /\ SettleAll({c \in Calls : \E i \in Ids : pending[i] = c}, o)
  /\ UNCHANGED <<id, answers, pending>>

\* failAllPending
FailAllPending(o) ==
  /\ SettleAll({c \in Calls : \E i \in Ids : pending[i] = c}, o)
  /\ pending' = [i \in Ids |-> NoCall]
  /\ UNCHANGED <<id, answers>>

-----------------------------------------------------------------------------
\* request(). An HTTP request is a fetch of its own: nothing is pending.

\* Faulty variant of Send: the id is not taken.
SendReusesId(c) ==
  /\ id' = [id EXCEPT ![c] = nextId]
  /\ pending' = IF kind = "http" THEN pending ELSE [pending EXCEPT ![nextId] = c]
  /\ received' = IF link = "up" /\ open THEN [received EXCEPT ![nextId] = c] ELSE received
  /\ pc' = [pc EXCEPT ![c] = "awaiting"]
  /\ UNCHANGED <<kind, open, link, opened, nextId, outcome, answers>>

\* Faulty variant of Send: the counter is incremented before it is read.
SendPreIncrement(c) ==
  /\ nextId' = nextId + 1
  /\ id' = [id EXCEPT ![c] = nextId + 1]
  /\ pending' = IF kind = "http" THEN pending ELSE [pending EXCEPT ![nextId + 1] = c]
  /\ received' = IF link = "up" /\ open THEN [received EXCEPT ![nextId + 1] = c] ELSE received
  /\ pc' = [pc EXCEPT ![c] = "awaiting"]
  /\ UNCHANGED <<kind, open, link, opened, outcome, answers>>

\* The request is numbered, registered and written. What is written to a
\* socket that is closing or closed is dropped without an error.
Send(c) ==
  /\ nextId' = nextId + 1
  /\ id' = [id EXCEPT ![c] = nextId]
  /\ pending' = IF kind = "http" THEN pending ELSE [pending EXCEPT ![nextId] = c]
  /\ received' = IF link = "up" /\ open THEN [received EXCEPT ![nextId] = c] ELSE received
  /\ pc' = [pc EXCEPT ![c] = "awaiting"]
  /\ UNCHANGED <<kind, open, link, opened, outcome, answers>>

\* ensureOpen, and for a socket the await of openPromise.
Request(c) ==
  /\ pc[c] = "idle"
  /\ \/ /\ ~open
        /\ Reject(c, "closed")
        /\ UNCHANGED <<kind, open, link, opened, nextId, pending, received>>
     \/ open /\ kind # "ws" /\ Send(c)
     \/ /\ open /\ kind = "ws"
        /\ pc' = [pc EXCEPT ![c] = "opening"]
        /\ UNCHANGED <<kind, open, link, opened, nextId, pending, received, id, outcome, answers>>

\* Faulty variant of Resume: a transport closed meanwhile is noticed, and the
\* promise forgotten.
ResumeIfOpen(c) ==
  /\ pc[c] = "opening"
  /\ \/ open /\ opened = "resolved" /\ Send(c)
     \/ /\ opened = "rejected"
        /\ Reject(c, "unopened")
        /\ UNCHANGED <<kind, open, link, opened, nextId, pending, received>>

\* openPromise settled. Whether the transport is still open is not asked again.
Resume(c) ==
  /\ pc[c] = "opening"
  /\ \/ opened = "resolved" /\ Send(c)
     \/ /\ opened = "rejected"
        /\ Reject(c, "unopened")
        /\ UNCHANGED <<kind, open, link, opened, nextId, pending, received>>

-----------------------------------------------------------------------------
\* What settles a request.

\* onStdout and onMessage: a message with id i, written for the request that had
\* that id. One that no pending request has is ignored.
Answer(i) ==
  /\ kind # "http"
  /\ link # "ended"
  /\ received[i] # NoCall
  /\ pending[i] # NoCall
  /\ SettleAll({pending[i]}, "answered")
  /\ answers' = [answers EXCEPT ![pending[i]] = received[i]]
  /\ Forget(i)
  /\ UNCHANGED <<kind, open, link, opened, nextId, received, id>>

\* The response of an HTTP request is read, whatever id its body has.
HttpAnswer(c) ==
  /\ kind = "http"
  /\ pc[c] = "awaiting"
  /\ SettleAll({c}, "answered")
  /\ answers' = [answers EXCEPT ![c] = c]
  /\ UNCHANGED <<kind, open, link, opened, nextId, pending, received, id>>

\* ... or it is a failure: no connection, a bad status, no body, no JSON-RPC.
HttpFails(c) ==
  /\ kind = "http"
  /\ pc[c] = "awaiting"
  /\ Reject(c, "failed")
  /\ UNCHANGED <<kind, open, link, opened, nextId, pending, received>>

\* Faulty variant of Timeout: the entry stays.
TimeoutKeepsEntry(c) ==
  /\ c \in Timed
  /\ pc[c] = "awaiting"
  /\ Reject(c, "timeout")
  /\ UNCHANGED <<kind, open, link, opened, nextId, pending, received>>

\* The timer of a request, which starts when the request is sent.
Timeout(c) ==
  /\ c \in Timed
  /\ pc[c] = "awaiting"
  /\ Reject(c, "timeout")
  /\ IF kind = "http" THEN UNCHANGED pending ELSE Forget(id[c])
  /\ UNCHANGED <<kind, open, link, opened, nextId, received>>

\* close(). Only a socket's fails what is pending; a process told to terminate
\* may still answer, and an HTTP request goes on.
Close ==
  /\ open
  /\ open' = FALSE
  /\ IF kind = "ws" THEN FailAllPending("closed") ELSE UNCHANGED <<pending, callVars>>
  /\ UNCHANGED <<kind, link, opened, nextId, received>>

\* The socket's "open" event, which close() forestalls.
Opens ==
  /\ link = "connecting"
  /\ open
  /\ link' = "up"
  /\ opened' = "resolved"
  /\ UNCHANGED <<kind, open, nextId, pending, received, callVars>>

\* The socket's "error" event, which leaves the transport open until "close".
Breaks ==
  /\ kind = "ws"
  /\ link \in {"connecting", "up"}
  /\ link' = "broken"
  /\ opened' = IF opened = "pending" THEN "rejected" ELSE opened
  /\ FailAllPending("ended")
  /\ UNCHANGED <<kind, open, nextId, received>>

\* Faulty variant of Ends: the exit listener only lowers the flag.
EndsSilently ==
  /\ kind # "http"
  /\ link \in {"up", "broken"}
  /\ link' = "ended"
  /\ open' = FALSE
  /\ UNCHANGED <<kind, opened, nextId, received, pending, callVars>>

\* The process exits or could not be spawned; the socket's "close" event.
Ends ==
  /\ kind # "http"
  /\ link \in {"up", "broken"}
  /\ link' = "ended"
  /\ open' = FALSE
  /\ FailAllPending("ended")
  /\ UNCHANGED <<kind, opened, nextId, received>>

-----------------------------------------------------------------------------

Init ==
  /\ kind \in Kinds
  /\ open = TRUE
  /\ link = IF kind = "ws" THEN "connecting" ELSE "up"
  /\ opened = IF kind = "ws" THEN "pending" ELSE "resolved"
  /\ nextId = 1
  /\ pending = [i \in Ids |-> NoCall]
  /\ received = [i \in Ids |-> NoCall]
  /\ pc = [c \in Calls |-> "idle"]
  /\ id = [c \in Calls |-> 0]
  /\ outcome = [c \in Calls |-> "none"]
  /\ answers = [c \in Calls |-> NoCall]

Next ==
  \/ \E c \in Calls : Request(c) \/ Resume(c) \/ HttpAnswer(c) \/ HttpFails(c) \/ Timeout(c)
  \/ \E i \in Ids : Answer(i)
  \/ Close
  \/ Opens
  \/ Breaks
  \/ Ends

\* Timers fire, callbacks run, and connecting succeeds or fails (the runtime's
\* WebSocket gives up in the end). The server need not answer, nor the process
\* exit; close() need not be called.
Fairness ==
  /\ \A c \in Calls : WF_vars(Resume(c)) /\ WF_vars(Timeout(c))
  /\ WF_vars(Opens \/ (link = "connecting" /\ Breaks))

Spec == Init /\ [][Next]_vars /\ Fairness

-----------------------------------------------------------------------------
\* Properties.

\* A call is answered with the answer to its own request, however answers are
\* delayed, repeated or reordered around timeouts and closing.
OwnAnswer == \A c \in Calls : outcome[c] = "answered" => answers[c] = c

\* The map holds exactly the requests that were sent and not settled: none is
\* lost, and no entry outlives its promise.
PendingMatches ==
  kind # "http" =>
    \A c \in Calls, i \in Ids : pending[i] = c <=> (pc[c] = "awaiting" /\ id[c] = i)

\* When a child process is gone nobody waits for it.
ExitSettlesAll ==
  kind = "stdio" /\ link = "ended" => \A c \in Calls : pc[c] # "awaiting"

\* What a call is to its caller.
PromiseOf(c) ==
  IF pc[c] = "settled" THEN outcome[c]
  ELSE IF pc[c] = "idle" THEN "idle" ELSE "waiting"

Promise == INSTANCE Requests WITH promise <- [c \in Calls |-> PromiseOf(c)]

\* Each promise is settled once, with one outcome: Transport implements Requests.
RequestsSpec == Promise!RequestsSpec

\* A request with a timeout is settled, even on a socket that closed before the
\* request was written: its timer is what settles it then.
TimedSettle == \A c \in Timed : pc[c] # "idle" ~> pc[c] = "settled"
=============================================================================
