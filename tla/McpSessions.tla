---------------------------- MODULE McpSessions ----------------------------
(***************************************************************************)
(* The session map of AgentMcpManager and everything that changes it:      *)
(* getOrStartSession, invalidateSession, stopSession, the operations of    *)
(* the manager built on them, and the end of the stdio server that owns    *)
(* the manager.                                                            *)
(*                                                                         *)
(* Each operation is a task. A step is the code between two awaits; pc     *)
(* says what a task awaits. The map is shared and is read before an await  *)
(* and written after it, which is where the tasks meet. Some awaits only   *)
(* wait for their turn in the microtask queue (transport.close() does no   *)
(* waiting of its own): Draining lists them, and what comes from a timer   *)
(* or from the end of standard input waits until none is left.             *)
(*                                                                         *)
(* A session is known by the number of its creation. A session object      *)
(* keeps existing after it left the map, and so may its child process.     *)
(* Transports are seen here as stdio ones. Circuits and the length of      *)
(* delays are in Resilience: here a failed attempt may or may not be       *)
(* followed by another. The requests of one operation count as one.        *)
(***************************************************************************)
EXTENDS Naturals, FiniteSets

CONSTANTS
  Servers,      \* names of installed MCP servers
  Ops,          \* slots for operations under way
  Closer,       \* the task that runs when standard input closes
  MaxAttempts,  \* bound: attempts made in each slot, retries included
  MaxSessions,  \* bound: sessions ever created
  Offered,      \* the kinds of operation each slot is used for
  Overlap       \* FALSE: no operation starts on a server another one uses

Tasks == Ops \cup {Closer}
Sessions == 1..MaxSessions
NoSession == 0

ASSUME SessionsAssumption ==
  /\ Servers # {}
  /\ Closer \notin Ops
  /\ MaxAttempts \in [Ops -> Nat]
  /\ MaxSessions \in Nat
  /\ Offered \in [Ops -> SUBSET {"start", "list", "call", "health", "stop", "shutdownAll"}]
  /\ Overlap \in BOOLEAN

VARIABLES
  sessions,   \* Map<string, McpSession>
  status,     \* session.status, "none" before the session is created
  owner,      \* session.serverName
  child,      \* its process: "closed" once told to terminate, "exited" unasked
  pc,         \* what each task awaits
  kind,       \* the operation of each task
  on,         \* the server it is working on
  todo,       \* the names its shutdownAll has not come to yet
  sid,        \* its session
  err,        \* the class of the error it is handling
  left,       \* attempts each slot has left
  closing,    \* standard input has closed
  exit        \* how the process ended

work == <<kind, on, todo>>
taskVars == <<pc, work, sid, err>>
vars == <<sessions, status, owner, child, taskVars, left, closing, exit>>

Attempts == {"start", "list", "call", "health"}
Kinds == Attempts \cup {"stop", "shutdownAll"}

\* Turns in the microtask queue; promises settled by an answer or a timer.
Draining == {"closeOld", "closeFailed", "got", "threw", "closeBad",
             "noShutdown", "closeStopped", "stopNext", "settled", "refused"}
Waiting == {"starting", "using", "backoff", "shutdown"}

Errors == {"none", "transport", "other"}

TypeOK ==
  /\ sessions \in [Servers -> Sessions \cup {NoSession}]
  /\ status \in [Sessions -> {"none", "starting", "running", "failed", "stopped"}]
  /\ owner \in [Sessions -> Servers]
  /\ child \in [Sessions -> {"none", "open", "closed", "exited"}]
  /\ pc \in [Tasks -> {"idle"} \cup Draining \cup Waiting]
  /\ kind \in [Tasks -> Kinds]
  /\ on \in [Tasks -> Servers]
  /\ todo \in [Tasks -> SUBSET Servers]
  /\ sid \in [Tasks -> Sessions \cup {NoSession}]
  /\ err \in [Tasks -> Errors]
  /\ left \in [Ops -> Nat]
  /\ closing \in BOOLEAN
  /\ exit \in {"no", "clean", "error", "deadline"}

-----------------------------------------------------------------------------
\* Tasks.

Alive == exit = "no"

AServer == CHOOSE s \in Servers : TRUE

\* Task t awaits label, with session i and error e.
At(t, label, i, e) ==
  /\ pc' = [pc EXCEPT ![t] = label]
  /\ sid' = [sid EXCEPT ![t] = i]
  /\ err' = [err EXCEPT ![t] = e]

\* Task t takes up operation k on server s, then on those of S.
Work(t, k, s, S) ==
  /\ kind' = [kind EXCEPT ![t] = k]
  /\ on' = [on EXCEPT ![t] = s]
  /\ todo' = [todo EXCEPT ![t] = S]

\* The operation is over. The end of standard input still has the process to
\* end, according to whether shutdownAll succeeded.
Finish(t, ok) ==
  /\ At(t, IF t # Closer THEN "idle" ELSE IF ok THEN "settled" ELSE "refused",
        NoSession, "none")
  /\ Work(t, "start", AServer, {})

\* Task t is under way and may touch the entry of s.
Uses(t, s) ==
  pc[t] # "idle" /\ (kind[t] = "shutdownAll" \/ on[t] = s)

\* A line of standard input is handled: an operation on the servers of S.
MayStart(S) ==
  /\ Alive
  /\ ~closing
  /\ Overlap \/ \A t \in Tasks, s \in S : ~Uses(t, s)

Drained == \A t \in Tasks : pc[t] \notin Draining

\* Faulty variant of Spend: nothing ends the retries.
SpendUnchecked(o) == left' = [left EXCEPT ![o] = @ - 1]

\* Slot o takes up operation k.
Spend(o) == left[o] > 0 /\ left' = [left EXCEPT ![o] = @ - 1]

-----------------------------------------------------------------------------
\* The map.

\* transport.close(): no effect on a transport that is not open.
Close(i) == child' = [child EXCEPT ![i] = IF @ = "open" THEN "closed" ELSE @]

Remove(s) == sessions' = [sessions EXCEPT ![s] = NoSession]

\* Faulty variant of Invalidate: the entry goes, the transport stays.
InvalidateEntryOnly(s) ==
  /\ sessions[s] # NoSession
  /\ Remove(s)
  /\ status' = [status EXCEPT ![sessions[s]] = "failed"]
  /\ UNCHANGED child

\* invalidateSession up to its await, on an occupied entry.
Invalidate(s) ==
  /\ sessions[s] # NoSession
  /\ Remove(s)
  /\ status' = [status EXCEPT ![sessions[s]] = "failed"]
  /\ Close(sessions[s])

Reusable(s) ==
  /\ sessions[s] # NoSession
  /\ status[sessions[s]] = "running"
  /\ child[sessions[s]] = "open"

\* A new transport and session, registered before its handshake.
Create(s, i) ==
  /\ status[i] = "none"
  /\ \A j \in Sessions : j < i => status[j] # "none"
  /\ status' = [status EXCEPT ![i] = "starting"]
  /\ owner' = [owner EXCEPT ![i] = s]
  /\ child' = [child EXCEPT ![i] = "open"]
  /\ sessions' = [sessions EXCEPT ![s] = i]

\* getOrStartSession from the lookup of the configuration to the handshake. It
\* throws when the configuration is missing or invalid or the transport cannot
\* be constructed; else it registers a session over whatever is in the entry.
Start(t, s) ==
  \/ /\ At(t, "threw", NoSession, "other")
     /\ UNCHANGED <<sessions, status, owner, child>>
  \/ \E i \in Sessions : Create(s, i) /\ At(t, "starting", i, "none")

\* getOrStartSession up to its first await.
GetOrStart(t, s) ==
  \/ /\ Reusable(s)
     /\ At(t, "got", sessions[s], "none")
     /\ UNCHANGED <<sessions, status, owner, child>>
  \/ /\ ~Reusable(s)
     /\ Invalidate(s)
     /\ At(t, "closeOld", NoSession, "none")
     /\ UNCHANGED owner
  \/ /\ sessions[s] = NoSession
     /\ Start(t, s)

-----------------------------------------------------------------------------
\* startServer, listTools, callTool and healthcheck.

Begin(o, k, s) ==
  /\ MayStart({s})
  /\ pc[o] = "idle"
  /\ Spend(o)
  /\ Work(o, k, s, {})
  /\ GetOrStart(o, s)
  /\ UNCHANGED <<closing, exit>>

\* executeWithResilience tries again after its delay, closing or not.
Retry(o) ==
  /\ Alive
  /\ Drained
  /\ pc[o] = "backoff"
  /\ Spend(o)
  /\ GetOrStart(o, on[o])
  /\ UNCHANGED <<work, closing, exit>>

\* The replaced session is closed. The map is not read again.
StartAfterClose(o) ==
  /\ Alive
  /\ pc[o] = "closeOld"
  /\ Start(o, on[o])
  /\ UNCHANGED <<work, left, closing, exit>>

\* client.initialize resolved, whatever became of the session meanwhile.
Initialized(o) ==
  /\ Alive
  /\ pc[o] = "starting"
  /\ child[sid[o]] # "exited"
  /\ status' = [status EXCEPT ![sid[o]] = "running"]
  /\ At(o, "got", sid[o], "none")
  /\ UNCHANGED <<sessions, owner, child, work, left, closing, exit>>

\* client.initialize rejected: the process exited, an answer was refused or
\* the handshake timed out. The task closes its own transport.
InitializeFailed(o, e) ==
  /\ Alive
  /\ pc[o] = "starting"
  /\ status' = [status EXCEPT ![sid[o]] = "failed"]
  /\ Close(sid[o])
  /\ At(o, "closeFailed", sid[o], e)
  /\ UNCHANGED <<sessions, owner, work, left, closing, exit>>

\* Faulty variant of FailedStartRemoved: the failed session stays registered.
FailedStartKept(o) ==
  /\ Alive
  /\ pc[o] = "closeFailed"
  /\ At(o, "threw", NoSession, err[o])
  /\ UNCHANGED <<sessions, status, owner, child, work, left, closing, exit>>

\* ... and then removes the entry of its server, whoever is registered there.
FailedStartRemoved(o) ==
  /\ Alive
  /\ pc[o] = "closeFailed"
  /\ Remove(on[o])
  /\ At(o, "threw", NoSession, err[o])
  /\ UNCHANGED <<status, owner, child, work, left, closing, exit>>

\* A start is complete once it has a session; the others send their request,
\* which is rejected at once if the transport was closed meanwhile.
UseSession(o) ==
  /\ Alive
  /\ pc[o] = "got"
  /\ \/ kind[o] = "start" /\ Finish(o, TRUE)
     \/ /\ kind[o] # "start" /\ child[sid[o]] = "open"
        /\ At(o, "using", sid[o], "none")
        /\ UNCHANGED work
     \/ /\ kind[o] # "start" /\ child[sid[o]] # "open"
        /\ At(o, "threw", NoSession, "transport")
        /\ UNCHANGED work
  /\ UNCHANGED <<sessions, status, owner, child, left, closing, exit>>

\* The answer arrived. healthcheck marks the session running.
RequestAnswered(o) ==
  /\ Alive
  /\ pc[o] = "using"
  /\ child[sid[o]] # "exited"
  /\ status' = IF kind[o] = "health"
               THEN [status EXCEPT ![sid[o]] = "running"] ELSE status
  /\ Finish(o, TRUE)
  /\ UNCHANGED <<sessions, owner, child, left, closing, exit>>

\* The request was rejected: by the transport (timeout, exit, closed) or by
\* the server with an error of its own.
RequestFailed(o, e) ==
  /\ Alive
  /\ pc[o] = "using"
  /\ At(o, "threw", NoSession, e)
  /\ UNCHANGED <<sessions, status, owner, child, work, left, closing, exit>>

\* shouldInvalidateSessionAfterFailure is asked for callTool only.
Invalidates(o) == kind[o] # "call" \/ err[o] = "transport"

\* The failure has been handled: the operation rejects, or sleeps before its
\* next attempt. A health check is never tried again.
AttemptOver(o) ==
  \/ Finish(o, FALSE)
  \/ /\ kind[o] # "health" /\ left[o] > 0
     /\ At(o, "backoff", NoSession, "none")
     /\ UNCHANGED work

\* Faulty variant of OnFailure: no early return for an entry that is gone.
OnFailureRegisteredOnly(o) ==
  /\ Alive
  /\ pc[o] = "threw"
  /\ \/ Invalidate(on[o]) /\ At(o, "closeBad", NoSession, "none") /\ UNCHANGED work
     \/ ~Invalidates(o) /\ AttemptOver(o) /\ UNCHANGED <<sessions, status, child>>
  /\ UNCHANGED <<owner, left, closing, exit>>

\* onFailure, or the catch block of healthcheck: the session registered now is
\* invalidated, which need not be the one that failed.
OnFailure(o) ==
  /\ Alive
  /\ pc[o] = "threw"
  /\ \/ /\ Invalidates(o)
        /\ Invalidate(on[o])
        /\ At(o, "closeBad", NoSession, "none")
        /\ UNCHANGED work
     \/ /\ ~Invalidates(o) \/ sessions[on[o]] = NoSession
        /\ AttemptOver(o)
        /\ UNCHANGED <<sessions, status, child>>
  /\ UNCHANGED <<owner, left, closing, exit>>

Invalidated(o) ==
  /\ Alive
  /\ pc[o] = "closeBad"
  /\ AttemptOver(o)
  /\ UNCHANGED <<sessions, status, owner, child, left, closing, exit>>

-----------------------------------------------------------------------------
\* Stopping.

\* stopSession up to its await, on a registered session: client.shutdown has
\* nothing to say to a server whose handshake is not over.
AwaitShutdown(t, s) ==
  /\ sessions[s] # NoSession
  /\ At(t, IF status[sessions[s]] = "starting" THEN "noShutdown" ELSE "shutdown",
        sessions[s], "none")

BeginStop(o, s) ==
  /\ "stop" \in Offered[o]
  /\ MayStart({s})
  /\ pc[o] = "idle"
  /\ Spend(o)
  /\ Work(o, "stop", s, {})
  /\ AwaitShutdown(o, s)
  /\ UNCHANGED <<sessions, status, owner, child, closing, exit>>

\* shutdownAll takes the names registered now.
BeginShutdownAll(t) ==
  /\ MayStart(Servers)
  /\ pc[t] = "idle"
  /\ Work(t, "shutdownAll", AServer, {s \in Servers : sessions[s] # NoSession})
  /\ At(t, "stopNext", NoSession, "none")
  /\ UNCHANGED <<sessions, status, owner, child, exit>>

\* The legacy "shutdown" request.
ShutdownRequest(o) ==
  /\ "shutdownAll" \in Offered[o]
  /\ BeginShutdownAll(o)
  /\ Spend(o)
  /\ UNCHANGED closing

\* Standard input closes: no further line is handled, and shutdownAll runs
\* against the deadline.
CloseInput ==
  /\ BeginShutdownAll(Closer)
  /\ Drained
  /\ closing' = TRUE
  /\ UNCHANGED left

\* Faulty variant of StopNext: a name no longer registered is tried for ever.
StopNextInsists(t) ==
  /\ Alive
  /\ pc[t] = "stopNext"
  /\ \/ todo[t] = {} /\ Finish(t, TRUE)
     \/ \E s \in todo[t] :
          Work(t, "shutdownAll", s, todo[t] \ {s}) /\ AwaitShutdown(t, s)
  /\ UNCHANGED <<sessions, status, owner, child, left, closing, exit>>

\* The next stopServer of shutdownAll, which passes over a name that is no
\* longer registered. The map's order is any order here.
StopNext(t) ==
  /\ Alive
  /\ pc[t] = "stopNext"
  /\ \/ todo[t] = {} /\ Finish(t, TRUE)
     \/ \E s \in todo[t] :
          /\ Work(t, "shutdownAll", s, todo[t] \ {s})
          /\ \/ AwaitShutdown(t, s)
             \/ sessions[s] = NoSession /\ UNCHANGED <<pc, sid, err>>
  /\ UNCHANGED <<sessions, status, owner, child, left, closing, exit>>

\* client.shutdown settled: it resolves for a modern or an unfinished session,
\* and for a legacy one if the server answers; it rejects if the server
\* refuses the method, exits or does not answer. Either way the transport is
\* closed next.
ShutdownSettled(t, e) ==
  /\ Alive
  /\ pc[t] = "shutdown" \/ (pc[t] = "noShutdown" /\ e = "none")
  /\ Close(sid[t])
  /\ At(t, "closeStopped", sid[t], e)
  /\ UNCHANGED <<sessions, status, owner, work, left, closing, exit>>

\* The end of stopSession, which removes the entry by name and rethrows. A
\* rejection ends shutdownAll: the names left are not stopped.
Stopped(t) ==
  /\ Alive
  /\ pc[t] = "closeStopped"
  /\ status' = [status EXCEPT ![sid[t]] = "stopped"]
  /\ Remove(on[t])
  /\ IF kind[t] = "shutdownAll" /\ err[t] = "none"
     THEN At(t, "stopNext", NoSession, "none") /\ UNCHANGED work
     ELSE Finish(t, err[t] = "none")
  /\ UNCHANGED <<owner, child, left, closing, exit>>

\* Faulty variant of ExitAfterShutdown: the handler does not await shutdownAll.
ExitUnawaited ==
  /\ Alive
  /\ closing
  /\ exit' = "clean"
  /\ UNCHANGED <<sessions, status, owner, child, taskVars, left, closing>>

\* shutdownAll won the race against the deadline; the process exits.
ExitAfterShutdown ==
  /\ Alive
  /\ pc[Closer] \in {"settled", "refused"}
  /\ exit' = IF pc[Closer] = "settled" THEN "clean" ELSE "error"
  /\ UNCHANGED <<sessions, status, owner, child, taskVars, left, closing>>

\* The deadline won.
ExitAtDeadline ==
  /\ Alive
  /\ closing
  /\ Drained
  /\ exit' = "deadline"
  /\ UNCHANGED <<sessions, status, owner, child, taskVars, left, closing>>

\* A child process ends by itself. Nothing here depends on when one that was
\* told to terminate does, or on what children do once the process has ended.
ChildExits(i) ==
  /\ Alive
  /\ child[i] = "open"
  /\ child' = [child EXCEPT ![i] = "exited"]
  /\ UNCHANGED <<sessions, status, owner, taskVars, left, closing, exit>>

-----------------------------------------------------------------------------

Init ==
  /\ sessions = [s \in Servers |-> NoSession]
  /\ status = [i \in Sessions |-> "none"]
  /\ owner = [i \in Sessions |-> AServer]
  /\ child = [i \in Sessions |-> "none"]
  /\ pc = [t \in Tasks |-> "idle"]
  /\ kind = [t \in Tasks |-> "start"]
  /\ on = [t \in Tasks |-> AServer]
  /\ todo = [t \in Tasks |-> {}]
  /\ sid = [t \in Tasks |-> NoSession]
  /\ err = [t \in Tasks |-> "none"]
  /\ left = MaxAttempts
  /\ closing = FALSE
  /\ exit = "no"

\* What a task does once it is under way.
AdvanceAttempt(o) ==
  \/ Retry(o)
  \/ StartAfterClose(o)
  \/ Initialized(o)
  \/ \E e \in {"transport", "other"} : InitializeFailed(o, e)
  \/ FailedStartRemoved(o)
  \/ UseSession(o)
  \/ RequestAnswered(o)
  \/ \E e \in {"transport", "other"} : RequestFailed(o, e)
  \/ OnFailure(o)
  \/ Invalidated(o)

AdvanceStop(t) ==
  \/ StopNext(t)
  \/ \E e \in {"none", "other"} : ShutdownSettled(t, e)
  \/ Stopped(t)

Next ==
  \/ \E o \in Ops : \E k \in Offered[o] \cap Attempts, s \in Servers : Begin(o, k, s)
  \/ \E o \in Ops, s \in Servers : BeginStop(o, s)
  \/ \E o \in Ops : ShutdownRequest(o)
  \/ CloseInput
  \/ \E o \in Ops : AdvanceAttempt(o)
  \/ \E t \in Tasks : AdvanceStop(t)
  \/ ExitAfterShutdown
  \/ ExitAtDeadline
  \/ \E i \in Sessions : ChildExits(i)

\* Awaited promises settle: requests carry timers, close() does not wait, and
\* delays are timers. The deadline is a timer too. Nobody has to begin an
\* operation or to close standard input.
Fairness ==
  /\ \A o \in Ops : WF_vars(AdvanceAttempt(o) \/ AdvanceStop(o))
  /\ WF_vars(AdvanceStop(Closer) \/ ExitAfterShutdown)
  /\ WF_vars(ExitAtDeadline)

Spec == Init /\ [][Next]_vars /\ Fairness

-----------------------------------------------------------------------------
\* Properties.

\* A child process that was not told to terminate is the one its server's
\* entry leads to, so that a stop can reach it. Deletions are by name, after an
\* await: this stands only while operations on one server do not overlap.
NoOrphan ==
  ~Overlap => \A i \in Sessions : child[i] = "open" => sessions[owner[i]] = i

\* When shutdownAll succeeded, every child was told to terminate before the
\* process exits, again unless operations overlap.
CleanExit ==
  ~Overlap /\ exit = "clean" => \A i \in Sessions : child[i] # "open"

\* The map leads to no dead session, whatever overlaps: one whose handshake
\* failed stays only until the task that started it removes it.
DeadIsLeaving ==
  \A s \in Servers :
    sessions[s] # NoSession /\ status[sessions[s]] \in {"failed", "stopped"} =>
      \E o \in Ops : /\ pc[o] = "closeFailed"
                     /\ sid[o] = sessions[s]
                     /\ on[o] = s

\* Every operation ends, or the process does.
OperationsSettle ==
  \A o \in Ops : pc[o] # "idle" ~> (pc[o] = "idle" \/ ~Alive)

\* Once standard input has closed the process ends, whatever the servers do.
ExitsOnClose == closing ~> ~Alive

\* What the comment of shutdown() and the change log promise: no child outlives
\* the process as an orphan, unless the deadline passed.
NoOrphanAtExit ==
  exit = "clean" => \A i \in Sessions : child[i] # "open"
NoOrphanBeforeDeadline ==
  exit \in {"clean", "error"} => \A i \in Sessions : child[i] # "open"
=============================================================================
