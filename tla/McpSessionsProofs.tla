------------------------- MODULE McpSessionsProofs -------------------------
(***************************************************************************)
(* Proofs about McpSessions, for any servers, operation slots and bounds.  *)
(* Overlap is a constant: what needs operations on one server not to       *)
(* overlap says so.                                                        *)
(***************************************************************************)
EXTENDS McpSessions, TLAPS

USE SessionsAssumption DEF Tasks, Sessions, NoSession

LEMMA AServerType == AServer \in Servers
  BY DEF AServer

-----------------------------------------------------------------------------
\* Types.

Statuses == {"none", "starting", "running", "failed", "stopped"}
Labels == {"idle"} \cup Draining \cup Waiting

MapType ==
  /\ sessions \in [Servers -> Sessions \cup {NoSession}]
  /\ status \in [Sessions -> Statuses]
  /\ owner \in [Sessions -> Servers]
  /\ child \in [Sessions -> {"none", "open", "closed", "exited"}]

AtType ==
  /\ pc \in [Tasks -> Labels]
  /\ sid \in [Tasks -> Sessions \cup {NoSession}]
  /\ err \in [Tasks -> Errors]

WorkType ==
  /\ kind \in [Tasks -> Kinds]
  /\ on \in [Tasks -> Servers]
  /\ todo \in [Tasks -> SUBSET Servers]

RestType ==
  /\ left \in [Ops -> Nat]
  /\ closing \in BOOLEAN
  /\ exit \in {"no", "clean", "error", "deadline"}

LEMMA TypeParts == TypeOK <=> MapType /\ AtType /\ WorkType /\ RestType
  BY DEF TypeOK, MapType, AtType, WorkType, RestType, Statuses, Labels

LEMMA AtStep ==
  ASSUME AtType, NEW t \in Tasks, NEW label \in Labels,
         NEW i \in Sessions \cup {NoSession}, NEW e \in Errors, At(t, label, i, e)
  PROVE  AtType'
  BY DEF AtType, At

LEMMA WorkStep ==
  ASSUME WorkType, NEW t \in Tasks, NEW k \in Kinds, NEW s \in Servers,
         NEW S \in SUBSET Servers, Work(t, k, s, S)
  PROVE  WorkType'
  BY DEF WorkType, Work

LEMMA FinishStep ==
  ASSUME AtType, WorkType, NEW t \in Tasks, NEW ok, Finish(t, ok)
  PROVE  AtType' /\ WorkType'
<1> DEFINE label == IF t # Closer THEN "idle" ELSE IF ok THEN "settled" ELSE "refused"
<1>1. label \in Labels /\ "none" \in Errors /\ "start" \in Kinds
  BY DEF Labels, Draining, Errors, Kinds, Attempts
<1>2. At(t, label, NoSession, "none") /\ Work(t, "start", AServer, {})
  BY DEF Finish
<1> HIDE DEF label
<1> QED
  BY <1>1, <1>2, AtStep, WorkStep, AServerType

LEMMA CloseStep ==
  ASSUME MapType, NEW i \in Sessions, Close(i)
  PROVE  child' \in [Sessions -> {"none", "open", "closed", "exited"}]
  BY DEF MapType, Close

LEMMA InvalidateStep ==
  ASSUME MapType, NEW s \in Servers, Invalidate(s), UNCHANGED owner
  PROVE  MapType'
<1>1. sessions[s] \in Sessions
  BY DEF MapType, Invalidate
<1>2. child' \in [Sessions -> {"none", "open", "closed", "exited"}]
  BY <1>1, CloseStep DEF Invalidate
<1> QED
  BY <1>1, <1>2 DEF MapType, Invalidate, Remove, Statuses

LEMMA StartStep ==
  ASSUME MapType, AtType, NEW t \in Tasks, NEW s \in Servers, Start(t, s)
  PROVE  MapType' /\ AtType'
<1> USE DEF Labels, Draining, Waiting, Errors
<1>1. CASE At(t, "threw", NoSession, "other") /\ UNCHANGED <<sessions, status, owner, child>>
  BY <1>1, AtStep DEF MapType
<1>2. ASSUME NEW i \in Sessions, Create(s, i), At(t, "starting", i, "none")
      PROVE  MapType' /\ AtType'
  BY <1>2, AtStep DEF MapType, Create, Statuses
<1> QED
  BY <1>1, <1>2 DEF Start

LEMMA GetOrStartStep ==
  ASSUME MapType, AtType, NEW t \in Tasks, NEW s \in Servers, GetOrStart(t, s)
  PROVE  MapType' /\ AtType'
<1> USE DEF Labels, Draining, Waiting, Errors
<1>1. CASE At(t, "got", sessions[s], "none") /\ UNCHANGED <<sessions, status, owner, child>>
  BY <1>1, AtStep DEF MapType
<1>2. CASE Invalidate(s) /\ At(t, "closeOld", NoSession, "none") /\ UNCHANGED owner
  BY <1>2, AtStep, InvalidateStep
<1>3. CASE Start(t, s)
  BY <1>3, StartStep
<1> QED
  BY <1>1, <1>2, <1>3 DEF GetOrStart

LEMMA AttemptOverStep ==
  ASSUME AtType, WorkType, NEW o \in Ops, AttemptOver(o)
  PROVE  AtType' /\ WorkType'
<1>1. CASE Finish(o, FALSE)
  BY <1>1, FinishStep
<1>2. CASE At(o, "backoff", NoSession, "none") /\ UNCHANGED work
  BY <1>2, AtStep DEF Labels, Waiting, Errors, WorkType, work
<1> QED
  BY <1>1, <1>2 DEF AttemptOver

LEMMA AwaitShutdownStep ==
  ASSUME MapType, AtType, NEW t \in Tasks, NEW s \in Servers, AwaitShutdown(t, s)
  PROVE  AtType'
<1> USE DEF Labels, Draining, Waiting, Errors
<1>1. CASE At(t, "noShutdown", sessions[s], "none")
  BY <1>1, AtStep DEF MapType
<1>2. CASE At(t, "shutdown", sessions[s], "none")
  BY <1>2, AtStep DEF MapType
<1> QED
  BY <1>1, <1>2 DEF AwaitShutdown

LEMMA SpendStep ==
  ASSUME RestType, NEW o \in Ops, Spend(o)
  PROVE  left' \in [Ops -> Nat]
  BY DEF RestType, Spend

LEMMA TypeStep ==
  ASSUME TypeOK, [Next]_vars
  PROVE  TypeOK'
<1>0. MapType /\ AtType /\ WorkType /\ RestType
  BY TypeParts
<1> SUFFICES MapType' /\ AtType' /\ WorkType' /\ RestType'
  BY TypeParts DEF TypeOK, MapType, AtType, WorkType, RestType, Statuses, Labels
<1> USE <1>0
<1> DEFINE Goal == MapType' /\ AtType' /\ WorkType' /\ RestType'
<1>l. /\ Labels = {"idle"} \cup Draining \cup Waiting
      /\ Draining = {"closeOld", "closeFailed", "got", "threw", "closeBad",
             "noShutdown", "closeStopped", "stopNext", "settled", "refused"}
      /\ Waiting = {"starting", "using", "backoff", "shutdown"}
      /\ Errors = {"none", "transport", "other"}
      /\ Kinds = {"start", "list", "call", "health", "stop", "shutdownAll"}
      /\ Attempts \subseteq Kinds
  BY DEF Labels, Draining, Waiting, Errors, Kinds, Attempts
<1>1. ASSUME NEW o \in Ops, NEW k \in Offered[o] \cap Attempts, NEW s \in Servers, Begin(o, k, s)
      PROVE  Goal
  BY <1>1, <1>l, GetOrStartStep, WorkStep, SpendStep DEF Begin, RestType
<1>2. ASSUME NEW o \in Ops, NEW s \in Servers, BeginStop(o, s)
      PROVE  Goal
  BY <1>2, <1>l, AwaitShutdownStep, WorkStep, SpendStep DEF BeginStop, RestType, MapType
<1>3. ASSUME NEW t \in Tasks, BeginShutdownAll(t)
      PROVE  MapType' /\ AtType' /\ WorkType' /\ exit' = exit
  BY <1>3, <1>l, AtStep, WorkStep, AServerType DEF BeginShutdownAll, MapType
<1>4. ASSUME NEW o \in Ops, ShutdownRequest(o)
      PROVE  Goal
  BY <1>3, <1>4, SpendStep DEF ShutdownRequest, RestType
<1>5. CASE CloseInput
  BY <1>3, <1>5 DEF CloseInput, RestType
<1>6. ASSUME NEW o \in Ops, AdvanceAttempt(o)
      PROVE  Goal
  <2>1. CASE Retry(o)
    BY <2>1, GetOrStartStep, SpendStep DEF Retry, work, RestType, WorkType
  <2>2. CASE StartAfterClose(o)
    BY <2>2, StartStep DEF StartAfterClose, work, RestType, WorkType
  <2>3. CASE Initialized(o)
    BY <2>3, <1>l, AtStep DEF Initialized, work, AtType, MapType, RestType, WorkType, Statuses
  <2>4. ASSUME NEW e \in {"transport", "other"}, InitializeFailed(o, e)
        PROVE  Goal
    <3>1. MapType'
      BY <2>4 DEF InitializeFailed, MapType, Close, Statuses
    <3> QED
      BY <2>4, <3>1, <1>l, AtStep DEF InitializeFailed, work, AtType, RestType, WorkType
  <2>5. CASE FailedStartRemoved(o)
    BY <2>5, <1>l, AtStep DEF FailedStartRemoved, work, AtType, MapType, RestType, WorkType, Remove
  <2>6. CASE UseSession(o)
    BY <2>6, <1>l, AtStep, FinishStep DEF UseSession, work, AtType, MapType, RestType, WorkType
  <2>7. CASE RequestAnswered(o)
    BY <2>7, <1>l, FinishStep DEF RequestAnswered, MapType, RestType, Statuses
  <2>8. ASSUME NEW e \in {"transport", "other"}, RequestFailed(o, e)
        PROVE  Goal
    BY <2>8, <1>l, AtStep DEF RequestFailed, work, MapType, RestType, WorkType
  <2>9. CASE OnFailure(o)
    BY <2>9, <1>l, AtStep, InvalidateStep, AttemptOverStep
       DEF OnFailure, work, MapType, RestType, WorkType
  <2>10. CASE Invalidated(o)
    BY <2>10, AttemptOverStep DEF Invalidated, MapType, RestType
  <2> QED
    BY <1>6, <2>1, <2>2, <2>3, <2>4, <2>5, <2>6, <2>7, <2>8, <2>9, <2>10 DEF AdvanceAttempt
<1>7. ASSUME NEW t \in Tasks, AdvanceStop(t)
      PROVE  Goal
  <2>1. CASE StopNext(t)
    <3>1. ASSUME NEW s \in todo[t], Work(t, "shutdownAll", s, todo[t] \ {s})
          PROVE  WorkType'
      BY <3>1, <1>l, WorkStep DEF WorkType
    <3>2. todo[t] \subseteq Servers
      BY DEF WorkType
    <3> QED
      BY <2>1, <1>l, <3>1, <3>2, AwaitShutdownStep, FinishStep DEF StopNext, MapType, RestType, AtType
  <2>2. ASSUME NEW e \in {"none", "other"}, ShutdownSettled(t, e)
        PROVE  Goal
    <3>1. child' \in [Sessions -> {"none", "open", "closed", "exited"}]
      BY <2>2 DEF ShutdownSettled, Close, MapType
    <3> QED
      BY <2>2, <3>1, <1>l, AtStep DEF ShutdownSettled, work, AtType, MapType, RestType, WorkType
  <2>3. CASE Stopped(t)
    <3>1. MapType'
      BY <2>3 DEF Stopped, MapType, Remove, Statuses, WorkType
    <3> QED
      BY <2>3, <3>1, <1>l, AtStep, FinishStep DEF Stopped, work, RestType, WorkType
  <2> QED
    BY <1>7, <2>1, <2>2, <2>3 DEF AdvanceStop
<1>8. CASE ExitAfterShutdown
  BY <1>8 DEF ExitAfterShutdown, taskVars, work, MapType, AtType, WorkType, RestType
<1>9. CASE ExitAtDeadline
  BY <1>9 DEF ExitAtDeadline, taskVars, work, MapType, AtType, WorkType, RestType
<1>10. ASSUME NEW i \in Sessions, ChildExits(i)
       PROVE  Goal
  BY <1>10 DEF ChildExits, taskVars, work, MapType, AtType, WorkType, RestType
<1>11. CASE UNCHANGED vars
  BY <1>11 DEF vars, taskVars, work, MapType, AtType, WorkType, RestType
<1> QED
  BY <1>1, <1>2, <1>4, <1>5, <1>6, <1>7, <1>8, <1>9, <1>10, <1>11 DEF Next

-----------------------------------------------------------------------------
\* Sessions, their transports and the tasks that hold them.

\* What awaits with a session in its local variable.
HoldsSession == {"starting", "closeFailed", "got", "using",
                 "shutdown", "noShutdown", "closeStopped"}

\* A session given up, by whichever task, has its transport closed.
GivenUpIsClosed ==
  \A i \in Sessions : status[i] \in {"failed", "stopped"} => child[i] # "open"

MapInv ==
  /\ \A s \in Servers : sessions[s] # NoSession =>
       owner[sessions[s]] = s /\ status[sessions[s]] # "none"
  /\ \A i \in Sessions : status[i] = "none" => child[i] = "none"
  /\ GivenUpIsClosed

TaskInv(t) ==
  /\ pc[t] \in HoldsSession =>
       sid[t] \in Sessions /\ owner[sid[t]] = on[t] /\ status[sid[t]] # "none"
  /\ pc[t] \in {"closeFailed", "closeStopped"} => child[sid[t]] # "open"

SessionInv == MapInv /\ \A t \in Tasks : TaskInv(t)

\* What no step undoes, for a session that exists.
Kept ==
  \A i \in Sessions : status[i] # "none" =>
    /\ status'[i] # "none"
    /\ owner'[i] = owner[i]
    /\ child[i] # "open" => child'[i] # "open"

\* Task t is the only one that moves.
Alone(t) ==
  \A u \in Tasks \ {t} :
    pc'[u] = pc[u] /\ sid'[u] = sid[u] /\ on'[u] = on[u] /\ kind'[u] = kind[u] /\ todo'[u] = todo[u]

LEMMA AtEffect ==
  ASSUME TypeOK, NEW t \in Tasks, NEW label, NEW i, NEW e, At(t, label, i, e)
  PROVE  /\ pc'[t] = label /\ sid'[t] = i
         /\ \A u \in Tasks \ {t} : pc'[u] = pc[u] /\ sid'[u] = sid[u]
  BY DEF TypeOK, At

LEMMA WorkEffect ==
  ASSUME TypeOK, NEW t \in Tasks, NEW k, NEW s, NEW S, Work(t, k, s, S)
  PROVE  /\ kind'[t] = k /\ on'[t] = s /\ todo'[t] = S
         /\ \A u \in Tasks \ {t} : kind'[u] = kind[u] /\ on'[u] = on[u] /\ todo'[u] = todo[u]
  BY DEF TypeOK, Work

LEMMA FinishEffect ==
  ASSUME TypeOK, NEW t \in Tasks, NEW ok, Finish(t, ok)
  PROVE  Alone(t) /\ pc'[t] \in {"idle", "settled", "refused"} /\ TaskInv(t)'
<1> DEFINE label == IF t # Closer THEN "idle" ELSE IF ok THEN "settled" ELSE "refused"
<1>1. At(t, label, NoSession, "none") /\ Work(t, "start", AServer, {})
  BY DEF Finish
<1>2. label \in {"idle", "settled", "refused"}
  OBVIOUS
<1> HIDE DEF label
<1>3. pc'[t] = label /\ Alone(t)
  BY <1>1, AtEffect, WorkEffect DEF Alone
<1> QED
  BY <1>2, <1>3 DEF TaskInv, HoldsSession

LEMMA SessionInvKept ==
  ASSUME SessionInv, MapInv', Kept, NEW t \in Tasks, Alone(t), TaskInv(t)'
  PROVE  SessionInv'
<1>1. ASSUME NEW u \in Tasks \ {t} PROVE TaskInv(u)'
  BY DEF SessionInv, TaskInv, Kept, Alone, HoldsSession
<1> QED
  BY <1>1 DEF SessionInv

LEMMA UntouchedMap ==
  ASSUME MapInv, UNCHANGED <<sessions, status, owner, child>>
  PROVE  MapInv' /\ Kept
  BY DEF MapInv, Kept, GivenUpIsClosed

LEMMA RemoveMap ==
  ASSUME TypeOK, MapInv, NEW s \in Servers, Remove(s), UNCHANGED <<status, owner, child>>
  PROVE  MapInv' /\ Kept
  BY DEF TypeOK, MapInv, Kept, GivenUpIsClosed, Remove

LEMMA CloseMap ==
  ASSUME TypeOK, MapInv, NEW i \in Sessions, Close(i), UNCHANGED <<sessions, status, owner>>
  PROVE  MapInv' /\ Kept /\ child'[i] # "open"
  BY DEF TypeOK, MapInv, Kept, GivenUpIsClosed, Close

LEMMA RunningMap ==
  ASSUME TypeOK, MapInv, NEW i \in Sessions, status[i] # "none",
         status' = [status EXCEPT ![i] = "running"], UNCHANGED <<sessions, owner, child>>
  PROVE  MapInv' /\ Kept
  BY DEF TypeOK, MapInv, Kept, GivenUpIsClosed

LEMMA FailMap ==
  ASSUME TypeOK, MapInv, NEW i \in Sessions, status[i] # "none", Close(i),
         status' = [status EXCEPT ![i] = "failed"], UNCHANGED <<sessions, owner>>
  PROVE  MapInv' /\ Kept /\ child'[i] # "open"
<1>1. \A j \in Sessions \ {i} : status'[j] = status[j] /\ child'[j] = child[j]
  BY DEF TypeOK, Close
<1>2. status'[i] = "failed" /\ child'[i] # "open"
  BY DEF TypeOK, Close
<1> QED
  BY <1>1, <1>2 DEF TypeOK, MapInv, Kept, GivenUpIsClosed

LEMMA InvalidateMap ==
  ASSUME TypeOK, MapInv, NEW s \in Servers, Invalidate(s), UNCHANGED owner
  PROVE  /\ MapInv' /\ Kept
         /\ sessions[s] \in Sessions /\ child'[sessions[s]] # "open"
         /\ sessions'[s] = NoSession
         /\ \A r \in Servers \ {s} : sessions'[r] = sessions[r]
         /\ \A i \in Sessions \ {sessions[s]} : child'[i] = child[i]
<1> DEFINE i == sessions[s]
<1>1. i \in Sessions /\ status[i] # "none"
  BY DEF TypeOK, MapInv, Invalidate
<1>2. \A j \in Sessions \ {i} : status'[j] = status[j] /\ child'[j] = child[j]
  BY <1>1 DEF TypeOK, Invalidate, Close
<1>3. status'[i] = "failed" /\ child'[i] # "open"
  BY <1>1 DEF TypeOK, Invalidate, Close
<1>4. sessions'[s] = NoSession /\ \A r \in Servers \ {s} : sessions'[r] = sessions[r]
  BY DEF TypeOK, Invalidate, Remove
<1>5. \A r \in Servers : sessions[r] \in Sessions \cup {NoSession}
  BY DEF TypeOK
<1> HIDE DEF i
<1>6. /\ \A r \in Servers : sessions'[r] # NoSession =>
           owner'[sessions'[r]] = r /\ status'[sessions'[r]] # "none"
      /\ \A j \in Sessions : status'[j] = "none" => child'[j] = "none"
      /\ \A j \in Sessions : status'[j] \in {"failed", "stopped"} => child'[j] # "open"
  BY <1>1, <1>2, <1>3, <1>4, <1>5 DEF MapInv, GivenUpIsClosed
<1>7. MapInv' /\ Kept
  BY <1>1, <1>2, <1>3, <1>6 DEF MapInv, Kept, GivenUpIsClosed
<1> QED
  BY <1>1, <1>2, <1>3, <1>4, <1>7 DEF i

LEMMA CreateMap ==
  ASSUME TypeOK, MapInv, NEW s \in Servers, NEW i \in Sessions, Create(s, i)
  PROVE  /\ MapInv' /\ Kept
         /\ status'[i] = "starting" /\ owner'[i] = s /\ sessions'[s] = i
         /\ \A r \in Servers \ {s} : sessions'[r] = sessions[r]
         /\ \A j \in Sessions \ {i} :
              child'[j] = child[j] /\ owner'[j] = owner[j] /\ status'[j] = status[j]
<1>1. /\ status[i] = "none"
      /\ status'[i] = "starting" /\ owner'[i] = s /\ child'[i] = "open" /\ sessions'[s] = i
  BY DEF TypeOK, Create
<1>2. \A j \in Sessions \ {i} :
        child'[j] = child[j] /\ owner'[j] = owner[j] /\ status'[j] = status[j]
  BY DEF TypeOK, Create
<1>3. \A r \in Servers \ {s} : sessions'[r] = sessions[r]
  BY DEF TypeOK, Create
<1>4. \A r \in Servers : sessions[r] # i /\ sessions[r] \in Sessions \cup {NoSession}
  BY <1>1 DEF MapInv, TypeOK
<1>5. MapInv'
  BY <1>1, <1>2, <1>3, <1>4 DEF MapInv, GivenUpIsClosed
<1> QED
  BY <1>1, <1>2, <1>3, <1>5 DEF Kept

LEMMA StartSession ==
  ASSUME TypeOK, SessionInv, NEW t \in Tasks, NEW s \in Servers, Start(t, s), on'[t] = s,
         \A u \in Tasks \ {t} : on'[u] = on[u] /\ kind'[u] = kind[u] /\ todo'[u] = todo[u]
  PROVE  SessionInv'
<1> USE DEF SessionInv
<1>1. CASE At(t, "threw", NoSession, "other") /\ UNCHANGED <<sessions, status, owner, child>>
  BY <1>1, AtEffect, UntouchedMap, SessionInvKept DEF Alone, TaskInv, HoldsSession
<1>2. ASSUME NEW i \in Sessions, Create(s, i), At(t, "starting", i, "none")
      PROVE  SessionInv'
  BY <1>2, AtEffect, CreateMap, SessionInvKept DEF Alone, TaskInv
<1> QED
  BY <1>1, <1>2 DEF Start

LEMMA GetOrStartSession ==
  ASSUME TypeOK, SessionInv, NEW t \in Tasks, NEW s \in Servers, GetOrStart(t, s), on'[t] = s,
         \A u \in Tasks \ {t} : on'[u] = on[u] /\ kind'[u] = kind[u] /\ todo'[u] = todo[u]
  PROVE  SessionInv'
<1>1. CASE Reusable(s) /\ At(t, "got", sessions[s], "none")
           /\ UNCHANGED <<sessions, status, owner, child>>
  <2>1. sessions[s] \in Sessions /\ owner[sessions[s]] = s /\ status[sessions[s]] # "none"
    BY <1>1 DEF TypeOK, SessionInv, MapInv, Reusable
  <2>2. pc'[t] = "got" /\ sid'[t] = sessions[s] /\ Alone(t)
    BY <1>1, AtEffect DEF Alone
  <2>3. TaskInv(t)'
    BY <1>1, <2>1, <2>2 DEF TaskInv
  <2> QED
    BY <1>1, <2>2, <2>3, UntouchedMap, SessionInvKept DEF SessionInv
<1>2. CASE Invalidate(s) /\ At(t, "closeOld", NoSession, "none") /\ UNCHANGED owner
  BY <1>2, AtEffect, InvalidateMap, SessionInvKept DEF SessionInv, Alone, TaskInv, HoldsSession
<1>3. CASE Start(t, s)
  BY <1>3, StartSession
<1> QED
  BY <1>1, <1>2, <1>3 DEF GetOrStart

LEMMA AttemptOverSession ==
  ASSUME TypeOK, NEW o \in Ops, AttemptOver(o)
  PROVE  Alone(o) /\ TaskInv(o)'
<1>1. CASE Finish(o, FALSE)
  BY <1>1, FinishEffect
<1>2. CASE At(o, "backoff", NoSession, "none") /\ UNCHANGED work
  BY <1>2, AtEffect DEF work, Alone, TaskInv, HoldsSession
<1> QED
  BY <1>1, <1>2 DEF AttemptOver

LEMMA AwaitShutdownSession ==
  ASSUME TypeOK, SessionInv, NEW t \in Tasks, NEW s \in Servers, AwaitShutdown(t, s), on'[t] = s,
         UNCHANGED <<sessions, status, owner, child>>,
         \A u \in Tasks \ {t} : on'[u] = on[u] /\ kind'[u] = kind[u] /\ todo'[u] = todo[u]
  PROVE  SessionInv'
<1>1. sessions[s] \in Sessions /\ owner[sessions[s]] = s /\ status[sessions[s]] # "none"
  BY DEF TypeOK, SessionInv, MapInv, AwaitShutdown
<1>2. /\ pc'[t] \in {"noShutdown", "shutdown"} /\ sid'[t] = sessions[s]
      /\ \A u \in Tasks \ {t} : pc'[u] = pc[u] /\ sid'[u] = sid[u]
  BY AtEffect DEF AwaitShutdown
<1>3. TaskInv(t)'
  BY <1>1, <1>2 DEF TaskInv
<1> QED
  BY <1>2, <1>3, UntouchedMap, SessionInvKept DEF SessionInv, Alone

LEMMA SessionStep ==
  ASSUME TypeOK, SessionInv, [Next]_vars
  PROVE  SessionInv'
<1>0. MapInv /\ (\A t \in Tasks : TaskInv(t)) /\ \A t \in Tasks : on[t] \in Servers
  BY DEF SessionInv, TypeOK
<1>1. ASSUME NEW o \in Ops, NEW k \in Offered[o] \cap Attempts, NEW s \in Servers, Begin(o, k, s)
      PROVE  SessionInv'
  BY <1>1, GetOrStartSession, WorkEffect DEF Begin
<1>2. ASSUME NEW o \in Ops, NEW s \in Servers, BeginStop(o, s)
      PROVE  SessionInv'
  BY <1>2, AwaitShutdownSession, WorkEffect DEF BeginStop
<1>3. ASSUME NEW t \in Tasks, BeginShutdownAll(t)
      PROVE  SessionInv'
  <2>1. pc'[t] = "stopNext" /\ Alone(t)
    BY <1>3, AtEffect, WorkEffect DEF BeginShutdownAll, Alone
  <2> QED
    BY <1>3, <2>1, <1>0, UntouchedMap, SessionInvKept DEF BeginShutdownAll, TaskInv, HoldsSession
<1>4. ASSUME NEW o \in Ops, AdvanceAttempt(o)
      PROVE  SessionInv'
  <2>0. pc[o] \in HoldsSession =>
          sid[o] \in Sessions /\ owner[sid[o]] = on[o] /\ status[sid[o]] # "none"
    BY <1>0 DEF TaskInv
  <2>1. CASE Retry(o)
    BY <2>1, <1>0, GetOrStartSession DEF Retry, work
  <2>2. CASE StartAfterClose(o)
    BY <2>2, <1>0, StartSession DEF StartAfterClose, work
  <2>3. CASE Initialized(o)
    <3>1. MapInv' /\ Kept
      BY <2>3, <2>0, <1>0, RunningMap DEF Initialized, HoldsSession
    <3>2. pc'[o] = "got" /\ sid'[o] = sid[o] /\ Alone(o)
      BY <2>3, AtEffect DEF Initialized, Alone, work
    <3>3. TaskInv(o)'
      BY <2>0, <2>3, <3>1, <3>2 DEF TaskInv, HoldsSession, Kept, Initialized, work
    <3> QED
      BY <3>1, <3>2, <3>3, SessionInvKept
  <2>4. ASSUME NEW e \in {"transport", "other"}, InitializeFailed(o, e)
        PROVE  SessionInv'
    <3>1. MapInv' /\ Kept /\ child'[sid[o]] # "open"
      BY <2>4, <2>0, <1>0, FailMap DEF InitializeFailed, HoldsSession
    <3>2. pc'[o] = "closeFailed" /\ sid'[o] = sid[o] /\ Alone(o)
      BY <2>4, AtEffect DEF InitializeFailed, Alone, work
    <3>3. TaskInv(o)'
      BY <2>0, <2>4, <3>1, <3>2 DEF TaskInv, HoldsSession, Kept, InitializeFailed, work
    <3> QED
      BY <3>1, <3>2, <3>3, SessionInvKept
  <2>5. CASE FailedStartRemoved(o)
    <3>1. pc'[o] = "threw" /\ Alone(o)
      BY <2>5, AtEffect DEF FailedStartRemoved, Alone, work
    <3> QED
      BY <2>5, <3>1, <1>0, RemoveMap, SessionInvKept DEF FailedStartRemoved, TaskInv, HoldsSession
  <2>6. CASE UseSession(o)
    <3>1. CASE Finish(o, TRUE)
      BY <2>6, <3>1, <1>0, FinishEffect, UntouchedMap, SessionInvKept DEF UseSession
    <3>2. CASE At(o, "using", sid[o], "none") /\ UNCHANGED work
      BY <2>6, <3>2, <2>0, <1>0, AtEffect, UntouchedMap, SessionInvKept
         DEF UseSession, Alone, TaskInv, HoldsSession, work
    <3>3. CASE At(o, "threw", NoSession, "transport") /\ UNCHANGED work
      BY <2>6, <3>3, <1>0, AtEffect, UntouchedMap, SessionInvKept
         DEF UseSession, Alone, TaskInv, HoldsSession, work
    <3> QED
      BY <2>6, <3>1, <3>2, <3>3 DEF UseSession
  <2>7. CASE RequestAnswered(o)
    <3>1. MapInv' /\ Kept
      BY <2>7, <2>0, <1>0, RunningMap, UntouchedMap DEF RequestAnswered, HoldsSession
    <3> QED
      BY <2>7, <3>1, FinishEffect, SessionInvKept DEF RequestAnswered
  <2>8. ASSUME NEW e \in {"transport", "other"}, RequestFailed(o, e)
        PROVE  SessionInv'
    <3>1. pc'[o] = "threw" /\ Alone(o)
      BY <2>8, AtEffect DEF RequestFailed, Alone, work
    <3> QED
      BY <2>8, <3>1, <1>0, UntouchedMap, SessionInvKept DEF RequestFailed, TaskInv, HoldsSession
  <2>9. CASE OnFailure(o)
    <3>1. CASE Invalidate(on[o]) /\ At(o, "closeBad", NoSession, "none") /\ UNCHANGED work
      <4>1. pc'[o] = "closeBad" /\ Alone(o)
        BY <3>1, AtEffect DEF Alone, work
      <4> QED
        BY <2>9, <3>1, <4>1, <1>0, InvalidateMap, SessionInvKept DEF OnFailure, TaskInv, HoldsSession
    <3>2. CASE AttemptOver(o) /\ UNCHANGED <<sessions, status, child>>
      BY <2>9, <3>2, <1>0, AttemptOverSession, UntouchedMap, SessionInvKept DEF OnFailure
    <3> QED
      BY <2>9, <3>1, <3>2 DEF OnFailure
  <2>10. CASE Invalidated(o)
    BY <2>10, <1>0, AttemptOverSession, UntouchedMap, SessionInvKept DEF Invalidated
  <2> QED
    BY <1>4, <2>1, <2>2, <2>3, <2>4, <2>5, <2>6, <2>7, <2>8, <2>9, <2>10 DEF AdvanceAttempt
<1>5. ASSUME NEW t \in Tasks, AdvanceStop(t)
      PROVE  SessionInv'
  <2>0. pc[t] \in HoldsSession =>
          sid[t] \in Sessions /\ owner[sid[t]] = on[t] /\ status[sid[t]] # "none"
    BY <1>0 DEF TaskInv
  <2>1. CASE StopNext(t)
    <3>1. CASE Finish(t, TRUE)
      BY <2>1, <3>1, <1>0, FinishEffect, UntouchedMap, SessionInvKept DEF StopNext
    <3>2. ASSUME NEW s \in todo[t], Work(t, "shutdownAll", s, todo[t] \ {s}), AwaitShutdown(t, s)
          PROVE  SessionInv'
      <4>1. s \in Servers
        BY DEF TypeOK
      <4> QED
        BY <2>1, <3>2, <4>1, WorkEffect, AwaitShutdownSession DEF StopNext
    <3>3. ASSUME NEW s \in todo[t], Work(t, "shutdownAll", s, todo[t] \ {s}),
                 UNCHANGED <<pc, sid, err>>
          PROVE  SessionInv'
      <4>1. pc'[t] = "stopNext" /\ Alone(t)
        BY <2>1, <3>3, WorkEffect DEF StopNext, Alone
      <4> QED
        BY <2>1, <4>1, <1>0, UntouchedMap, SessionInvKept DEF StopNext, TaskInv, HoldsSession
    <3> QED
      BY <2>1, <3>1, <3>2, <3>3 DEF StopNext
  <2>2. ASSUME NEW e \in {"none", "other"}, ShutdownSettled(t, e)
        PROVE  SessionInv'
    <3>1. MapInv' /\ Kept /\ child'[sid[t]] # "open"
      BY <2>2, <2>0, <1>0, CloseMap DEF ShutdownSettled, HoldsSession
    <3>2. pc'[t] = "closeStopped" /\ sid'[t] = sid[t] /\ Alone(t)
      BY <2>2, AtEffect DEF ShutdownSettled, Alone, work
    <3>3. TaskInv(t)'
      BY <2>0, <2>2, <3>1, <3>2 DEF TaskInv, HoldsSession, Kept, ShutdownSettled, work
    <3> QED
      BY <3>1, <3>2, <3>3, SessionInvKept
  <2>3. CASE Stopped(t)
    <3>1. MapInv' /\ Kept
      BY <2>3, <2>0, <1>0
         DEF Stopped, TypeOK, MapInv, Kept, GivenUpIsClosed, TaskInv, HoldsSession, Remove
    <3>2. Alone(t) /\ TaskInv(t)'
      <4>1. CASE At(t, "stopNext", NoSession, "none") /\ UNCHANGED work
        BY <4>1, AtEffect DEF Alone, work, TaskInv, HoldsSession
      <4>2. CASE Finish(t, err[t] = "none")
        BY <4>2, FinishEffect
      <4> QED
        BY <2>3, <4>1, <4>2 DEF Stopped
    <3> QED
      BY <3>1, <3>2, SessionInvKept
  <2> QED
    BY <1>5, <2>1, <2>2, <2>3 DEF AdvanceStop
<1>6. ASSUME NEW i \in Sessions, ChildExits(i)
      PROVE  SessionInv'
  BY <1>6 DEF ChildExits, taskVars, work, TypeOK, SessionInv, MapInv, TaskInv, GivenUpIsClosed, HoldsSession
<1>7. CASE ExitAfterShutdown \/ ExitAtDeadline \/ UNCHANGED vars
  BY <1>7 DEF ExitAfterShutdown, ExitAtDeadline, vars, taskVars, work, SessionInv, MapInv, TaskInv, GivenUpIsClosed
<1> QED
  BY <1>1, <1>2, <1>3, <1>4, <1>5, <1>6, <1>7 DEF Next, ShutdownRequest, CloseInput

-----------------------------------------------------------------------------
\* Operations that do not overlap.

\* The end of standard input, and what awaits the next name, work for
\* shutdownAll.
KindInv ==
  /\ \A t \in Tasks : pc[t] = "stopNext" => kind[t] = "shutdownAll"
  /\ pc[Closer] \in {"idle", "settled", "refused"} \/ kind[Closer] = "shutdownAll"

\* No two tasks use one server.
SerialInv ==
  ~Overlap => \A t \in Tasks, u \in Tasks, s \in Servers :
                t # u => ~(Uses(t, s) /\ Uses(u, s))

\* Task t goes on with what it was doing, or ends it.
GoesOn(t) ==
  /\ Alone(t)
  /\ \A s \in Servers : Uses(t, s)' => Uses(t, s)
  /\ pc'[t] = "stopNext" => kind'[t] = "shutdownAll"
  /\ t = Closer => pc'[t] \in {"settled", "refused"} \/ kind'[t] = "shutdownAll"

LEMMA GoesOnStep ==
  ASSUME KindInv, SerialInv, NEW t \in Tasks, GoesOn(t)
  PROVE  KindInv' /\ SerialInv'
<1>1. \A u \in Tasks \ {t}, s \in Servers : Uses(u, s)' <=> Uses(u, s)
  BY DEF GoesOn, Alone, Uses
<1>2. KindInv'
  BY DEF KindInv, GoesOn, Alone
<1>3. SerialInv'
  BY <1>1 DEF SerialInv, GoesOn
<1> QED
  BY <1>2, <1>3

LEMMA FinishGoesOn ==
  ASSUME TypeOK, KindInv, NEW t \in Tasks, NEW ok, pc[t] \notin {"idle", "settled", "refused"},
         Finish(t, ok)
  PROVE  GoesOn(t)
<1>1. CASE t = Closer
  <2>1. pc'[t] \in {"settled", "refused"}
    BY <1>1, AtEffect DEF Finish
  <2>2. \A s \in Servers : Uses(t, s)
    BY <1>1 DEF KindInv, Uses
  <2> QED
    BY <2>1, <2>2, FinishEffect DEF GoesOn
<1>2. CASE t # Closer
  <2>1. pc'[t] = "idle"
    BY <1>2, AtEffect DEF Finish
  <2> QED
    BY <1>2, <2>1, FinishEffect DEF GoesOn, Uses
<1> QED
  BY <1>1, <1>2

LEMMA AtGoesOn ==
  ASSUME TypeOK, KindInv, NEW t \in Tasks, NEW label, NEW i, NEW e,
         pc[t] \notin {"idle", "settled", "refused"}, At(t, label, i, e), UNCHANGED work,
         label = "stopNext" => kind[t] = "shutdownAll"
  PROVE  GoesOn(t)
<1>1. pc'[t] = label /\ Alone(t)
  BY AtEffect DEF Alone, work
<1> QED
  BY <1>1 DEF GoesOn, Uses, KindInv, work

LEMMA StartGoesOn ==
  ASSUME TypeOK, KindInv, NEW t \in Tasks, NEW s, pc[t] \notin {"idle", "settled", "refused"},
         UNCHANGED work, GetOrStart(t, s) \/ Start(t, s)
  PROVE  GoesOn(t)
  BY AtGoesOn DEF GetOrStart, Start

LEMMA AttemptOverGoesOn ==
  ASSUME TypeOK, KindInv, NEW o \in Ops, pc[o] \notin {"idle", "settled", "refused"},
         AttemptOver(o)
  PROVE  GoesOn(o)
  BY AtGoesOn, FinishGoesOn DEF AttemptOver

LEMMA AttemptGoesOn ==
  ASSUME TypeOK, KindInv, NEW o \in Ops, AdvanceAttempt(o)
  PROVE  GoesOn(o)
<1>1. CASE Retry(o) \/ StartAfterClose(o)
  BY <1>1, StartGoesOn DEF Retry, StartAfterClose
<1>2. CASE Initialized(o)
  BY <1>2, AtGoesOn DEF Initialized
<1>3. ASSUME NEW e \in {"transport", "other"}, InitializeFailed(o, e)
      PROVE  GoesOn(o)
  BY <1>3, AtGoesOn DEF InitializeFailed
<1>4. CASE FailedStartRemoved(o)
  BY <1>4, AtGoesOn DEF FailedStartRemoved
<1>5. CASE UseSession(o)
  BY <1>5, AtGoesOn, FinishGoesOn DEF UseSession
<1>6. CASE RequestAnswered(o)
  BY <1>6, FinishGoesOn DEF RequestAnswered
<1>7. ASSUME NEW e \in {"transport", "other"}, RequestFailed(o, e)
      PROVE  GoesOn(o)
  BY <1>7, AtGoesOn DEF RequestFailed
<1>8. CASE OnFailure(o)
  BY <1>8, AtGoesOn, AttemptOverGoesOn DEF OnFailure
<1>9. CASE Invalidated(o)
  BY <1>9, AttemptOverGoesOn DEF Invalidated
<1> QED
  BY <1>1, <1>2, <1>3, <1>4, <1>5, <1>6, <1>7, <1>8, <1>9 DEF AdvanceAttempt

LEMMA StopGoesOn ==
  ASSUME TypeOK, KindInv, NEW t \in Tasks, AdvanceStop(t)
  PROVE  GoesOn(t)
<1>1. CASE StopNext(t)
  <2>1. kind[t] = "shutdownAll" /\ \A s \in Servers : Uses(t, s)
    BY <1>1 DEF KindInv, StopNext, Uses
  <2>2. ASSUME NEW s \in todo[t], Work(t, "shutdownAll", s, todo[t] \ {s}), AwaitShutdown(t, s)
        PROVE  GoesOn(t)
    BY <2>1, <2>2, AtEffect, WorkEffect DEF AwaitShutdown, GoesOn, Alone
  <2>3. ASSUME NEW s \in todo[t], Work(t, "shutdownAll", s, todo[t] \ {s}),
               UNCHANGED <<pc, sid, err>>
        PROVE  GoesOn(t)
    BY <2>1, <2>3, WorkEffect DEF GoesOn, Alone
  <2> QED
    BY <1>1, <2>2, <2>3, FinishGoesOn DEF StopNext
<1>2. ASSUME NEW e \in {"none", "other"}, ShutdownSettled(t, e)
      PROVE  GoesOn(t)
  BY <1>2, AtGoesOn DEF ShutdownSettled
<1>3. CASE Stopped(t)
  BY <1>3, AtGoesOn, FinishGoesOn DEF Stopped
<1> QED
  BY <1>1, <1>2, <1>3 DEF AdvanceStop

\* A task that takes up an operation on the servers of S, when it may.
LEMMA TakesUp ==
  ASSUME TypeOK, KindInv, SerialInv, NEW t \in Tasks, NEW S \in SUBSET Servers, MayStart(S),
         Alone(t), \A s \in Servers : Uses(t, s)' => s \in S,
         pc'[t] = "stopNext" => kind'[t] = "shutdownAll",
         t = Closer => kind'[t] = "shutdownAll"
  PROVE  KindInv' /\ SerialInv'
<1>1. \A u \in Tasks \ {t}, s \in Servers : Uses(u, s)' <=> Uses(u, s)
  BY DEF Alone, Uses
<1>2. KindInv'
  BY DEF KindInv, Alone
<1>3. SerialInv'
  BY <1>1 DEF SerialInv, MayStart
<1> QED
  BY <1>2, <1>3

LEMMA BeginTakesUp ==
  ASSUME TypeOK, NEW o \in Ops, NEW k, NEW s \in Servers, k # "shutdownAll",
         Work(o, k, s, {}), GetOrStart(o, s) \/ AwaitShutdown(o, s)
  PROVE  Alone(o) /\ (\A r \in Servers : Uses(o, r)' => r = s) /\ pc'[o] # "stopNext"
<1>1. /\ kind'[o] = k /\ on'[o] = s
      /\ \A u \in Tasks \ {o} : kind'[u] = kind[u] /\ on'[u] = on[u] /\ todo'[u] = todo[u]
  BY WorkEffect
<1>2. pc'[o] # "stopNext" /\ \A u \in Tasks \ {o} : pc'[u] = pc[u] /\ sid'[u] = sid[u]
  BY AtEffect DEF GetOrStart, Start, AwaitShutdown
<1> QED
  BY <1>1, <1>2 DEF Alone, Uses

LEMMA ShutdownAllTakesUp ==
  ASSUME TypeOK, NEW t \in Tasks, BeginShutdownAll(t)
  PROVE  Alone(t) /\ pc'[t] = "stopNext" /\ kind'[t] = "shutdownAll"
  BY AtEffect, WorkEffect DEF BeginShutdownAll, Alone

LEMMA SerialStep ==
  ASSUME TypeOK, KindInv, SerialInv, [Next]_vars
  PROVE  KindInv' /\ SerialInv'
<1>1. ASSUME NEW o \in Ops, NEW k \in Offered[o] \cap Attempts, NEW s \in Servers, Begin(o, k, s)
      PROVE  KindInv' /\ SerialInv'
  <2>1. k # "shutdownAll"
    BY DEF Attempts
  <2> QED
    BY <1>1, <2>1, BeginTakesUp, TakesUp DEF Begin
<1>2. ASSUME NEW o \in Ops, NEW s \in Servers, BeginStop(o, s)
      PROVE  KindInv' /\ SerialInv'
  BY <1>2, BeginTakesUp, TakesUp DEF BeginStop
<1>3. ASSUME NEW t \in Tasks, BeginShutdownAll(t)
      PROVE  KindInv' /\ SerialInv'
  BY <1>3, ShutdownAllTakesUp, TakesUp DEF BeginShutdownAll
<1>4. ASSUME NEW o \in Ops, AdvanceAttempt(o)
      PROVE  KindInv' /\ SerialInv'
  BY <1>4, AttemptGoesOn, GoesOnStep
<1>5. ASSUME NEW t \in Tasks, AdvanceStop(t)
      PROVE  KindInv' /\ SerialInv'
  BY <1>5, StopGoesOn, GoesOnStep
<1>6. CASE UNCHANGED taskVars
  BY <1>6 DEF taskVars, work, KindInv, SerialInv, Uses
<1> QED
  BY <1>1, <1>2, <1>3, <1>4, <1>5, <1>6
     DEF Next, ShutdownRequest, CloseInput, ExitAfterShutdown, ExitAtDeadline, ChildExits, vars

-----------------------------------------------------------------------------
\* No orphan while operations do not overlap.

\* A task that is to remove its server's entry finds its own session there; one
\* that is to register a session finds the entry free.
Holds(t) ==
  /\ pc[t] \in {"starting", "closeFailed", "shutdown", "noShutdown", "closeStopped"} =>
       sessions[on[t]] = sid[t]
  /\ pc[t] = "closeOld" => sessions[on[t]] = NoSession

HoldInv == ~Overlap => \A t \in Tasks : Holds(t)

OrphanInv == HoldInv /\ NoOrphan

\* Task t, which alone moves, is the only one that uses s, the only entry that
\* may have changed.
Owns(t, s) ==
  /\ Alone(t)
  /\ \A u \in Tasks \ {t} : ~Uses(u, s)
  /\ \A r \in Servers \ {s} : sessions'[r] = sessions[r]

LEMMA HoldKept ==
  ASSUME TypeOK, HoldInv, ~Overlap, NEW t \in Tasks, NEW s \in Servers, Owns(t, s), Holds(t)'
  PROVE  HoldInv'
<1>1. ASSUME NEW u \in Tasks \ {t} PROVE Holds(u)'
  <2>1. on[u] \in Servers /\ (pc[u] # "idle" => on[u] # s)
    BY DEF TypeOK, Owns, Uses
  <2> QED
    BY <2>1 DEF HoldInv, Holds, Owns, Alone
<1> QED
  BY <1>1 DEF HoldInv

LEMMA OwnEntry ==
  ASSUME TypeOK, SerialInv, ~Overlap, NEW t \in Tasks, pc[t] # "idle"
  PROVE  on[t] \in Servers /\ \A u \in Tasks \ {t} : ~Uses(u, on[t])
  BY DEF TypeOK, SerialInv, Uses

LEMMA StartNoOrphan ==
  ASSUME TypeOK, MapInv, OrphanInv, ~Overlap, NEW t \in Tasks, NEW s \in Servers,
         sessions[s] = NoSession, Start(t, s), Alone(t), on'[t] = s,
         \A u \in Tasks \ {t} : ~Uses(u, s)
  PROVE  OrphanInv'
<1>1. CASE At(t, "threw", NoSession, "other") /\ UNCHANGED <<sessions, status, owner, child>>
  <2>1. Holds(t)' /\ Owns(t, s)
    BY <1>1, AtEffect DEF Holds, Owns
  <2> QED
    BY <1>1, <2>1, HoldKept DEF OrphanInv, NoOrphan
<1>2. ASSUME NEW i \in Sessions, Create(s, i), At(t, "starting", i, "none")
      PROVE  OrphanInv'
  <2>1. /\ owner'[i] = s /\ sessions'[s] = i
        /\ \A r \in Servers \ {s} : sessions'[r] = sessions[r]
        /\ \A j \in Sessions \ {i} : child'[j] = child[j] /\ owner'[j] = owner[j]
    BY <1>2, CreateMap
  <2>2. Holds(t)' /\ Owns(t, s)
    BY <1>2, <2>1, AtEffect DEF Holds, Owns
  <2>3. ASSUME NEW j \in Sessions \ {i}, child[j] = "open"
        PROVE  sessions'[owner[j]] = j
    BY <2>1, <2>3 DEF OrphanInv, NoOrphan, TypeOK
  <2>4. NoOrphan'
    BY <2>1, <2>3 DEF NoOrphan
  <2> QED
    BY <2>2, <2>4, HoldKept DEF OrphanInv
<1> QED
  BY <1>1, <1>2 DEF Start

LEMMA InvalidateNoOrphan ==
  ASSUME TypeOK, MapInv, NoOrphan, ~Overlap, NEW s \in Servers, Invalidate(s), UNCHANGED owner
  PROVE  NoOrphan'
<1>1. ASSUME NEW j \in Sessions, child'[j] = "open"
      PROVE  sessions'[owner[j]] = j
  <2>1. j # sessions[s] /\ child[j] = "open" /\ sessions[owner[j]] = j /\ owner[j] \in Servers
    BY <1>1, InvalidateMap DEF NoOrphan, TypeOK
  <2> QED
    BY <2>1, InvalidateMap
<1> QED
  BY <1>1 DEF NoOrphan

LEMMA GetOrStartNoOrphan ==
  ASSUME TypeOK, MapInv, OrphanInv, ~Overlap, NEW t \in Tasks, NEW s \in Servers,
         GetOrStart(t, s), Alone(t), on'[t] = s, \A u \in Tasks \ {t} : ~Uses(u, s)
  PROVE  OrphanInv'
<1>1. CASE At(t, "got", sessions[s], "none") /\ UNCHANGED <<sessions, status, owner, child>>
  <2>1. Holds(t)' /\ Owns(t, s)
    BY <1>1, AtEffect DEF Holds, Owns
  <2> QED
    BY <1>1, <2>1, HoldKept DEF OrphanInv, NoOrphan
<1>2. CASE Invalidate(s) /\ At(t, "closeOld", NoSession, "none") /\ UNCHANGED owner
  <2>1. Holds(t)' /\ Owns(t, s)
    BY <1>2, AtEffect, InvalidateMap DEF Holds, Owns
  <2> QED
    BY <1>2, <2>1, HoldKept, InvalidateNoOrphan DEF OrphanInv
<1>3. CASE sessions[s] = NoSession /\ Start(t, s)
  BY <1>3, StartNoOrphan
<1> QED
  BY <1>1, <1>2, <1>3 DEF GetOrStart

\* A step that changes no entry and starts no child.
LEMMA QuietNoOrphan ==
  ASSUME TypeOK, OrphanInv, ~Overlap, NEW t \in Tasks, Alone(t), Holds(t)',
         UNCHANGED <<sessions, owner>>,
         \A i \in Sessions : child'[i] = "open" => child[i] = "open"
  PROVE  OrphanInv'
<1>1. ASSUME NEW u \in Tasks \ {t} PROVE Holds(u)'
  BY DEF OrphanInv, HoldInv, Holds, Alone
<1> QED
  BY <1>1 DEF OrphanInv, HoldInv, NoOrphan

\* A task that removes its server's entry, where its own session is, closed.
LEMMA RemoveNoOrphan ==
  ASSUME TypeOK, OrphanInv, SerialInv, ~Overlap, NEW t \in Tasks, Alone(t), TaskInv(t),
         pc[t] \in {"closeFailed", "closeStopped"}, pc'[t] \in {"threw", "stopNext", "idle", "settled", "refused"},
         Remove(on[t]), UNCHANGED <<owner, child>>
  PROVE  OrphanInv'
<1>1. on[t] \in Servers /\ sessions[on[t]] = sid[t] /\ child[sid[t]] # "open"
  BY DEF TypeOK, OrphanInv, HoldInv, Holds, TaskInv
<1>2. \A r \in Servers \ {on[t]} : sessions'[r] = sessions[r]
  BY <1>1 DEF TypeOK, Remove
<1>3. Owns(t, on[t])
  BY <1>2, OwnEntry DEF Owns
<1>4. ASSUME NEW j \in Sessions, child[j] = "open"
      PROVE  sessions'[owner[j]] = j
  BY <1>1, <1>2, <1>4 DEF OrphanInv, NoOrphan, TypeOK
<1>5. HoldInv'
  BY <1>1, <1>3, HoldKept DEF OrphanInv, Holds
<1> QED
  BY <1>4, <1>5 DEF OrphanInv, NoOrphan

LEMMA OrphanStep ==
  ASSUME TypeOK, SessionInv, KindInv, SerialInv, OrphanInv, [Next]_vars
  PROVE  OrphanInv'
<1> SUFFICES ASSUME ~Overlap PROVE OrphanInv'
  BY DEF OrphanInv, HoldInv, NoOrphan
<1>0. MapInv /\ (\A t \in Tasks : TaskInv(t) /\ Holds(t)) /\ \A t \in Tasks : on[t] \in Servers
  BY DEF SessionInv, TypeOK, OrphanInv, HoldInv
<1>1. ASSUME NEW o \in Ops, NEW k \in Offered[o] \cap Attempts, NEW s \in Servers, Begin(o, k, s)
      PROVE  OrphanInv'
  <2>1. k # "shutdownAll"
    BY DEF Attempts
  <2> QED
    BY <1>0, <1>1, <2>1, BeginTakesUp, WorkEffect, GetOrStartNoOrphan DEF Begin, MayStart
<1>2. ASSUME NEW o \in Ops, NEW s \in Servers, BeginStop(o, s)
      PROVE  OrphanInv'
  <2>1. Alone(o) /\ on'[o] = s /\ sid'[o] = sessions[s] /\ pc'[o] \in {"noShutdown", "shutdown"}
    BY <1>2, BeginTakesUp, WorkEffect, AtEffect DEF BeginStop, AwaitShutdown
  <2> QED
    BY <1>2, <2>1, QuietNoOrphan DEF BeginStop, Holds
<1>3. ASSUME NEW t \in Tasks, BeginShutdownAll(t)
      PROVE  OrphanInv'
  BY <1>3, ShutdownAllTakesUp, QuietNoOrphan DEF BeginShutdownAll, Holds
<1>4. ASSUME NEW o \in Ops, AdvanceAttempt(o)
      PROVE  OrphanInv'
  <2>0. Alone(o)
    BY <1>4, AttemptGoesOn DEF GoesOn
  <2>1. CASE Retry(o)
    BY <2>0, <2>1, <1>0, OwnEntry, GetOrStartNoOrphan DEF Retry, work
  <2>2. CASE StartAfterClose(o)
    BY <2>0, <2>2, <1>0, OwnEntry, StartNoOrphan DEF StartAfterClose, work, Holds
  <2>3. CASE Initialized(o)
    <3>1. pc'[o] = "got"
      BY <2>3, AtEffect DEF Initialized
    <3> QED
      BY <2>0, <2>3, <3>1, QuietNoOrphan DEF Initialized, Holds
  <2>4. ASSUME NEW e \in {"transport", "other"}, InitializeFailed(o, e)
        PROVE  OrphanInv'
    <3>1. pc'[o] = "closeFailed" /\ sid'[o] = sid[o]
      BY <2>4, AtEffect DEF InitializeFailed
    <3>2. \A i \in Sessions : child'[i] = "open" => child[i] = "open"
      BY <2>4 DEF InitializeFailed, Close, TypeOK
    <3>3. Holds(o)'
      BY <2>4, <1>0, <3>1 DEF InitializeFailed, work, Holds
    <3> QED
      BY <2>0, <2>4, <3>2, <3>3, QuietNoOrphan DEF InitializeFailed
  <2>5. CASE FailedStartRemoved(o)
    <3>1. pc'[o] = "threw"
      BY <2>5, AtEffect DEF FailedStartRemoved
    <3> QED
      BY <2>0, <2>5, <3>1, <1>0, RemoveNoOrphan DEF FailedStartRemoved
  <2>6. CASE UseSession(o)
    <3>1. pc'[o] \in {"idle", "settled", "refused", "using", "threw"}
      <4>1. \/ Finish(o, TRUE)
            \/ At(o, "using", sid[o], "none")
            \/ At(o, "threw", NoSession, "transport")
        BY <2>6 DEF UseSession
      <4> QED
        BY <4>1, <1>0, AtEffect, FinishEffect
    <3> QED
      BY <2>0, <2>6, <3>1, QuietNoOrphan DEF UseSession, Holds
  <2>7. CASE RequestAnswered(o)
    <3>1. pc'[o] \in {"idle", "settled", "refused"}
      BY <2>7, FinishEffect DEF RequestAnswered
    <3> QED
      BY <2>0, <2>7, <3>1, QuietNoOrphan DEF RequestAnswered, Holds
  <2>8. ASSUME NEW e \in {"transport", "other"}, RequestFailed(o, e)
        PROVE  OrphanInv'
    <3>1. pc'[o] = "threw"
      BY <2>8, AtEffect DEF RequestFailed
    <3> QED
      BY <2>0, <2>8, <3>1, QuietNoOrphan DEF RequestFailed, Holds
  <2>9. CASE OnFailure(o)
    <3>1. CASE Invalidate(on[o]) /\ At(o, "closeBad", NoSession, "none") /\ UNCHANGED owner
      <4>1. pc'[o] = "closeBad" /\ Holds(o)'
        BY <3>1, AtEffect DEF Holds
      <4>2. Owns(o, on[o])
        BY <2>0, <2>9, <3>1, <1>0, OwnEntry, InvalidateMap DEF OnFailure, Owns
      <4> QED
        BY <3>1, <4>1, <4>2, <1>0, HoldKept, InvalidateNoOrphan DEF OrphanInv
    <3>2. CASE AttemptOver(o) /\ UNCHANGED <<sessions, owner, child>>
      <4>1. pc'[o] \in {"idle", "settled", "refused", "backoff"}
        BY <3>2, AtEffect, FinishEffect DEF AttemptOver
      <4> QED
        BY <2>0, <3>2, <4>1, QuietNoOrphan DEF Holds
    <3> QED
      BY <2>9, <3>1, <3>2 DEF OnFailure
  <2>10. CASE Invalidated(o)
    <3>1. pc'[o] \in {"idle", "settled", "refused", "backoff"}
      BY <2>10, AtEffect, FinishEffect DEF Invalidated, AttemptOver
    <3> QED
      BY <2>0, <2>10, <3>1, QuietNoOrphan DEF Invalidated, Holds
  <2> QED
    BY <1>4, <2>1, <2>2, <2>3, <2>4, <2>5, <2>6, <2>7, <2>8, <2>9, <2>10 DEF AdvanceAttempt
<1>5. ASSUME NEW t \in Tasks, AdvanceStop(t)
      PROVE  OrphanInv'
  <2>0. Alone(t)
    BY <1>5, StopGoesOn DEF GoesOn
  <2>1. CASE StopNext(t)
    <3>1. CASE Finish(t, TRUE)
      BY <2>0, <2>1, <3>1, FinishEffect, QuietNoOrphan DEF StopNext, Holds
    <3>2. ASSUME NEW s \in todo[t], Work(t, "shutdownAll", s, todo[t] \ {s}), AwaitShutdown(t, s)
          PROVE  OrphanInv'
      <4>1. on'[t] = s /\ sid'[t] = sessions[s] /\ pc'[t] \in {"noShutdown", "shutdown"}
        BY <3>2, WorkEffect, AtEffect DEF AwaitShutdown
      <4> QED
        BY <2>0, <2>1, <4>1, QuietNoOrphan DEF StopNext, Holds
    <3>3. CASE UNCHANGED <<pc, sid, err>>
      BY <2>0, <2>1, <3>3, QuietNoOrphan DEF StopNext, Holds
    <3> QED
      BY <2>1, <3>1, <3>2, <3>3 DEF StopNext
  <2>2. ASSUME NEW e \in {"none", "other"}, ShutdownSettled(t, e)
        PROVE  OrphanInv'
    <3>1. pc'[t] = "closeStopped" /\ sid'[t] = sid[t]
      BY <2>2, AtEffect DEF ShutdownSettled
    <3>2. \A i \in Sessions : child'[i] = "open" => child[i] = "open"
      BY <2>2 DEF ShutdownSettled, Close, TypeOK
    <3>3. Holds(t)'
      BY <2>2, <1>0, <3>1 DEF ShutdownSettled, work, Holds
    <3> QED
      BY <2>0, <2>2, <3>2, <3>3, QuietNoOrphan DEF ShutdownSettled
  <2>3. CASE Stopped(t)
    <3>1. pc'[t] \in {"stopNext", "idle", "settled", "refused"}
      BY <2>3, AtEffect, FinishEffect DEF Stopped
    <3> QED
      BY <2>0, <2>3, <3>1, <1>0, RemoveNoOrphan DEF Stopped
  <2> QED
    BY <1>5, <2>1, <2>2, <2>3 DEF AdvanceStop
<1>6. CASE UNCHANGED <<sessions, owner, taskVars>>
           /\ \A i \in Sessions : child'[i] = "open" => child[i] = "open"
  BY <1>6 DEF taskVars, work, OrphanInv, HoldInv, Holds, NoOrphan
<1>7. CASE ExitAfterShutdown \/ ExitAtDeadline \/ UNCHANGED vars
  BY <1>6, <1>7 DEF ExitAfterShutdown, ExitAtDeadline, vars
<1>8. ASSUME NEW i \in Sessions, ChildExits(i)
      PROVE  OrphanInv'
  BY <1>6, <1>8 DEF ChildExits, TypeOK
<1> QED
  BY <1>1, <1>2, <1>3, <1>4, <1>5, <1>7, <1>8 DEF Next, ShutdownRequest, CloseInput

-----------------------------------------------------------------------------
\* The end of the process.

\* The names still registered are those that shutdownAll has yet to come to, or
\* is about to remove.
Listed(S) == \A s \in Servers : sessions[s] # NoSession => s \in S

CloserInv ==
  \/ pc[Closer] = "stopNext" /\ Listed(todo[Closer])
  \/ /\ pc[Closer] \in {"noShutdown", "shutdown", "closeStopped"}
     /\ Listed(todo[Closer] \cup {on[Closer]})
  \/ pc[Closer] = "settled" /\ Listed({})
  \/ pc[Closer] = "refused"

ExitInv ==
  ~Overlap =>
    /\ ~closing => pc[Closer] = "idle" /\ exit = "no"
    /\ closing => CloserInv /\ \A o \in Ops : pc[o] = "idle"
    /\ exit = "clean" => closing /\ pc[Closer] = "settled"

LEMMA ExitStep ==
  ASSUME TypeOK, KindInv, ExitInv, [Next]_vars
  PROVE  ExitInv'
<1> SUFFICES ASSUME ~Overlap PROVE ExitInv'
  BY DEF ExitInv
<1> USE DEF ExitInv
\* An operation moves only before standard input closes.
<1>1. ASSUME NEW o \in Ops, ~closing, ~closing', Alone(o), exit' = exit
      PROVE  ExitInv'
  BY <1>1 DEF Alone
<1>2. ASSUME NEW o \in Ops, NEW k \in Offered[o] \cap Attempts, NEW s \in Servers, Begin(o, k, s)
      PROVE  ExitInv'
  <2>1. k # "shutdownAll"
    BY DEF Attempts
  <2> QED
    BY <1>1, <1>2, <2>1, BeginTakesUp DEF Begin, MayStart
<1>3. ASSUME NEW o \in Ops, NEW s \in Servers, BeginStop(o, s)
      PROVE  ExitInv'
  BY <1>1, <1>3, BeginTakesUp DEF BeginStop, MayStart
<1>4. ASSUME NEW o \in Ops, ShutdownRequest(o)
      PROVE  ExitInv'
  BY <1>1, <1>4, ShutdownAllTakesUp DEF ShutdownRequest, BeginShutdownAll, MayStart
<1>5. CASE CloseInput
  <2>1. Alone(Closer) /\ pc'[Closer] = "stopNext"
    BY <1>5, ShutdownAllTakesUp DEF CloseInput
  <2>2. todo'[Closer] = {s \in Servers : sessions[s] # NoSession}
    BY <1>5, WorkEffect DEF CloseInput, BeginShutdownAll
  <2>3. \A o \in Ops : pc[o] = "idle"
    BY <1>5 DEF CloseInput, BeginShutdownAll, MayStart, Uses, TypeOK
  <2>4. \A o \in Ops : pc'[o] = "idle"
    BY <2>1, <2>3 DEF Alone
  <2>5. CloserInv'
    BY <1>5, <2>1, <2>2 DEF CloserInv, Listed, CloseInput, BeginShutdownAll
  <2>6. exit' = "no" /\ closing'
    BY <1>5 DEF CloseInput, BeginShutdownAll, MayStart, Alive
  <2> QED
    BY <2>4, <2>5, <2>6
<1>6. ASSUME NEW o \in Ops, AdvanceAttempt(o)
      PROVE  ExitInv'
  <2>1. pc[o] # "idle" /\ exit' = exit /\ closing' = closing
    BY <1>6
       DEF AdvanceAttempt, Retry, StartAfterClose, Initialized, InitializeFailed, FailedStartRemoved,
           UseSession, RequestAnswered, RequestFailed, OnFailure, Invalidated
  <2> QED
    BY <1>1, <1>6, <2>1, AttemptGoesOn DEF GoesOn, TypeOK
<1>7. ASSUME NEW t \in Tasks, AdvanceStop(t)
      PROVE  ExitInv'
  <2>0. Alone(t) /\ pc[t] # "idle" /\ exit = "no" /\ exit' = exit /\ closing' = closing
    BY <1>7, StopGoesOn DEF GoesOn, AdvanceStop, StopNext, ShutdownSettled, Stopped, Alive
  <2>1. CASE t \in Ops
    BY <1>1, <2>0, <2>1 DEF TypeOK
  <2>2. CASE t = Closer
    <3>1. closing /\ CloserInv /\ kind[t] = "shutdownAll"
      BY <1>7, <2>0, <2>2 DEF KindInv, AdvanceStop, StopNext, ShutdownSettled, Stopped
    <3>2. CASE StopNext(t)
      <4>1. ASSUME todo[t] = {}, Finish(t, TRUE)
            PROVE  CloserInv'
        <5>1. pc'[t] = "settled"
          BY <2>2, <4>1, AtEffect DEF Finish
        <5> QED
          BY <2>2, <3>1, <3>2, <4>1, <5>1 DEF CloserInv, Listed, StopNext
      <4>2. ASSUME NEW s \in todo[t], Work(t, "shutdownAll", s, todo[t] \ {s}), AwaitShutdown(t, s)
            PROVE  CloserInv'
        <5>1. pc'[t] \in {"noShutdown", "shutdown"}
          BY <4>2, AtEffect DEF AwaitShutdown
        <5>2. on'[t] = s /\ todo'[t] = todo[t] \ {s}
          BY <4>2, WorkEffect
        <5> QED
          BY <2>2, <3>1, <3>2, <5>1, <5>2 DEF CloserInv, Listed, StopNext
      <4>3. ASSUME NEW s \in todo[t], Work(t, "shutdownAll", s, todo[t] \ {s}),
                   sessions[s] = NoSession, UNCHANGED <<pc, sid, err>>
            PROVE  CloserInv'
        <5>1. todo'[t] = todo[t] \ {s}
          BY <4>3, WorkEffect
        <5> QED
          BY <2>2, <3>1, <3>2, <4>3, <5>1 DEF CloserInv, Listed, StopNext
      <4>4. CloserInv'
        BY <3>2, <4>1, <4>2, <4>3 DEF StopNext
      <4> QED
        BY <2>0, <2>2, <3>1, <4>4 DEF Alone
    <3>3. ASSUME NEW e \in {"none", "other"}, ShutdownSettled(t, e)
          PROVE  ExitInv'
      <4>1. pc'[t] = "closeStopped"
        BY <3>3, AtEffect DEF ShutdownSettled
      <4>2. CloserInv'
        BY <2>2, <3>1, <3>3, <4>1 DEF CloserInv, Listed, ShutdownSettled, work
      <4> QED
        BY <2>0, <2>2, <3>1, <4>2 DEF Alone
    <3>4. CASE Stopped(t)
      <4>1. \A s \in Servers : sessions'[s] # NoSession => sessions[s] # NoSession /\ s # on[t]
        BY <3>4 DEF Stopped, Remove, TypeOK
      <4>2. CASE err[t] = "none"
        <5>1. pc'[t] = "stopNext" /\ todo' = todo
          BY <3>1, <3>4, <4>2, AtEffect DEF Stopped, work
        <5> QED
          BY <2>0, <2>2, <3>1, <3>4, <4>1, <5>1 DEF CloserInv, Listed, Stopped, Alone
      <4>3. CASE err[t] # "none"
        <5>1. pc'[t] = "refused"
          BY <2>2, <3>4, <4>3, AtEffect DEF Stopped, Finish
        <5> QED
          BY <2>0, <2>2, <3>1, <5>1 DEF CloserInv, Alone
      <4> QED
        BY <4>2, <4>3
    <3> QED
      BY <1>7, <3>2, <3>3, <3>4 DEF AdvanceStop
  <2> QED
    BY <2>1, <2>2
<1>8. CASE ExitAfterShutdown
  <2>1. closing
    BY <1>8 DEF ExitAfterShutdown
  <2> QED
    BY <1>8, <2>1 DEF ExitAfterShutdown, taskVars, work, CloserInv, Listed
<1>9. CASE ExitAtDeadline
  BY <1>9 DEF ExitAtDeadline, taskVars, work, CloserInv, Listed
<1>10. CASE UNCHANGED <<sessions, taskVars, closing, exit>>
  BY <1>10 DEF taskVars, work, CloserInv, Listed
<1> QED
  BY <1>2, <1>3, <1>4, <1>5, <1>6, <1>7, <1>8, <1>9, <1>10 DEF Next, ChildExits, vars

-----------------------------------------------------------------------------
\* Dead sessions, whatever overlaps.

Dead(i) == status[i] \in {"failed", "stopped"}

\* No entry leads to a session that just died.
NoNewDead ==
  \A s \in Servers : sessions'[s] # NoSession /\ status'[sessions'[s]] \in {"failed", "stopped"} =>
    sessions'[s] = sessions[s] /\ Dead(sessions[s])

LEMMA DeadKept ==
  ASSUME TypeOK, DeadIsLeaving, NoNewDead, NEW t \in Tasks, Alone(t), pc[t] # "closeFailed"
  PROVE  DeadIsLeaving'
  BY DEF DeadIsLeaving, NoNewDead, Alone, Dead

LEMMA StartNoNewDead ==
  ASSUME TypeOK, MapInv, NEW t, NEW s \in Servers, Start(t, s)
  PROVE  NoNewDead
<1>1. CASE UNCHANGED <<sessions, status>>
  BY <1>1 DEF NoNewDead, Dead
<1>2. ASSUME NEW i \in Sessions, Create(s, i)
      PROVE  NoNewDead
  BY <1>2, CreateMap DEF NoNewDead, Dead, TypeOK
<1> QED
  BY <1>1, <1>2 DEF Start

LEMMA InvalidateNoNewDead ==
  ASSUME TypeOK, MapInv, NEW s \in Servers, Invalidate(s), UNCHANGED owner
  PROVE  NoNewDead
<1>1. \A r \in Servers \ {s} : sessions[r] # NoSession => sessions[r] # sessions[s]
  BY DEF MapInv, Invalidate
<1>2. \A i \in Sessions \ {sessions[s]} : status'[i] = status[i]
  BY DEF TypeOK, Invalidate
<1> QED
  BY <1>1, <1>2, InvalidateMap DEF NoNewDead, Dead, TypeOK

LEMMA GetOrStartNoNewDead ==
  ASSUME TypeOK, MapInv, NEW t, NEW s \in Servers, GetOrStart(t, s)
  PROVE  NoNewDead
<1>1. CASE UNCHANGED <<sessions, status>>
  BY <1>1 DEF NoNewDead, Dead
<1>2. CASE Invalidate(s) /\ UNCHANGED owner
  BY <1>2, InvalidateNoNewDead
<1>3. CASE Start(t, s)
  BY <1>3, StartNoNewDead
<1> QED
  BY <1>1, <1>2, <1>3 DEF GetOrStart

LEMMA DeadStep ==
  ASSUME TypeOK, SessionInv, KindInv, DeadIsLeaving, [Next]_vars
  PROVE  DeadIsLeaving'
<1>0. MapInv /\ (\A t \in Tasks : TaskInv(t)) /\ \A t \in Tasks : on[t] \in Servers
  BY DEF SessionInv, TypeOK
<1>1. ASSUME UNCHANGED <<sessions, status>>
      PROVE  NoNewDead
  BY <1>1 DEF NoNewDead, Dead
<1>2. ASSUME NEW o \in Ops, NEW k \in Offered[o] \cap Attempts, NEW s \in Servers, Begin(o, k, s)
      PROVE  DeadIsLeaving'
  <2>1. k # "shutdownAll"
    BY DEF Attempts
  <2> QED
    BY <1>0, <1>2, <2>1, BeginTakesUp, GetOrStartNoNewDead, DeadKept DEF Begin
<1>3. ASSUME NEW o \in Ops, NEW s \in Servers, BeginStop(o, s)
      PROVE  DeadIsLeaving'
  BY <1>1, <1>3, BeginTakesUp, DeadKept DEF BeginStop
<1>4. ASSUME NEW t \in Tasks, BeginShutdownAll(t)
      PROVE  DeadIsLeaving'
  BY <1>1, <1>4, ShutdownAllTakesUp, DeadKept DEF BeginShutdownAll
<1>5. ASSUME NEW o \in Ops, AdvanceAttempt(o)
      PROVE  DeadIsLeaving'
  <2>0. Alone(o)
    BY <1>5, AttemptGoesOn DEF GoesOn
  <2>1. CASE Retry(o)
    BY <2>0, <2>1, <1>0, GetOrStartNoNewDead, DeadKept DEF Retry
  <2>2. CASE StartAfterClose(o)
    BY <2>0, <2>2, <1>0, StartNoNewDead, DeadKept DEF StartAfterClose
  <2>3. CASE Initialized(o)
    <3>1. NoNewDead
      BY <2>3 DEF Initialized, NoNewDead, Dead, TypeOK
    <3> QED
      BY <2>0, <2>3, <3>1, DeadKept DEF Initialized
  <2>4. ASSUME NEW e \in {"transport", "other"}, InitializeFailed(o, e)
        PROVE  DeadIsLeaving'
    <3>1. pc'[o] = "closeFailed" /\ sid'[o] = sid[o] /\ on'[o] = on[o] /\ pc[o] = "starting"
      BY <2>4, AtEffect DEF InitializeFailed, work
    <3>2. sid[o] \in Sessions /\ owner[sid[o]] = on[o]
      BY <3>1, <1>0 DEF TaskInv, HoldsSession
    <3>3. \A i \in Sessions \ {sid[o]} : status'[i] = status[i]
      BY <2>4 DEF InitializeFailed, TypeOK
    <3>4. ASSUME NEW s \in Servers, sessions[s] # NoSession,
                 status'[sessions[s]] \in {"failed", "stopped"}
          PROVE  \E p \in Ops : pc'[p] = "closeFailed" /\ sid'[p] = sessions[s] /\ on'[p] = s
      <4>1. CASE sessions[s] = sid[o]
        BY <3>1, <3>2, <3>4, <4>1, <1>0 DEF MapInv
      <4>2. CASE sessions[s] # sid[o]
        <5>1. Dead(sessions[s])
          BY <3>3, <3>4, <4>2 DEF Dead, TypeOK
        <5>2. PICK p \in Ops : pc[p] = "closeFailed" /\ sid[p] = sessions[s] /\ on[p] = s
          BY <3>4, <5>1 DEF DeadIsLeaving, Dead
        <5> QED
          BY <2>0, <3>1, <5>2 DEF Alone
      <4> QED
        BY <4>1, <4>2
    <3>5. sessions' = sessions
      BY <2>4 DEF InitializeFailed
    <3> QED
      BY <3>4, <3>5 DEF DeadIsLeaving, Dead
  <2>5. CASE FailedStartRemoved(o)
    <3>1. sessions'[on[o]] = NoSession /\ \A r \in Servers \ {on[o]} : sessions'[r] = sessions[r]
      BY <2>5, <1>0 DEF FailedStartRemoved, Remove, TypeOK
    <3>2. status' = status
      BY <2>5 DEF FailedStartRemoved
    <3> QED
      BY <2>0, <3>1, <3>2 DEF DeadIsLeaving, Alone
  <2>6. CASE UseSession(o)
    BY <2>0, <2>6, <1>1, DeadKept DEF UseSession
  <2>7. CASE RequestAnswered(o)
    <3>1. NoNewDead
      BY <2>7 DEF RequestAnswered, NoNewDead, Dead, TypeOK
    <3> QED
      BY <2>0, <2>7, <3>1, DeadKept DEF RequestAnswered
  <2>8. ASSUME NEW e \in {"transport", "other"}, RequestFailed(o, e)
        PROVE  DeadIsLeaving'
    BY <2>0, <2>8, <1>1, DeadKept DEF RequestFailed
  <2>9. CASE OnFailure(o)
    BY <2>0, <2>9, <1>0, <1>1, InvalidateNoNewDead, DeadKept DEF OnFailure
  <2>10. CASE Invalidated(o)
    BY <2>0, <2>10, <1>1, DeadKept DEF Invalidated
  <2> QED
    BY <1>5, <2>1, <2>2, <2>3, <2>4, <2>5, <2>6, <2>7, <2>8, <2>9, <2>10 DEF AdvanceAttempt
<1>6. ASSUME NEW t \in Tasks, AdvanceStop(t)
      PROVE  DeadIsLeaving'
  <2>0. Alone(t)
    BY <1>6, StopGoesOn DEF GoesOn
  <2>1. CASE StopNext(t)
    BY <2>0, <2>1, <1>1, DeadKept DEF StopNext
  <2>2. ASSUME NEW e \in {"none", "other"}, ShutdownSettled(t, e)
        PROVE  DeadIsLeaving'
    BY <2>0, <2>2, <1>1, DeadKept DEF ShutdownSettled
  <2>3. CASE Stopped(t)
    <3>1. sid[t] \in Sessions /\ owner[sid[t]] = on[t]
      BY <2>3, <1>0 DEF Stopped, TaskInv, HoldsSession
    <3>2. sessions'[on[t]] = NoSession /\ \A r \in Servers \ {on[t]} : sessions'[r] = sessions[r]
      BY <2>3, <1>0 DEF Stopped, Remove, TypeOK
    <3>3. \A i \in Sessions \ {sid[t]} : status'[i] = status[i]
      BY <2>3 DEF Stopped, TypeOK
    <3>4. NoNewDead
      BY <3>1, <3>2, <3>3, <1>0 DEF NoNewDead, Dead, MapInv, TypeOK
    <3> QED
      BY <2>0, <2>3, <3>4, DeadKept DEF Stopped
  <2> QED
    BY <1>6, <2>1, <2>2, <2>3 DEF AdvanceStop
<1>7. CASE UNCHANGED <<sessions, status, taskVars>>
  BY <1>7 DEF taskVars, work, DeadIsLeaving
<1> QED
  BY <1>2, <1>3, <1>4, <1>5, <1>6, <1>7
     DEF Next, ShutdownRequest, CloseInput, ExitAfterShutdown, ExitAtDeadline, ChildExits, vars

-----------------------------------------------------------------------------
\* The inductive invariant, and what follows from it.

SessionsInv ==
  TypeOK /\ SessionInv /\ KindInv /\ SerialInv /\ OrphanInv /\ ExitInv /\ DeadIsLeaving

LEMMA SessionsInvHolds == Spec => []SessionsInv
<1>1. Init => SessionsInv
  <2> SUFFICES ASSUME Init PROVE SessionsInv
    OBVIOUS
  <2>1. TypeOK
    BY AServerType DEF Init, TypeOK, Kinds, Attempts, Errors
  <2>2. (\A t \in Tasks : pc[t] = "idle") /\ \A s \in Servers : sessions[s] = NoSession
    BY DEF Init
  <2>3. \A i \in Sessions : status[i] = "none" /\ child[i] = "none"
    BY DEF Init
  <2>4. ~closing /\ exit = "no"
    BY DEF Init
  <2> QED
    BY <2>1, <2>2, <2>3, <2>4
       DEF SessionsInv, SessionInv, MapInv, TaskInv, GivenUpIsClosed, HoldsSession, KindInv, SerialInv,
           Uses, OrphanInv, HoldInv, Holds, NoOrphan, ExitInv, DeadIsLeaving
<1>2. SessionsInv /\ [Next]_vars => SessionsInv'
  BY TypeStep, SessionStep, SerialStep, OrphanStep, ExitStep, DeadStep DEF SessionsInv
<1> QED
  BY <1>1, <1>2, PTL DEF Spec

\* The variables keep their types, for any servers, slots and bounds.
THEOREM TypeCorrect == Spec => []TypeOK
  BY SessionsInvHolds, PTL DEF SessionsInv

\* While no two operations on one server overlap, every child that was not told
\* to terminate can be reached through the map, however many servers there are
\* and whatever fails or times out.
THEOREM NoOrphans == Spec => []NoOrphan
  BY SessionsInvHolds, PTL DEF SessionsInv, OrphanInv

\* A session that a task gave up has its transport closed, whatever overlaps.
THEOREM GivenUpClosed == Spec => []GivenUpIsClosed
  BY SessionsInvHolds, PTL DEF SessionsInv, SessionInv, MapInv

\* The map leads to a dead session only while the task that started it is about
\* to remove it, whatever overlaps.
THEOREM DeadLeaves == Spec => []DeadIsLeaving
  BY SessionsInvHolds, PTL DEF SessionsInv

\* A process that ends because shutdownAll succeeded leaves no open child, while
\* operations do not overlap: the names left in the map are always among those
\* still to be stopped, and without orphans an empty map means no open child.
THEOREM CleanExits == Spec => []CleanExit
<1>1. SessionsInv => CleanExit
  <2> SUFFICES ASSUME SessionsInv, ~Overlap, exit = "clean", NEW i \in Sessions, child[i] = "open"
               PROVE  FALSE
    BY DEF CleanExit
  <2>1. Listed({})
    BY DEF SessionsInv, ExitInv, CloserInv
  <2>2. sessions[owner[i]] = i /\ owner[i] \in Servers
    BY DEF SessionsInv, OrphanInv, NoOrphan, TypeOK
  <2> QED
    BY <2>1, <2>2 DEF Listed
<1> QED
  BY <1>1, SessionsInvHolds, PTL

=============================================================================
