-------------------------- MODULE TransportProofs --------------------------
(***************************************************************************)
(* The safety properties of Transport, for any number of calls, any set of *)
(* timed ones and every kind of transport.                                 *)
(*                                                                         *)
(* The heart of the argument is the numbering. An id is the number of      *)
(* requests sent before, plus one, so that it belongs to one call only and *)
(* never exceeds the number of calls; what the server received under an id *)
(* came from the call with that id; and so did the entry an answer is      *)
(* matched with.                                                           *)
(***************************************************************************)
EXTENDS Transport, TLAPS, FiniteSetTheorems

\* The calls whose request was numbered.
Sent == {c \in Calls : id[c] # 0}

\* Ids are taken in order, each by one call, once its turn came.
IdInv ==
  /\ nextId = Cardinality(Sent) + 1
  /\ \A c \in Calls : id[c] < nextId
  /\ \A c, d \in Calls : id[c] = id[d] /\ id[c] # 0 => c = d
  /\ \A c \in Calls : pc[c] \in {"idle", "opening"} => id[c] = 0
  /\ \A c \in Calls : pc[c] = "awaiting" => id[c] # 0

\* The server knows under an id only the request that was sent with it.
ReceivedInv == \A i \in Ids : received[i] # NoCall => id[received[i]] = i

\* A call waits for a socket only on a socket; a transport that ended is shut.
LinkInv ==
  /\ kind # "ws" => \A c \in Calls : pc[c] # "opening"
  /\ link = "ended" => ~open

TransportInv ==
  /\ TypeOK
  /\ IdInv
  /\ ReceivedInv
  /\ LinkInv
  /\ PendingMatches
  /\ OwnAnswer
  /\ ExitSettlesAll

-----------------------------------------------------------------------------

LEMMA CountType == Cardinality(Calls) \in Nat
BY TransportAssumption, FS_CardinalityType

\* While a call has no id there is an id left for it, and taking it is counted.
LEMMA IdLeft ==
  ASSUME TypeOK, IdInv, NEW c \in Calls, id[c] = 0
  PROVE  /\ nextId \in Ids
         /\ Cardinality(Sent \cup {c}) = Cardinality(Sent) + 1
<1>1. IsFiniteSet(Sent) /\ Cardinality(Sent) <= Cardinality(Calls)
  BY TransportAssumption, FS_Subset DEF Sent
<1>2. c \notin Sent
  BY DEF Sent
<1>3. Cardinality(Sent \cup {c}) = Cardinality(Sent) + 1
  BY <1>1, <1>2, FS_AddElement
<1>4. Cardinality(Sent) \in Nat
  BY <1>1, FS_CardinalityType
<1>5. Cardinality(Sent) # Cardinality(Calls)
  BY <1>2, TransportAssumption, FS_Subset DEF Sent
<1> QED
  BY <1>1, <1>3, <1>4, <1>5, CountType DEF Ids, IdInv

\* Sending keeps the invariant.
LEMMA SendKeeps ==
  ASSUME TransportInv, NEW c \in Calls, Send(c),
         pc[c] \in {"idle", "opening"}, kind = "ws" \/ open
  PROVE  TransportInv'
<1> USE DEF TransportInv, Send
<1>1. id[c] = 0 /\ nextId \in Ids
  <2>1. id[c] = 0
    BY DEF IdInv
  <2> QED
    BY <2>1, IdLeft
<1>2. nextId \in Nat /\ nextId # 0
  BY <1>1, CountType DEF Ids
<1>3. TypeOK'
  BY <1>1, <1>2, CountType DEF TypeOK, Ids
<1>4. IdInv'
  <2>1. Sent' = Sent \cup {c}
    BY <1>2 DEF Sent, TypeOK
  <2>2. nextId' = Cardinality(Sent') + 1
    BY <2>1, <1>1, IdLeft DEF IdInv
  <2>3. \A d \in Calls : id[d] \in Nat /\ id[d] < nextId
    BY CountType DEF TypeOK, Ids, IdInv
  <2>4. \A d \in Calls : id'[d] < nextId'
    BY <1>2, <2>3 DEF TypeOK
  <2>5. \A d, e \in Calls : id'[d] = id'[e] /\ id'[d] # 0 => d = e
    BY <1>2, <2>3 DEF TypeOK, IdInv
  <2>6. /\ \A d \in Calls : pc'[d] \in {"idle", "opening"} => id'[d] = 0
        /\ \A d \in Calls : pc'[d] = "awaiting" => id'[d] # 0
    BY <1>2 DEF TypeOK, IdInv
  <2> QED
    BY <2>2, <2>4, <2>5, <2>6 DEF IdInv
<1>5. ReceivedInv'
  <2>1. 0 \notin Ids
    BY DEF Ids
  <2> QED
    BY <1>1, <2>1 DEF ReceivedInv, TypeOK
<1>6. LinkInv'
  BY DEF LinkInv, TypeOK
<1>7. PendingMatches'
  BY <1>1, <1>2, CountType DEF PendingMatches, TypeOK, IdInv, Ids
<1>8. OwnAnswer'
  BY DEF OwnAnswer
<1>9. ExitSettlesAll'
  BY DEF ExitSettlesAll, LinkInv, TypeOK
<1> QED
  BY <1>3, <1>4, <1>5, <1>6, <1>7, <1>8, <1>9

\* Settling calls that were under way, with their entries removed, does too.
LEMMA SettleKeeps ==
  ASSUME TransportInv, NEW S \in SUBSET Calls, NEW o \in Outcomes, SettleAll(S, o),
         pending' \in [Ids -> Calls \cup {NoCall}],
         answers' \in [Calls -> Calls \cup {NoCall}],
         kind # "http" =>
           \A i \in Ids : pending'[i] = IF pending[i] \in S THEN NoCall ELSE pending[i],
         \A c \in Calls : outcome'[c] = "answered" => answers'[c] = c,
         open' \in BOOLEAN, open' => open,
         link' \in {"connecting", "up", "broken", "ended"}, link' = "ended" => ~open',
         opened' \in {"pending", "resolved", "rejected"},
         kind = "stdio" /\ link' = "ended" =>
            \A c \in Calls : pc[c] = "awaiting" => c \in S,
         UNCHANGED <<kind, nextId, received, id>>
  PROVE  TransportInv'
<1> USE DEF TransportInv, SettleAll
<1>1. TypeOK'
  BY DEF TypeOK
<1>2. IdInv'
  BY DEF IdInv, Sent
<1>3. ReceivedInv'
  BY DEF ReceivedInv
<1>4. LinkInv'
  BY DEF LinkInv
<1>5. PendingMatches'
  BY TransportAssumption DEF PendingMatches, TypeOK
<1>6. OwnAnswer'
  BY DEF OwnAnswer
<1>7. ExitSettlesAll'
  BY DEF ExitSettlesAll
<1> QED
  BY <1>1, <1>2, <1>3, <1>4, <1>5, <1>6, <1>7

-----------------------------------------------------------------------------
\* The invariant.

LEMMA InitInv == Init => TransportInv
<1> SUFFICES ASSUME Init PROVE TransportInv
  OBVIOUS
<1> USE DEF Init
<1>1. Sent = {}
  BY DEF Sent
<1>2. Cardinality({}) = 0
  BY FS_EmptySet
<1>3. 1 \in Ids \cup {Cardinality(Calls) + 1}
  BY CountType DEF Ids
<1>4. TypeOK
  BY <1>3 DEF TypeOK
<1>5. IdInv
  BY <1>1, <1>2 DEF IdInv
<1>6. ReceivedInv /\ LinkInv
  BY DEF ReceivedInv, LinkInv
<1>7. PendingMatches /\ OwnAnswer /\ ExitSettlesAll
  BY TransportAssumption DEF PendingMatches, OwnAnswer, ExitSettlesAll
<1> QED
  BY <1>4, <1>5, <1>6, <1>7 DEF TransportInv

\* A call rejected before it was sent, or by its own timer or exchange.
LEMMA RejectKeeps ==
  ASSUME TransportInv, NEW c \in Calls, NEW o \in Outcomes, o # "answered",
         Reject(c, o),
         UNCHANGED <<kind, open, link, opened, nextId, received>>,
         \/ UNCHANGED pending /\ (kind = "http" \/ pc[c] # "awaiting")
         \/ kind # "http" /\ pc[c] = "awaiting" /\ Forget(id[c])
  PROVE  TransportInv'
<1> USE DEF TransportInv, Reject
<1>1. SettleAll({c}, o)
  OBVIOUS
<1>2. \A d \in Calls : outcome'[d] = "answered" => answers'[d] = d
  BY DEF SettleAll, OwnAnswer
<1>3. kind # "http" =>
        \A i \in Ids : pending'[i] = IF pending[i] \in {c} THEN NoCall ELSE pending[i]
  BY DEF PendingMatches, Forget, TypeOK
<1>4. pending' \in [Ids -> Calls \cup {NoCall}]
  BY DEF Forget, TypeOK
<1>5. kind = "stdio" /\ link' = "ended" => \A d \in Calls : pc[d] = "awaiting" => d \in {c}
  BY DEF ExitSettlesAll
<1>6. /\ open' \in BOOLEAN /\ (open' => open) /\ (link' = "ended" => ~open')
      /\ link' \in {"connecting", "up", "broken", "ended"}
      /\ opened' \in {"pending", "resolved", "rejected"}
      /\ answers' \in [Calls -> Calls \cup {NoCall}]
  BY DEF TypeOK, LinkInv
<1> QED
  BY <1>1, <1>2, <1>3, <1>4, <1>5, <1>6, SettleKeeps

\* failAllPending, on a transport that is shut or about to be.
LEMMA FailAllKeeps ==
  ASSUME TransportInv, NEW o \in Outcomes, o # "answered", kind # "http",
         FailAllPending(o),
         open' \in BOOLEAN, open' => open,
         link' \in {"connecting", "up", "broken", "ended"}, link' = "ended" => ~open',
         opened' \in {"pending", "resolved", "rejected"},
         UNCHANGED <<kind, nextId, received>>
  PROVE  TransportInv'
<1> USE DEF TransportInv, FailAllPending
<1> DEFINE S == {c \in Calls : \E i \in Ids : pending[i] = c}
<1>1. S \in SUBSET Calls /\ SettleAll(S, o)
  OBVIOUS
<1>2. \A c \in Calls : outcome'[c] = "answered" => answers'[c] = c
  BY DEF SettleAll, OwnAnswer
<1>3. \A i \in Ids : pending'[i] = IF pending[i] \in S THEN NoCall ELSE pending[i]
  BY DEF TypeOK
<1>4. kind = "stdio" /\ link' = "ended" => \A c \in Calls : pc[c] = "awaiting" => c \in S
  <2> SUFFICES ASSUME kind = "stdio", NEW c \in Calls, pc[c] = "awaiting"
               PROVE  c \in S
    OBVIOUS
  <2>1. id[c] # 0
    BY DEF PendingMatches, TypeOK, IdInv
  <2> QED
    BY <2>1 DEF PendingMatches, TypeOK
<1>5. pending' \in [Ids -> Calls \cup {NoCall}] /\ answers' \in [Calls -> Calls \cup {NoCall}]
  BY DEF TypeOK
<1> HIDE DEF S
<1> QED
  BY <1>1, <1>2, <1>3, <1>4, <1>5, SettleKeeps

-----------------------------------------------------------------------------
\* One step.

LEMMA NextInv == TransportInv /\ [Next]_vars => TransportInv'
<1> SUFFICES ASSUME TransportInv, [Next]_vars PROVE TransportInv'
  OBVIOUS
<1>1. ASSUME NEW c \in Calls, Request(c) PROVE TransportInv'
  <2>1. CASE ~open /\ Reject(c, "closed")
             /\ UNCHANGED <<kind, open, link, opened, nextId, pending, received>>
    BY <1>1, <2>1, RejectKeeps DEF Request, Outcomes
  <2>2. CASE open /\ kind # "ws" /\ Send(c)
    BY <1>1, <2>2, SendKeeps DEF Request
  <2>3. CASE /\ open /\ kind = "ws"
             /\ pc' = [pc EXCEPT ![c] = "opening"]
             /\ UNCHANGED <<kind, open, link, opened, nextId, pending, received, id, outcome, answers>>
    <3> USE <1>1, <2>3 DEF TransportInv, Request
    <3>1. TypeOK'
      BY DEF TypeOK
    <3>2. IdInv' /\ ReceivedInv'
      BY DEF IdInv, ReceivedInv, Sent, TypeOK
    <3>3. LinkInv'
      BY DEF LinkInv
    <3>4. PendingMatches'
      BY DEF PendingMatches, TypeOK
    <3>5. OwnAnswer' /\ ExitSettlesAll'
      BY DEF OwnAnswer, ExitSettlesAll
    <3> QED
      BY <3>1, <3>2, <3>3, <3>4, <3>5
  <2> QED
    BY <1>1, <2>1, <2>2, <2>3 DEF Request
<1>2. ASSUME NEW c \in Calls, Resume(c) PROVE TransportInv'
  <2>1. kind = "ws"
    BY <1>2 DEF TransportInv, LinkInv, Resume
  <2>2. CASE opened = "resolved" /\ Send(c)
    BY <1>2, <2>1, <2>2, SendKeeps DEF Resume
  <2>3. CASE Reject(c, "unopened")
             /\ UNCHANGED <<kind, open, link, opened, nextId, pending, received>>
    BY <1>2, <2>3, RejectKeeps DEF Resume, Outcomes
  <2> QED
    BY <1>2, <2>2, <2>3 DEF Resume
<1>3. ASSUME NEW c \in Calls, HttpAnswer(c) PROVE TransportInv'
  <2> USE <1>3 DEF HttpAnswer, TransportInv
  <2>1. /\ \A d \in Calls : outcome'[d] = "answered" => answers'[d] = d
        /\ answers' \in [Calls -> Calls \cup {NoCall}]
        /\ pending' \in [Ids -> Calls \cup {NoCall}]
    BY DEF TypeOK, OwnAnswer, SettleAll
  <2>2. /\ open' \in BOOLEAN /\ (open' => open) /\ (link' = "ended" => ~open')
        /\ link' \in {"connecting", "up", "broken", "ended"}
        /\ opened' \in {"pending", "resolved", "rejected"}
    BY DEF TypeOK, LinkInv
  <2>3. SettleAll({c}, "answered") /\ "answered" \in Outcomes
    BY DEF Outcomes
  <2> QED
    BY <2>1, <2>2, <2>3, SettleKeeps
<1>4. ASSUME NEW c \in Calls, HttpFails(c) PROVE TransportInv'
  BY <1>4, RejectKeeps DEF HttpFails, Outcomes
<1>5. ASSUME NEW c \in Calls, Timeout(c) PROVE TransportInv'
  BY <1>5, RejectKeeps DEF Timeout, Outcomes
<1>6. ASSUME NEW i \in Ids, Answer(i) PROVE TransportInv'
  <2> DEFINE c == pending[i]
  <2> USE <1>6 DEF Answer, TransportInv
  <2>1. c \in Calls /\ id[c] = i /\ pc[c] = "awaiting"
    BY DEF PendingMatches, TypeOK
  <2>2. received[i] = c
    <3>1. received[i] \in Calls /\ id[received[i]] = i
      BY DEF ReceivedInv, TypeOK
    <3>2. i # 0
      BY DEF Ids
    <3> QED
      BY <2>1, <3>1, <3>2 DEF IdInv
  <2>3. \A d \in Calls : outcome'[d] = "answered" => answers'[d] = d
    BY <2>1, <2>2 DEF OwnAnswer, SettleAll, TypeOK
  <2>4. /\ answers' \in [Calls -> Calls \cup {NoCall}]
        /\ pending' \in [Ids -> Calls \cup {NoCall}]
    BY <2>1, <2>2 DEF TypeOK, Forget
  <2>5. /\ open' \in BOOLEAN /\ (open' => open) /\ (link' = "ended" => ~open')
        /\ link' \in {"connecting", "up", "broken", "ended"} /\ link' # "ended"
        /\ opened' \in {"pending", "resolved", "rejected"}
    BY DEF TypeOK, LinkInv
  <2>6. \A j \in Ids : pending'[j] = IF pending[j] \in {c} THEN NoCall ELSE pending[j]
    BY <2>1 DEF PendingMatches, TypeOK, Forget
  <2>7. SettleAll({c}, "answered") /\ "answered" \in Outcomes /\ {c} \in SUBSET Calls
    BY <2>1 DEF Outcomes
  <2> HIDE DEF c
  <2> QED
    BY <2>3, <2>4, <2>5, <2>6, <2>7, SettleKeeps
<1>7. CASE Close
  <2>1. CASE kind = "ws"
    BY <1>7, <2>1, FailAllKeeps DEF Close, TransportInv, TypeOK, Outcomes
  <2>2. CASE kind # "ws"
    <3> USE <1>7, <2>2 DEF Close, TransportInv, callVars
    <3>1. TypeOK' /\ IdInv' /\ ReceivedInv' /\ LinkInv'
      BY DEF TypeOK, IdInv, ReceivedInv, LinkInv, Sent
    <3>2. PendingMatches' /\ OwnAnswer' /\ ExitSettlesAll'
      BY DEF PendingMatches, OwnAnswer, ExitSettlesAll
    <3> QED
      BY <3>1, <3>2
  <2> QED
    BY <2>1, <2>2
<1>8. CASE Opens
  <2> USE <1>8 DEF Opens, TransportInv, callVars
  <2>1. TypeOK' /\ IdInv' /\ ReceivedInv' /\ LinkInv'
    BY DEF TypeOK, IdInv, ReceivedInv, LinkInv, Sent
  <2>2. PendingMatches' /\ OwnAnswer' /\ ExitSettlesAll'
    BY DEF PendingMatches, OwnAnswer, ExitSettlesAll
  <2> QED
    BY <2>1, <2>2
<1>9. CASE Breaks
  <2>1. /\ open' \in BOOLEAN /\ (open' => open) /\ (link' = "ended" => ~open')
        /\ link' \in {"connecting", "up", "broken", "ended"}
        /\ opened' \in {"pending", "resolved", "rejected"}
    BY <1>9 DEF Breaks, TransportInv, TypeOK
  <2> QED
    BY <1>9, <2>1, FailAllKeeps DEF Breaks, Outcomes
<1>10. CASE Ends
  <2>1. /\ open' \in BOOLEAN /\ (open' => open) /\ (link' = "ended" => ~open')
        /\ link' \in {"connecting", "up", "broken", "ended"}
        /\ opened' \in {"pending", "resolved", "rejected"}
    BY <1>10 DEF Ends, TransportInv, TypeOK
  <2> QED
    BY <1>10, <2>1, FailAllKeeps DEF Ends, Outcomes
<1>11. CASE UNCHANGED vars
  <2> USE <1>11 DEF vars, callVars, TransportInv
  <2>1. TypeOK' /\ IdInv' /\ ReceivedInv' /\ LinkInv'
    BY DEF TypeOK, IdInv, ReceivedInv, LinkInv, Sent
  <2>2. PendingMatches' /\ OwnAnswer' /\ ExitSettlesAll'
    BY DEF PendingMatches, OwnAnswer, ExitSettlesAll
  <2> QED
    BY <2>1, <2>2
<1> QED
  BY <1>1, <1>2, <1>3, <1>4, <1>5, <1>6, <1>7, <1>8, <1>9, <1>10, <1>11 DEF Next

LEMMA Invariant == Spec => []TransportInv
<1>1. Init => TransportInv
  BY InitInv
<1>2. TransportInv /\ [Next]_vars => TransportInv'
  BY NextInv
<1> QED
  BY <1>1, <1>2, PTL DEF Spec

-----------------------------------------------------------------------------
\* What follows.

\* Every variable keeps to its type: ids never run past the number of calls.
THEOREM TypeCorrect == Spec => []TypeOK
<1>1. TransportInv => TypeOK
  BY DEF TransportInv
<1> QED
  BY <1>1, Invariant, PTL

\* onStdout and onMessage resolve a request with the answer to that request,
\* however late, repeated or reordered answers are.
THEOREM AnswersOwn == Spec => []OwnAnswer
<1>1. TransportInv => OwnAnswer
  BY DEF TransportInv
<1> QED
  BY <1>1, Invariant, PTL

\* The map of pending requests holds the requests sent and not settled, and no
\* other.
THEOREM PendingExact == Spec => []PendingMatches
<1>1. TransportInv => PendingMatches
  BY DEF TransportInv
<1> QED
  BY <1>1, Invariant, PTL

\* Nobody waits for an answer from a child process that exited.
THEOREM NobodyWaits == Spec => []ExitSettlesAll
<1>1. TransportInv => ExitSettlesAll
  BY DEF TransportInv
<1> QED
  BY <1>1, Invariant, PTL

-----------------------------------------------------------------------------
\* The promises of Transport are those of Requests.

LEMMA SettleIsSettle ==
  ASSUME TypeOK, NEW S \in SUBSET Calls, NEW o \in Outcomes, SettleAll(S, o),
         \A c \in S : pc[c] \in {"opening", "awaiting"}
  PROVE  Promise!Settle(S, o)
<1>1. \A c \in S : PromiseOf(c) = "waiting"
  BY DEF PromiseOf
<1>2. \A c \in Calls : PromiseOf(c)' = IF c \in S THEN o ELSE PromiseOf(c)
  BY DEF PromiseOf, SettleAll
<1> QED
  BY <1>1, <1>2 DEF Promise!Settle, PromiseOf

LEMMA SendIsSubmit ==
  ASSUME TypeOK, NEW c \in Calls, pc[c] \in {"idle", "opening"},
         pc' = [pc EXCEPT ![c] = "awaiting"] \/ pc' = [pc EXCEPT ![c] = "opening"],
         UNCHANGED outcome
  PROVE  (pc[c] = "idle" /\ Promise!Submit(c)) \/ UNCHANGED [d \in Calls |-> PromiseOf(d)]
<1>1. CASE pc[c] = "idle"
  <2>1. PromiseOf(c) = "idle"
    BY <1>1 DEF PromiseOf
  <2>2. \A d \in Calls : PromiseOf(d)' = IF d = c THEN "waiting" ELSE PromiseOf(d)
    BY <1>1 DEF PromiseOf, TypeOK
  <2> QED
    BY <1>1, <2>1, <2>2 DEF Promise!Submit, PromiseOf
<1>2. CASE pc[c] = "opening"
  <2>1. \A d \in Calls : PromiseOf(d)' = PromiseOf(d)
    BY <1>2 DEF PromiseOf, TypeOK
  <2> QED
    BY <2>1
<1> QED
  BY <1>1, <1>2

\* What is sent or dropped while the promises stay what they are.
LEMMA StepIsStep ==
  ASSUME TransportInv, [Next]_vars
  PROVE  Promise!RequestsNext \/ UNCHANGED [c \in Calls |-> PromiseOf(c)]
<1> DEFINE Same == UNCHANGED [c \in Calls |-> PromiseOf(c)]
<1> TypeOK
  BY DEF TransportInv
<1>1. ASSUME NEW c \in Calls, Request(c)
      PROVE  Promise!RequestsNext \/ Same
  <2>1. CASE Reject(c, "closed")
    <3>1. \A d \in Calls : PromiseOf(d)' = IF d = c THEN "closed" ELSE PromiseOf(d)
      BY <2>1 DEF Reject, SettleAll, PromiseOf
    <3>2. PromiseOf(c) = "idle"
      BY <1>1 DEF Request, PromiseOf
    <3>3. Promise!Refuse(c, "closed")
      BY <3>1, <3>2 DEF Promise!Refuse, PromiseOf
    <3> QED
      BY <3>3 DEF Promise!RequestsNext, Outcomes
  <2>2. CASE Send(c)
    BY <1>1, <2>2, SendIsSubmit DEF Request, Send, Promise!RequestsNext
  <2>3. CASE pc' = [pc EXCEPT ![c] = "opening"] /\ UNCHANGED outcome
    BY <1>1, <2>3, SendIsSubmit DEF Request, Promise!RequestsNext
  <2> QED
    BY <1>1, <2>1, <2>2, <2>3 DEF Request
<1>2. ASSUME NEW c \in Calls, Resume(c)
      PROVE  Promise!RequestsNext \/ Same
  <2>1. CASE Send(c)
    BY <1>2, <2>1, SendIsSubmit DEF Resume, Send, Promise!RequestsNext
  <2>2. CASE Reject(c, "unopened")
    <3>1. Promise!Settle({c}, "unopened")
      BY <1>2, <2>2, SettleIsSettle DEF Reject, Resume, Outcomes
    <3> QED
      BY <3>1 DEF Promise!RequestsNext, Outcomes
  <2> QED
    BY <1>2, <2>1, <2>2 DEF Resume
<1>3. ASSUME NEW c \in Calls, HttpAnswer(c) \/ HttpFails(c) \/ Timeout(c)
      PROVE  Promise!RequestsNext
  <2>1. PICK o \in Outcomes : SettleAll({c}, o)
    BY <1>3 DEF HttpAnswer, HttpFails, Timeout, Reject, Outcomes
  <2>2. Promise!Settle({c}, o)
    BY <1>3, <2>1, SettleIsSettle DEF HttpAnswer, HttpFails, Timeout
  <2> QED
    BY <2>2 DEF Promise!RequestsNext
<1>4. ASSUME NEW i \in Ids, Answer(i)
      PROVE  Promise!RequestsNext
  <2>1. pending[i] \in Calls /\ pc[pending[i]] = "awaiting"
    BY <1>4 DEF Answer, TransportInv, PendingMatches, TypeOK
  <2>2. SettleAll({pending[i]}, "answered") /\ "answered" \in Outcomes
    BY <1>4 DEF Answer, Outcomes
  <2>3. Promise!Settle({pending[i]}, "answered")
    BY <2>1, <2>2, SettleIsSettle
  <2> QED
    BY <2>1, <2>2, <2>3 DEF Promise!RequestsNext
<1>5. ASSUME NEW o \in Outcomes, FailAllPending(o), kind # "http"
      PROVE  Promise!RequestsNext
  <2> DEFINE S == {c \in Calls : \E i \in Ids : pending[i] = c}
  <2>1. S \in SUBSET Calls /\ SettleAll(S, o)
    BY <1>5 DEF FailAllPending
  <2>2. \A c \in S : pc[c] \in {"opening", "awaiting"}
    BY <1>5 DEF TransportInv, PendingMatches
  <2> HIDE DEF S
  <2>3. Promise!Settle(S, o)
    BY <2>1, <2>2, SettleIsSettle
  <2> QED
    BY <2>1, <2>3 DEF Promise!RequestsNext
<1>6. CASE Breaks \/ Ends
  <2>1. FailAllPending("ended") /\ kind # "http"
    BY <1>6 DEF Breaks, Ends
  <2> QED
    BY <1>5, <2>1 DEF Outcomes
<1>7. CASE Close
  <2>1. CASE kind = "ws"
    BY <1>5, <1>7, <2>1 DEF Close, Outcomes
  <2>2. CASE kind # "ws"
    BY <1>7, <2>2 DEF Close, callVars, PromiseOf
  <2> QED
    BY <2>1, <2>2
<1>8. CASE Opens \/ UNCHANGED vars
  BY <1>8 DEF Opens, vars, callVars, PromiseOf
<1> QED
  BY <1>1, <1>2, <1>3, <1>4, <1>6, <1>7, <1>8 DEF Next

\* Whatever the transport, request() settles each promise once and never takes
\* an outcome back: Transport implements Requests.
THEOREM ImplementsRequests == Spec => RequestsSpec
<1>1. Init => Promise!RequestsInit
  BY DEF Init, Promise!RequestsInit, PromiseOf
<1>2. TransportInv /\ [Next]_vars =>
        [Promise!RequestsNext]_[c \in Calls |-> PromiseOf(c)]
  BY StepIsStep
<1> QED
  BY <1>1, <1>2, Invariant, PTL DEF Spec, RequestsSpec, Promise!RequestsSpec
=============================================================================
