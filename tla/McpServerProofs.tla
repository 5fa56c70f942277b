--------------------------- MODULE McpServerProofs ---------------------------
(***************************************************************************)
(* Proofs about McpServer and the links of McpClient, for any servers,     *)
(* packages, requests and bounds.                                          *)
(*                                                                         *)
(* A link is in order when every client and every operation that waits is: *)
(* LinkInv. Each operator of McpClient changes the link for one operation; *)
(* Others(l, m, r) says that m came from l that way and that all is in     *)
(* order in it, but perhaps what r itself does.                            *)
(***************************************************************************)
EXTENDS McpServer, SequenceTheorems, TLAPS

Handshake == {"probing", "initializing"}

\* A session runs on a client that has negotiated, and who has negotiated the legacy
\* era has not shown itself modern.
ClientInOrder(l, c) ==
  /\ l.clients[c].status = "running" => l.clients[c].era # None
  /\ l.clients[c].era = "legacy" => ~l.clients[c].shown

\* Only the operation that made a client shakes hands on it, before anyone else asks
\* anything; what is asked later is asked in the era that was negotiated.
ShakesHands(l, r) ==
  /\ l.ops[r].via = r
  /\ l.clients[r].era = None
  /\ ~l.clients[r].shown
  /\ l.ops[r].envelope = IF l.ops[r].doing = "probing" THEN "modern" ELSE "legacy"

Converses(l, r) ==
  LET c == l.ops[r].via
  IN /\ c \in Requests
     /\ l.ops[c].doing \notin Handshake
     /\ l.clients[c].shown => l.ops[r].envelope = "modern"
     /\ l.clients[c].era = "legacy" => l.ops[r].envelope = "legacy"
     /\ l.clients[c].era = None => ~l.clients[c].open

OpInOrder(l, r) ==
  /\ l.ops[r].doing \in Handshake => ShakesHands(l, r)
  /\ l.ops[r].doing \in Asking \ Handshake => Converses(l, r)

LinkInv(l) ==
  /\ l \in Link
  /\ \A c \in Requests : ClientInOrder(l, c)
  /\ \A r \in Requests : OpInOrder(l, r)

\* Nothing of a link is about a request that has not come.
Fresh(l, r) ==
  /\ l.ops[r] = NoOperation
  /\ l.clients[r] = NoClient
  /\ l.session # r
  /\ \A q \in Requests : l.ops[q].via # r

Others(l, m, r) ==
  /\ m \in Link /\ m.kind = l.kind /\ m.peer = l.peer
  /\ m.ops[r].job = l.ops[r].job
  /\ \A c \in Requests : ClientInOrder(m, c)
  /\ \A q \in Requests \ {r} :
       /\ m.ops[q] = l.ops[q]
       /\ OpInOrder(m, q)
       /\ Fresh(l, q) => Fresh(m, q)

Moves(l, m, r) == Others(l, m, r) /\ OpInOrder(m, r)

\* A request that may be named by what r does.
Known(l, r, c) == c \in Requests /\ (c = r \/ ~Fresh(l, c))

\* Nobody else waits on the client of r.
Alone(l, r) == \A q \in Requests \ {r} : l.ops[q].doing \in Asking => l.ops[q].via # r

USE ClientAssumption

-----------------------------------------------------------------------------
\* The parts of a link.

LEMMA LinkParts ==
  ASSUME NEW l \in Link
  PROVE  /\ l.kind \in Kinds /\ l.peer \in Peers /\ l.session \in Requests \cup {None}
         /\ l.clients \in [Requests -> Client] /\ l.ops \in [Requests -> Operation]
         /\ \A c \in Requests :
              /\ l.clients[c].status \in {None, "starting", "running", "failed", "stopped"}
              /\ l.clients[c].era \in {None, "modern", "legacy"}
              /\ l.clients[c].open \in BOOLEAN
              /\ l.clients[c].gone \in BOOLEAN
              /\ l.clients[c].listed \in BOOLEAN
              /\ l.clients[c].shown \in BOOLEAN
         /\ \A r \in Requests :
              /\ l.ops[r].job \in {None, "list", "call", "stop"}
              /\ l.ops[r].doing \in Asking \cup {None, "done", "failed"}
              /\ l.ops[r].via \in Requests \cup {None}
              /\ l.ops[r].envelope \in {None, "modern", "legacy"}
<1>1. /\ l.kind \in Kinds /\ l.peer \in Peers /\ l.session \in Requests \cup {None}
      /\ l.clients \in [Requests -> Client] /\ l.ops \in [Requests -> Operation]
  BY DEF Link
<1>2. \A v \in Client :
        /\ v.status \in {None, "starting", "running", "failed", "stopped"}
        /\ v.era \in {None, "modern", "legacy"}
        /\ v.open \in BOOLEAN /\ v.gone \in BOOLEAN /\ v.listed \in BOOLEAN /\ v.shown \in BOOLEAN
  BY DEF Client
<1>3. \A op \in Operation :
        /\ op.job \in {None, "list", "call", "stop"}
        /\ op.doing \in Asking \cup {None, "done", "failed"}
        /\ op.via \in Requests \cup {None}
        /\ op.envelope \in {None, "modern", "legacy"}
  BY DEF Operation
<1> QED
  BY <1>1, <1>2, <1>3

-----------------------------------------------------------------------------
\* Changes to a link.

\* What r changes of one client that was known, and of the session.
ClientChanged(m, n, c) ==
  /\ n \in Link /\ n.kind = m.kind /\ n.peer = m.peer
  /\ n.ops = m.ops
  /\ \A q \in Requests \ {c} : n.clients[q] = m.clients[q]

\* A client that is closed, cleared or no longer runs disturbs nobody.
Wanes(v, w) ==
  /\ w.shown = v.shown
  /\ w.era \in {v.era, None}
  /\ w.open => v.open /\ w.era = v.era
  /\ w.status = "running" => v.status = "running" /\ w.era = v.era

LEMMA StaysInOrder ==
  ASSUME NEW m \in Link, NEW c \in Requests, NEW n, ClientChanged(m, n, c),
         Wanes(m.clients[c], n.clients[c]), NEW q \in Requests, OpInOrder(m, q)
  PROVE  OpInOrder(n, q)
<1>1. n \in Link /\ n.ops = m.ops /\ \A p \in Requests \ {c} : n.clients[p] = m.clients[p]
  BY DEF ClientChanged
<1>2. \A p \in Requests : Wanes(m.clients[p], n.clients[p])
  <2>1. \A p \in Requests \ {c} : Wanes(n.clients[p], n.clients[p])
    BY DEF Wanes
  <2> QED
    BY <1>1, <2>1
<1>3. ASSUME m.ops[q].doing \in Handshake, ShakesHands(m, q)
      PROVE  ShakesHands(n, q)
  BY <1>1, <1>2, <1>3, LinkParts DEF ShakesHands, Wanes
<1>4. ASSUME m.ops[q].doing \in Asking \ Handshake, Converses(m, q)
      PROVE  Converses(n, q)
  BY <1>1, <1>2, <1>4, LinkParts DEF Converses, Wanes
<1> QED
  BY <1>1, <1>3, <1>4 DEF OpInOrder

LEMMA ClientWanes ==
  ASSUME NEW l \in Link, NEW r \in Requests, NEW m, Others(l, m, r),
         NEW c, Known(l, r, c), NEW n, ClientChanged(m, n, c),
         Wanes(m.clients[c], n.clients[c]),
         n.session \in {m.session, None, r}
  PROVE  Others(l, n, r)
<1>1. /\ m \in Link /\ n \in Link /\ c \in Requests /\ n.ops = m.ops
      /\ \A q \in Requests \ {c} : n.clients[q] = m.clients[q]
  BY DEF Others, Known, ClientChanged
<1>2. \A q \in Requests : Wanes(m.clients[q], n.clients[q])
  <2>1. \A q \in Requests \ {c} : n.clients[q] = m.clients[q]
    BY <1>1
  <2>2. \A q \in Requests \ {c} : Wanes(n.clients[q], n.clients[q])
    BY DEF Wanes
  <2> QED
    BY <2>1, <2>2
<1>3. \A q \in Requests : ClientInOrder(m, q) => ClientInOrder(n, q)
  BY <1>1, <1>2, LinkParts DEF ClientInOrder, Wanes
<1>4. \A q \in Requests : OpInOrder(m, q) => OpInOrder(n, q)
  BY <1>1, StaysInOrder
<1>5. ASSUME NEW q \in Requests \ {r}, Fresh(l, q), Fresh(m, q)
      PROVE  Fresh(n, q)
  <2>1. q # c
    BY <1>5 DEF Known
  <2> QED
    BY <1>1, <1>5, <2>1 DEF Fresh
<1> QED
  BY <1>1, <1>3, <1>4, <1>5 DEF Others, ClientChanged

\* What r changes of its own operation.
OpChanged(m, n, r) ==
  /\ n \in Link /\ n.kind = m.kind /\ n.peer = m.peer
  /\ n.clients = m.clients /\ n.session = m.session
  /\ \A q \in Requests \ {r} : n.ops[q] = m.ops[q]
  /\ n.ops[r].job = m.ops[r].job

LEMMA OpMoves ==
  ASSUME NEW l \in Link, NEW r \in Requests, NEW m, Others(l, m, r),
         NEW n, OpChanged(m, n, r),
         n.ops[r].via \in {m.ops[r].via, None} \/ Known(l, r, n.ops[r].via),
         n.ops[r].doing \in Handshake => Alone(m, r)
  PROVE  Others(l, n, r)
<1>1. /\ m \in Link /\ n \in Link
      /\ n.clients = m.clients /\ n.session = m.session
      /\ \A q \in Requests \ {r} : n.ops[q] = m.ops[q]
  BY DEF Others, OpChanged
<1>2. \A q \in Requests : ClientInOrder(n, q)
  BY <1>1 DEF ClientInOrder, Others
<1>3. ASSUME NEW q \in Requests \ {r}
      PROVE  OpInOrder(n, q)
  <2>1. OpInOrder(m, q)
    BY DEF Others
  <2>2. ASSUME m.ops[q].doing \in Handshake, ShakesHands(m, q)
        PROVE  ShakesHands(n, q)
    BY <1>1, <2>2 DEF ShakesHands
  <2>3. ASSUME m.ops[q].doing \in Asking \ Handshake, Converses(m, q)
        PROVE  Converses(n, q)
    <3>1. m.ops[q].via = r => n.ops[r].doing \notin Handshake
      BY <2>3 DEF Alone
    <3> QED
      BY <1>1, <2>3, <3>1 DEF Converses
  <2> QED
    BY <1>1, <2>1, <2>2, <2>3 DEF OpInOrder
<1>4. ASSUME NEW q \in Requests \ {r}, Fresh(l, q)
      PROVE  Fresh(n, q)
  <2>1. Fresh(m, q)
    BY <1>4 DEF Others
  <2>2. n.ops[r].via # q
    BY <1>4, <2>1 DEF Known, Fresh
  <2> QED
    BY <1>1, <2>1, <2>2 DEF Fresh
<1> QED
  BY <1>1, <1>2, <1>3, <1>4 DEF Others, OpChanged

LEMMA SessionKnown ==
  ASSUME NEW l \in Link, NEW r \in Requests, NEW m, Others(l, m, r)
  PROVE  /\ m.session # None => Known(l, r, m.session)
         /\ \A q \in Requests : m.ops[q].via \in Requests => Known(l, r, m.ops[q].via)
  BY LinkParts DEF Others, Known, Fresh

\* One client, or one operation, written over: the link it gives.
LEMMA ClientWritten ==
  ASSUME NEW m \in Link, NEW c \in Requests, NEW v \in Client
  PROVE  LET n == [m EXCEPT !.clients = [m.clients EXCEPT ![c] = v]] IN
         ClientChanged(m, n, c) /\ n.clients[c] = v /\ n.session = m.session
<1> DEFINE clients == [m.clients EXCEPT ![c] = v]
<1>1. clients \in [Requests -> Client] /\ clients[c] = v
      /\ \A q \in Requests \ {c} : clients[q] = m.clients[q]
  BY LinkParts
<1> HIDE DEF clients
<1>2. [m EXCEPT !.clients = clients] \in Link
  BY <1>1 DEF Link
<1> QED
  BY <1>1, <1>2 DEF ClientChanged, Link, clients

LEMMA SessionWritten ==
  ASSUME NEW m \in Link, NEW s \in Requests \cup {None}
  PROVE  LET n == [m EXCEPT !.session = s] IN
         /\ n \in Link /\ n.kind = m.kind /\ n.peer = m.peer /\ n.session = s
         /\ n.clients = m.clients /\ n.ops = m.ops
  BY DEF Link

LEMMA OpWritten ==
  ASSUME NEW m \in Link, NEW r \in Requests, NEW op \in Operation, op.job = m.ops[r].job
  PROVE  LET n == [m EXCEPT !.ops = [m.ops EXCEPT ![r] = op]] IN
         OpChanged(m, n, r) /\ n.ops[r] = op
<1> DEFINE ops == [m.ops EXCEPT ![r] = op]
<1>1. ops \in [Requests -> Operation] /\ ops[r] = op
      /\ \A q \in Requests \ {r} : ops[q] = m.ops[q]
  BY LinkParts
<1> HIDE DEF ops
<1>2. [m EXCEPT !.ops = ops] \in Link
  BY <1>1 DEF Link
<1> QED
  BY <1>1, <1>2 DEF OpChanged, Link, ops

LEMMA CloseClientShape ==
  ASSUME NEW m \in Link, NEW c \in Requests
  PROVE  /\ ClientChanged(m, CloseClient(m, c), c)
         /\ CloseClient(m, c).session = m.session
         /\ Wanes(m.clients[c], CloseClient(m, c).clients[c])
         /\ ~CloseClient(m, c).clients[c].open
<1> DEFINE v == [m.clients[c] EXCEPT !.open = FALSE]
<1>1. m.clients[c] \in Client
  BY LinkParts
<1>2. v \in Client /\ Wanes(m.clients[c], v) /\ ~v.open
  BY <1>1 DEF Client, Wanes
<1>3. CloseClient(m, c) = [m EXCEPT !.clients = [m.clients EXCEPT ![c] = v]]
  BY DEF CloseClient
<1> HIDE DEF v
<1> QED
  BY <1>2, <1>3, ClientWritten

LEMMA CloseClientOthers ==
  ASSUME NEW l \in Link, NEW r \in Requests, NEW m, Others(l, m, r), NEW c, Known(l, r, c)
  PROVE  Others(l, CloseClient(m, c), r)
<1>1. m \in Link /\ c \in Requests
  BY DEF Others, Known
<1> QED
  BY <1>1, CloseClientShape, ClientWanes

\* The end of a process or of a socket concerns one client.
LEMMA EndClientServes ==
  ASSUME NEW l, LinkInv(l), NEW c \in Requests
  PROVE  Moves(l, EndClient(l, c), c) /\ EndClient(l, c).ops = l.ops
<1> DEFINE k == CloseClient(l, c)
           v == [k.clients[c] EXCEPT !.gone = TRUE]
           n == [k EXCEPT !.clients = [k.clients EXCEPT ![c] = v]]
<1>1. l \in Link /\ \A q \in Requests : OpInOrder(l, q) /\ ClientInOrder(l, q)
  BY DEF LinkInv
<1>2. k \in Link /\ ClientChanged(l, k, c) /\ Wanes(l.clients[c], k.clients[c])
      /\ k.session = l.session
  BY <1>1, CloseClientShape DEF ClientChanged
<1> HIDE DEF k
<1>3. k.clients[c] \in Client
  BY <1>2, LinkParts
<1>4. v \in Client /\ Wanes(k.clients[c], v)
  BY <1>3 DEF Client, Wanes
<1>5. EndClient(l, c) = n
  BY DEF EndClient, k
<1> HIDE DEF v
<1>6. ClientChanged(k, n, c) /\ n.clients[c] = v /\ n.session = k.session
  BY <1>2, <1>4, ClientWritten
<1> HIDE DEF n
<1>7. ClientChanged(l, n, c) /\ Wanes(l.clients[c], n.clients[c]) /\ n.session = l.session
  BY <1>2, <1>4, <1>6 DEF ClientChanged, Wanes
<1>8. Others(l, l, c) /\ Known(l, c, c)
  BY <1>1 DEF Others, Known
<1>9. Others(l, n, c) /\ OpInOrder(n, c)
  BY <1>1, <1>7, <1>8, ClientWanes, StaysInOrder
<1> QED
  BY <1>5, <1>7, <1>9 DEF Moves, ClientChanged

\* The client of a session that ends one way or another.
LEMMA EndShape ==
  ASSUME NEW m \in Link, NEW c \in Requests, NEW status \in {"failed", "stopped"}
  PROVE  LET n == [CloseClient(m, c) EXCEPT !.clients[c].status = status, !.session = None] IN
         ClientChanged(m, n, c) /\ n.session = None /\ Wanes(m.clients[c], n.clients[c])
<1> DEFINE k == CloseClient(m, c)
           v == [k.clients[c] EXCEPT !.status = status]
           w == [k EXCEPT !.clients = [k.clients EXCEPT ![c] = v]]
           n == [k EXCEPT !.clients[c].status = status, !.session = None]
<1>1. k \in Link /\ ClientChanged(m, k, c) /\ Wanes(m.clients[c], k.clients[c])
      /\ ~k.clients[c].open
  BY CloseClientShape DEF ClientChanged
<1> HIDE DEF k
<1>2. k.clients[c] \in Client
  BY <1>1, LinkParts
<1>3. v \in Client /\ v.status = status /\ v.era = k.clients[c].era
      /\ v.shown = k.clients[c].shown /\ ~v.open
  BY <1>1, <1>2 DEF Client
<1>4. n = [w EXCEPT !.session = None]
  OBVIOUS
<1>5. Wanes(m.clients[c], v)
  BY <1>1, <1>3 DEF Wanes
<1> HIDE DEF v
<1>6. ClientChanged(k, w, c) /\ w.clients[c] = v
  BY <1>1, <1>3, ClientWritten
<1> HIDE DEF w, n
<1>7. /\ n \in Link /\ n.kind = w.kind /\ n.peer = w.peer /\ n.session = None
      /\ n.clients = w.clients /\ n.ops = w.ops
  BY <1>4, <1>6, SessionWritten DEF ClientChanged
<1> QED
  BY <1>1, <1>5, <1>6, <1>7 DEF ClientChanged, k, n

LEMMA InvalidateSessionOthers ==
  ASSUME NEW l \in Link, NEW r \in Requests, NEW m, Others(l, m, r)
  PROVE  Others(l, InvalidateSession(m), r) /\ InvalidateSession(m).ops = m.ops
<1>1. m \in Link
  BY DEF Others
<1>2. CASE m.session = None
  BY <1>2 DEF InvalidateSession
<1>3. CASE m.session # None
  <2>1. Known(l, r, m.session) /\ m.session \in Requests
    BY <1>3, SessionKnown DEF Known
  <2>2. InvalidateSession(m) =
          [CloseClient(m, m.session) EXCEPT !.clients[m.session].status = "failed",
                                            !.session = None]
    BY <1>3 DEF InvalidateSession
  <2>3. /\ ClientChanged(m, InvalidateSession(m), m.session)
        /\ Wanes(m.clients[m.session], InvalidateSession(m).clients[m.session])
        /\ InvalidateSession(m).session = None
    BY <1>1, <2>1, <2>2, EndShape
  <2> QED
    BY <1>1, <2>1, <2>3, ClientWanes DEF ClientChanged
<1> QED
  BY <1>2, <1>3

\* An operation that goes on, and one that asks.
WithDoing(m, r, d) == [m EXCEPT !.ops[r].doing = d]
WithAsked(m, r, doing, c, envelope) ==
  [m EXCEPT !.ops[r].doing = doing, !.ops[r].via = c, !.ops[r].envelope = envelope]

LEMMA DoingShape ==
  ASSUME NEW m \in Link, NEW r \in Requests, NEW d \in Asking \cup {"done", "failed"}
  PROVE  LET n == WithDoing(m, r, d) IN
         OpChanged(m, n, r) /\ n.ops[r].doing = d /\ n.ops[r].via = m.ops[r].via
<1> DEFINE op == [m.ops[r] EXCEPT !.doing = d]
<1>1. m.ops[r] \in Operation
  BY LinkParts
<1>2. op \in Operation /\ op.job = m.ops[r].job /\ op.doing = d /\ op.via = m.ops[r].via
  BY <1>1 DEF Operation
<1>3. WithDoing(m, r, d) = [m EXCEPT !.ops = [m.ops EXCEPT ![r] = op]]
  BY DEF WithDoing
<1> HIDE DEF op
<1> QED
  BY <1>2, <1>3, OpWritten

LEMMA AskShape ==
  ASSUME NEW m \in Link, NEW r \in Requests, NEW c \in Requests,
         NEW doing \in Asking, NEW envelope \in {"modern", "legacy"}
  PROVE  LET n == WithAsked(m, r, doing, c, envelope) IN
         /\ OpChanged(m, n, r)
         /\ n.ops[r].doing = doing /\ n.ops[r].via = c /\ n.ops[r].envelope = envelope
<1> DEFINE op == [m.ops[r] EXCEPT !.doing = doing, !.via = c, !.envelope = envelope]
<1>1. m.ops[r] \in Operation /\ r \in DOMAIN m.ops
  BY LinkParts
<1>2. /\ op \in Operation /\ op.job = m.ops[r].job
      /\ op.doing = doing /\ op.via = c /\ op.envelope = envelope
  BY <1>1 DEF Operation
<1>3. WithAsked(m, r, doing, c, envelope) = [m EXCEPT !.ops = [m.ops EXCEPT ![r] = op]]
  BY <1>1 DEF Link, WithAsked
<1> HIDE DEF op
<1> QED
  BY <1>2, <1>3, OpWritten

LEMMA EndMoves ==
  ASSUME NEW l \in Link, NEW r \in Requests, NEW m, Others(l, m, r),
         NEW d \in {"done", "failed"}
  PROVE  Moves(l, WithDoing(m, r, d), r) /\ WithDoing(m, r, d).ops[r].doing = d
<1> DEFINE n == WithDoing(m, r, d)
<1>1. m \in Link
  BY DEF Others
<1>2. OpChanged(m, n, r) /\ n.ops[r].doing = d /\ n.ops[r].via = m.ops[r].via
  BY <1>1, DoingShape
<1>3. d \notin Asking
  BY DEF Asking
<1> HIDE DEF n
<1>4. Others(l, n, r)
  BY <1>2, <1>3, OpMoves DEF Handshake, Asking
<1>5. OpInOrder(n, r)
  BY <1>2, <1>3 DEF OpInOrder, Handshake, Asking
<1> QED
  BY <1>2, <1>4, <1>5 DEF Moves, n

LEMMA DoneMoves ==
  ASSUME NEW l \in Link, NEW r \in Requests, NEW m, Others(l, m, r)
  PROVE  Moves(l, Done(m, r), r) /\ Done(m, r).ops[r].doing = "done"
<1>1. Done(m, r) = WithDoing(m, r, "done")
  BY DEF Done, WithDoing
<1> QED
  BY <1>1, EndMoves

LEMMA FailedMoves ==
  ASSUME NEW l \in Link, NEW r \in Requests, NEW m, Others(l, m, r), NEW e
  PROVE  Moves(l, Failed(m, r, e), r) /\ Failed(m, r, e).ops[r].doing = "failed"
<1> DEFINE over == WithDoing(m, r, "failed")
<1>1. Moves(l, over, r) /\ over.ops[r].doing = "failed"
  BY EndMoves
<1>2. Others(l, over, r)
  BY <1>1 DEF Moves
<1>3. Failed(m, r, e) \in {over, InvalidateSession(over)}
  BY DEF Failed, WithDoing
<1> HIDE DEF over
<1>4. Others(l, InvalidateSession(over), r) /\ InvalidateSession(over).ops = over.ops
  BY <1>2, InvalidateSessionOthers
<1>5. \A n : Others(l, n, r) /\ n.ops[r].doing = "failed" => OpInOrder(n, r)
  BY DEF OpInOrder, Handshake, Asking
<1> QED
  BY <1>1, <1>2, <1>3, <1>4, <1>5 DEF Moves

\* What a handshake needs, and what any other request does.
MayShakeHands(m, r, c, doing, envelope) ==
  /\ c = r /\ Alone(m, r)
  /\ m.clients[r].era = None /\ ~m.clients[r].shown
  /\ envelope = IF doing = "probing" THEN "modern" ELSE "legacy"

MayConverse(m, r, c) ==
  /\ c # r => m.ops[c].doing \notin Handshake
  /\ m.clients[c].era = None => ~m.clients[c].open

LEMMA AskMoves ==
  ASSUME NEW l \in Link, NEW r \in Requests, NEW m, Others(l, m, r),
         NEW c, Known(l, r, c),
         NEW doing \in Asking, NEW envelope \in {"modern", "legacy"},
         m.clients[c].open /\ doing \in Handshake => MayShakeHands(m, r, c, doing, envelope),
         doing \notin Handshake => MayConverse(m, r, c) /\ envelope = Envelope(m, c)
  PROVE  Moves(l, Ask(m, r, c, doing, envelope), r)
<1>1. m \in Link /\ c \in Requests /\ ClientInOrder(m, c)
  BY DEF Others, Known
<1>2. CASE ~m.clients[c].open
  <2>1. Ask(m, r, c, doing, envelope) = Failed(m, r, "closed")
    BY <1>2 DEF Ask
  <2> QED
    BY <2>1, FailedMoves
<1>3. CASE m.clients[c].open
  <2> DEFINE n == WithAsked(m, r, doing, c, envelope)
  <2>1. Ask(m, r, c, doing, envelope) = n
    BY <1>3 DEF Ask, WithAsked
  <2>2. /\ OpChanged(m, n, r)
        /\ n.ops[r].doing = doing /\ n.ops[r].via = c /\ n.ops[r].envelope = envelope
    BY <1>1, AskShape
  <2> HIDE DEF n
  <2>3. n.clients = m.clients /\ \A q \in Requests \ {r} : n.ops[q] = m.ops[q]
    BY <2>2 DEF OpChanged
  <2>4. doing \in Handshake => Alone(m, r)
    BY <1>3 DEF MayShakeHands
  <2>5. Others(l, n, r)
    BY <2>2, <2>4, OpMoves
  <2>6. ASSUME doing \in Handshake
        PROVE  OpInOrder(n, r)
    <3>1. MayShakeHands(m, r, c, doing, envelope)
      BY <1>3, <2>6
    <3>2. ShakesHands(n, r)
      BY <2>2, <2>3, <3>1 DEF ShakesHands, MayShakeHands
    <3> QED
      BY <2>2, <2>6, <3>2 DEF OpInOrder
  <2>7. ASSUME doing \notin Handshake
        PROVE  OpInOrder(n, r)
    <3>1. /\ m.clients[c].era \in {"modern", "legacy"}
          /\ m.clients[c].shown => envelope = "modern"
          /\ m.clients[c].era = "legacy" => envelope = "legacy"
      BY <1>1, <1>3, <2>7, LinkParts DEF MayConverse, Envelope, Era, ClientInOrder
    <3>2. n.ops[c].doing \notin Handshake
      BY <1>1, <2>2, <2>3, <2>7 DEF MayConverse
    <3>3. Converses(n, r)
      BY <1>1, <2>2, <2>3, <3>1, <3>2 DEF Converses
    <3> QED
      BY <2>2, <2>7, <3>3 DEF OpInOrder
  <2> QED
    BY <2>1, <2>5, <2>6, <2>7 DEF Moves
<1> QED
  BY <1>1, <1>2, <1>3, LinkParts

LEMMA EnvelopeType ==
  ASSUME NEW m, NEW c
  PROVE  Envelope(m, c) \in {"modern", "legacy"}
  BY DEF Envelope

LEMMA ListToolsMoves ==
  ASSUME NEW l \in Link, NEW r \in Requests, NEW m, Others(l, m, r),
         NEW c, Known(l, r, c), MayConverse(m, r, c),
         NEW doing \in {"listing", "checking", "preparing"}
  PROVE  Moves(l, ListTools(m, r, c, doing), r)
<1>1. CASE Era(m, c) = None
  <2> DEFINE probing == "probing"
             modern == "modern"
  <2>1. ListTools(m, r, c, doing) = Ask(m, r, c, probing, modern)
    BY <1>1 DEF ListTools, Probe
  <2>2. ~m.clients[c].open /\ probing \in Asking /\ probing \in Handshake
        /\ modern \in {"modern", "legacy"}
    BY <1>1 DEF MayConverse, Era, Asking, Handshake
  <2> HIDE DEF probing, modern
  <2> QED
    BY <2>1, <2>2, AskMoves
<1>2. CASE Era(m, c) # None
  <2>1. ListTools(m, r, c, doing) = Ask(m, r, c, doing, Envelope(m, c))
    BY <1>2 DEF ListTools
  <2>2. doing \in Asking /\ doing \notin Handshake
    BY DEF Asking, Handshake
  <2> QED
    BY <2>1, <2>2, AskMoves, EnvelopeType
<1> QED
  BY <1>1, <1>2

LEMMA SendCallMoves ==
  ASSUME NEW l \in Link, NEW r \in Requests, NEW m, Others(l, m, r),
         NEW c, Known(l, r, c), MayConverse(m, r, c)
  PROVE  Moves(l, SendCall(m, r, c), r)
<1> DEFINE calling == "calling"
<1>1. SendCall(m, r, c) = Ask(m, r, c, calling, Envelope(m, c))
  BY DEF SendCall
<1>2. calling \in Asking /\ calling \notin Handshake
  BY DEF Asking, Handshake
<1> HIDE DEF calling
<1> QED
  BY <1>1, <1>2, AskMoves, EnvelopeType

LEMMA CallToolMoves ==
  ASSUME NEW l \in Link, NEW r \in Requests, NEW m, Others(l, m, r),
         NEW c, Known(l, r, c), MayConverse(m, r, c)
  PROVE  Moves(l, CallTool(m, r, c), r)
<1> DEFINE preparing == "preparing"
<1>1. preparing \in {"listing", "checking", "preparing"}
  OBVIOUS
<1>2. CallTool(m, r, c) \in {ListTools(m, r, c, preparing), SendCall(m, r, c)}
  BY DEF CallTool, ListTools
<1> HIDE DEF preparing
<1>3. Moves(l, ListTools(m, r, c, preparing), r) /\ Moves(l, SendCall(m, r, c), r)
  BY <1>1, ListToolsMoves, SendCallMoves
<1> QED
  BY <1>2, <1>3

LEMMA UseSessionMoves ==
  ASSUME NEW l \in Link, NEW r \in Requests, NEW m, Others(l, m, r),
         NEW c, Known(l, r, c), MayConverse(m, r, c), NEW healthy
  PROVE  Moves(l, UseSession(m, r, c, healthy), r)
<1> DEFINE listing == "listing"
           checking == "checking"
<1>1. listing \in {"listing", "checking", "preparing"} /\ checking \in {"listing", "checking", "preparing"}
  OBVIOUS
<1>2. UseSession(m, r, c, healthy) \in
        {ListTools(m, r, c, listing), CallTool(m, r, c), ListTools(m, r, c, checking)}
  BY DEF UseSession
<1> HIDE DEF listing, checking
<1>3. /\ Moves(l, ListTools(m, r, c, listing), r) /\ Moves(l, CallTool(m, r, c), r)
      /\ Moves(l, ListTools(m, r, c, checking), r)
  BY <1>1, ListToolsMoves, CallToolMoves
<1> QED
  BY <1>2, <1>3

-----------------------------------------------------------------------------
\* The session, and the handshake of the operation that starts it.

LEMMA ClientMade ==
  ASSUME NEW l \in Link, NEW r \in Requests, NEW m, Others(l, m, r), Alone(m, r),
         NEW n, ClientChanged(m, n, r), ClientInOrder(n, r),
         n.session \in {m.session, None, r}
  PROVE  Others(l, n, r) /\ Alone(n, r)
<1>1. /\ m \in Link /\ n \in Link /\ n.ops = m.ops
      /\ \A q \in Requests \ {r} : n.clients[q] = m.clients[q]
  BY DEF Others, ClientChanged
<1>2. ASSUME NEW c \in Requests
      PROVE  ClientInOrder(n, c)
  <2>1. CASE c # r
    BY <1>1, <2>1 DEF ClientInOrder, Others
  <2> QED
    BY <2>1
<1>3. ASSUME NEW q \in Requests \ {r}
      PROVE  OpInOrder(n, q)
  <2>1. OpInOrder(m, q)
    BY DEF Others
  <2>2. ASSUME m.ops[q].doing \in Handshake, ShakesHands(m, q)
        PROVE  ShakesHands(n, q)
    BY <1>1, <2>2 DEF ShakesHands
  <2>3. ASSUME m.ops[q].doing \in Asking \ Handshake, Converses(m, q)
        PROVE  Converses(n, q)
    <3>1. m.ops[q].via \in Requests \ {r}
      BY <2>3 DEF Alone, Converses
    <3> QED
      BY <1>1, <2>3, <3>1 DEF Converses
  <2> QED
    BY <1>1, <2>1, <2>2, <2>3 DEF OpInOrder
<1>4. ASSUME NEW q \in Requests \ {r}, Fresh(l, q)
      PROVE  Fresh(n, q)
  <2>1. Fresh(m, q)
    BY <1>4 DEF Others
  <2> QED
    BY <1>1, <2>1 DEF Fresh
<1>5. Alone(n, r)
  BY <1>1 DEF Alone
<1> QED
  BY <1>1, <1>2, <1>3, <1>4, <1>5 DEF Others, ClientChanged

\* A client written over, with the session or without.
WithClient(m, c, v) == [m EXCEPT !.clients[c] = v]
WithSession(m, s) == [m EXCEPT !.session = s]

LEMMA WithClientShape ==
  ASSUME NEW m \in Link, NEW c \in Requests, NEW v \in Client, NEW s \in Requests \cup {None}
  PROVE  /\ ClientChanged(m, WithClient(m, c, v), c)
         /\ WithClient(m, c, v).clients[c] = v
         /\ WithClient(m, c, v).session = m.session
         /\ ClientChanged(m, WithSession(WithClient(m, c, v), s), c)
         /\ WithSession(WithClient(m, c, v), s).clients[c] = v
         /\ WithSession(WithClient(m, c, v), s).session = s
<1> DEFINE w == WithClient(m, c, v)
           n == WithSession(w, s)
<1>1. ClientChanged(m, w, c) /\ w.clients[c] = v /\ w.session = m.session
  <2>1. w = [m EXCEPT !.clients = [m.clients EXCEPT ![c] = v]]
    BY DEF WithClient
  <2> QED
    BY <2>1, ClientWritten
<1> HIDE DEF w
<1>2. w \in Link
  BY <1>1 DEF ClientChanged
<1>3. /\ n \in Link /\ n.kind = w.kind /\ n.peer = w.peer /\ n.session = s
      /\ n.clients = w.clients /\ n.ops = w.ops
  BY <1>2, SessionWritten DEF WithSession
<1> HIDE DEF n
<1>4. ClientChanged(m, n, c) /\ n.clients[c] = v
  BY <1>1, <1>3 DEF ClientChanged
<1> QED
  BY <1>1, <1>3, <1>4 DEF w, n

LEMMA NewClientType ==
  /\ NewClient \in Client /\ NewClient.era = None /\ ~NewClient.shown
  /\ NewClient.status = "starting"
  BY DEF NewClient, NoClient, Client

LEMMA StartSessionMoves ==
  ASSUME NEW l \in Link, NEW r \in Requests, NEW m, Others(l, m, r), Alone(m, r), NEW installedNow
  PROVE  Moves(l, StartSession(m, r, installedNow), r)
<1>1. CASE ~installedNow
  BY <1>1, FailedMoves DEF StartSession
<1>2. CASE installedNow
  <2> DEFINE n == WithSession(WithClient(m, r, NewClient), r)
             probing == "probing"
             modern == "modern"
  <2>1. StartSession(m, r, installedNow) = Ask(n, r, r, probing, modern)
    BY <1>2 DEF StartSession, Probe, WithSession, WithClient
  <2>2. m \in Link
    BY DEF Others
  <2>3. ClientChanged(m, n, r) /\ n.clients[r] = NewClient /\ n.session = r
    BY <2>2, NewClientType, WithClientShape
  <2> HIDE DEF n
  <2>4. ClientInOrder(n, r)
    BY <2>3, NewClientType DEF ClientInOrder
  <2>5. Others(l, n, r) /\ Alone(n, r)
    BY <2>3, <2>4, ClientMade
  <2>6. MayShakeHands(n, r, r, probing, modern)
    BY <2>3, <2>5, NewClientType DEF MayShakeHands
  <2>7. probing \in Asking /\ probing \in Handshake /\ modern \in {"modern", "legacy"}
    BY DEF Asking, Handshake
  <2>8. Known(l, r, r)
    BY DEF Known
  <2> HIDE DEF probing, modern
  <2> QED
    BY <2>1, <2>5, <2>6, <2>7, <2>8, AskMoves
<1> QED
  BY <1>1, <1>2

LEMMA StartFailedMoves ==
  ASSUME NEW l \in Link, NEW r \in Requests, NEW m, Others(l, m, r), NEW e
  PROVE  Moves(l, StartFailed(m, r, e), r)
<1> DEFINE n == [CloseClient(m, r) EXCEPT !.clients[r].status = "failed", !.session = None]
<1>1. m \in Link
  BY DEF Others
<1>2. ClientChanged(m, n, r) /\ n.session = None /\ Wanes(m.clients[r], n.clients[r])
  BY <1>1, EndShape
<1>3. StartFailed(m, r, e) = Failed(n, r, e)
  BY DEF StartFailed
<1> HIDE DEF n
<1>4. Others(l, n, r)
  BY <1>2, ClientWanes DEF Known
<1> QED
  BY <1>3, <1>4, FailedMoves

\* The handshake of r goes on: what is known of it, with or without an answer.
Shaking(m, r) ==
  /\ m.ops[r].via = r
  /\ m.clients[r].era = None
  /\ Alone(m, r)

LEMMA InitializeFailedMoves ==
  ASSUME NEW l \in Link, NEW r \in Requests, NEW m, Others(l, m, r), Shaking(m, r), NEW e
  PROVE  Moves(l, InitializeFailed(m, r, e), r)
  BY StartFailedMoves DEF InitializeFailed, Shaking

LEMMA ProbeFailedMoves ==
  ASSUME NEW l \in Link, NEW r \in Requests, NEW m, Others(l, m, r), Shaking(m, r), NEW e,
         ShouldFallbackToLegacy(e, m.kind) => ~m.clients[r].shown
  PROVE  Moves(l, ProbeFailed(m, r, e), r)
<1> DEFINE initializing == "initializing"
           legacy == "legacy"
<1>1. CASE ShouldFallbackToLegacy(e, m.kind) /\ m.clients[r].open
  <2>1. ProbeFailed(m, r, e) = Ask(m, r, r, initializing, legacy)
    BY <1>1 DEF ProbeFailed, Shaking
  <2>2. MayShakeHands(m, r, r, initializing, legacy)
    BY <1>1 DEF MayShakeHands, Shaking
  <2>3. initializing \in Asking /\ initializing \in Handshake /\ legacy \in {"modern", "legacy"}
    BY DEF Asking, Handshake
  <2>4. Known(l, r, r)
    BY DEF Known
  <2> HIDE DEF initializing, legacy
  <2> QED
    BY <2>1, <2>2, <2>3, <2>4, AskMoves
<1>2. CASE ~(ShouldFallbackToLegacy(e, m.kind) /\ m.clients[r].open)
  <2>1. ProbeFailed(m, r, e) \in {InitializeFailed(m, r, e), InitializeFailed(m, r, "closed")}
    BY <1>2 DEF ProbeFailed, Shaking
  <2> QED
    BY <2>1, InitializeFailedMoves
<1> QED
  BY <1>1, <1>2

LEMMA NegotiatedMoves ==
  ASSUME NEW l \in Link, NEW r \in Requests, NEW m, Others(l, m, r), Shaking(m, r),
         NEW era \in {"modern", "legacy"}, era = "legacy" => ~m.clients[r].shown
  PROVE  Moves(l, Negotiated(m, r, era), r)
<1> DEFINE v == [m.clients[r] EXCEPT !.era = era, !.status = "running"]
           n == WithClient(m, r, v)
           healthy == TRUE
<1>1. m \in Link
  BY DEF Others
<1>2. m.clients[r] \in Client
  BY <1>1, LinkParts
<1>3. v \in Client /\ v.era = era /\ v.shown = m.clients[r].shown
  BY <1>2 DEF Client
<1>4. Negotiated(m, r, era) = UseSession(n, r, r, healthy)
  <2>1. m.ops[r].via = r /\ r \in DOMAIN m.clients
    BY <1>1, LinkParts DEF Shaking
  <2>2. [m EXCEPT !.clients[r].era = era, !.clients[r].status = "running"] = n
    BY <1>1, <2>1 DEF WithClient, Link
  <2> HIDE DEF n, v
  <2> QED
    BY <2>1, <2>2 DEF Negotiated
<1> HIDE DEF v
<1>5. ClientChanged(m, n, r) /\ n.clients[r] = v /\ n.session = m.session
  BY <1>1, <1>3, WithClientShape, LinkParts
<1> HIDE DEF n, healthy
<1>6. ClientInOrder(n, r)
  BY <1>3, <1>5 DEF ClientInOrder
<1>7. Others(l, n, r) /\ Alone(n, r)
  BY <1>5, <1>6, ClientMade DEF Shaking
<1>8. MayConverse(n, r, r) /\ Known(l, r, r)
  BY <1>3, <1>5 DEF MayConverse, Known
<1> QED
  BY <1>4, <1>7, <1>8, UseSessionMoves

LEMMA DiscoveredMoves ==
  ASSUME NEW l \in Link, NEW r \in Requests, NEW m, Others(l, m, r), Shaking(m, r),
         ~m.clients[r].shown,
         NEW reply \in {"advertised", "otherRevision", "protocolError", "methodNotFound"}
  PROVE  Moves(l, Discovered(m, r, reply), r)
<1> DEFINE v == [m.clients[r] EXCEPT !.shown = @ \/ reply # "methodNotFound"]
           n == WithClient(m, r, v)
<1>1. m \in Link
  BY DEF Others
<1>2. m.clients[r] \in Client /\ ClientInOrder(m, r)
  BY <1>1, LinkParts DEF Others
<1>3. /\ v \in Client /\ v.era = m.clients[r].era /\ v.status = m.clients[r].status
      /\ reply = "methodNotFound" => ~v.shown
  BY <1>2 DEF Client
<1>4. n = [m EXCEPT !.clients[m.ops[r].via].shown = @ \/ reply # "methodNotFound"]
  BY DEF WithClient, Shaking
<1> HIDE DEF v
<1>5. ClientChanged(m, n, r) /\ n.clients[r] = v /\ n.session = m.session
  BY <1>1, <1>3, WithClientShape, LinkParts
<1> HIDE DEF n
<1>6. ClientInOrder(n, r)
  BY <1>2, <1>3, <1>5 DEF ClientInOrder, Shaking
<1>7. Others(l, n, r) /\ Alone(n, r) /\ Shaking(n, r)
  BY <1>3, <1>5, <1>6, ClientMade DEF Shaking, ClientChanged
<1>8. CASE reply = "advertised"
  <2> DEFINE modern == "modern"
  <2>1. Discovered(m, r, reply) = Negotiated(n, r, modern)
    BY <1>4, <1>8 DEF Discovered
  <2>2. modern \in {"modern", "legacy"} /\ modern # "legacy"
    OBVIOUS
  <2> HIDE DEF modern
  <2> QED
    BY <1>7, <2>1, <2>2, NegotiatedMoves
<1>9. CASE reply = "otherRevision"
  <2>1. Discovered(m, r, reply) = InitializeFailed(n, r, reply)
    BY <1>4, <1>9 DEF Discovered
  <2> QED
    BY <1>7, <2>1, InitializeFailedMoves
<1>10. CASE reply \in {"protocolError", "methodNotFound"}
  <2>1. Discovered(m, r, reply) = ProbeFailed(n, r, reply)
    BY <1>4, <1>10 DEF Discovered
  <2>2. ShouldFallbackToLegacy(reply, n.kind) => ~n.clients[r].shown
    BY <1>3, <1>5, <1>10 DEF ShouldFallbackToLegacy
  <2> QED
    BY <1>7, <2>1, <2>2, ProbeFailedMoves
<1> QED
  BY <1>8, <1>9, <1>10

\* What waits after the handshake may ask again, on the same client.
LEMMA ConversesOn ==
  ASSUME NEW r \in Requests, NEW m, Converses(m, r)
  PROVE  m.ops[r].via \in Requests /\ MayConverse(m, r, m.ops[r].via)
  BY DEF Converses, MayConverse

LEMMA ListedMoves ==
  ASSUME NEW l \in Link, NEW r \in Requests, NEW m, Others(l, m, r), Converses(m, r),
         m.ops[r].doing \in {"listing", "checking", "preparing"}
  PROVE  Moves(l, Listed(m, r), r)
<1> DEFINE c == m.ops[r].via
           v == [m.clients[c] EXCEPT !.listed = TRUE]
           n == WithClient(m, c, v)
<1>1. m \in Link /\ c \in Requests /\ MayConverse(m, r, c) /\ Known(l, r, c)
  BY ConversesOn, SessionKnown DEF Others
<1>2. m.clients[c] \in Client
  BY <1>1, LinkParts
<1>3. v \in Client /\ Wanes(m.clients[c], v)
  BY <1>2 DEF Client, Wanes
<1>4. n = [m EXCEPT !.clients[c].listed = TRUE]
  BY DEF WithClient
<1>5. Listed(m, r) \in {Done(n, r), CallTool(n, r, c), SendCall(n, r, c)}
  BY <1>4 DEF Listed
<1> HIDE DEF v, c
<1>6. ClientChanged(m, n, c) /\ n.clients[c] = v /\ n.session = m.session
  BY <1>1, <1>3, WithClientShape, LinkParts
<1> HIDE DEF n
<1>7. Others(l, n, r)
  BY <1>1, <1>3, <1>6, ClientWanes
<1>8. MayConverse(n, r, c)
  <2>1. n.ops = m.ops /\ (n.clients[c].era = None => m.clients[c].era = None \/ ~n.clients[c].open)
        /\ (n.clients[c].open => m.clients[c].open)
    BY <1>3, <1>6 DEF Wanes, ClientChanged
  <2> QED
    BY <1>1, <2>1 DEF MayConverse
<1> QED
  BY <1>1, <1>5, <1>7, <1>8, DoneMoves, CallToolMoves, SendCallMoves

LEMMA ClearedMoves ==
  ASSUME NEW l \in Link, NEW r \in Requests, NEW m, Others(l, m, r), m.ops[r].via \in Requests
  PROVE  Moves(l, Cleared(m, r), r) /\ Cleared(m, r).ops[r].doing = "done"
<1> DEFINE c == m.ops[r].via
           k == CloseClient(m, c)
           v == [k.clients[c] EXCEPT !.era = None, !.listed = FALSE, !.status = "stopped"]
           n == WithSession(WithClient(k, c, v), None)
<1>1. m \in Link /\ Known(l, r, c)
  BY SessionKnown DEF Others
<1>2. /\ k \in Link /\ ClientChanged(m, k, c) /\ Wanes(m.clients[c], k.clients[c])
      /\ ~k.clients[c].open
  BY <1>1, CloseClientShape DEF ClientChanged
<1>3. Cleared(m, r) = Done([k EXCEPT !.clients[c].era = None, !.clients[c].listed = FALSE,
                                     !.clients[c].status = "stopped", !.session = None], r)
  BY DEF Cleared
<1> HIDE DEF k
<1>4. k.clients[c] \in Client /\ c \in DOMAIN k.clients
  BY <1>2, LinkParts
<1>5. /\ v \in Client /\ v.era = None /\ v.status = "stopped" /\ v.shown = k.clients[c].shown
      /\ ~v.open
  BY <1>2, <1>4 DEF Client
<1>6. Cleared(m, r) = Done(n, r)
  <2>1. [k EXCEPT !.clients[c].era = None, !.clients[c].listed = FALSE,
                  !.clients[c].status = "stopped"] = WithClient(k, c, v)
    BY <1>2, <1>4 DEF WithClient, Link
  <2> HIDE DEF v
  <2> QED
    BY <1>3, <2>1 DEF WithSession
<1>7. Wanes(m.clients[c], v)
  BY <1>2, <1>5 DEF Wanes
<1> HIDE DEF v, c
<1>8. ClientChanged(k, n, c) /\ n.clients[c] = v /\ n.session = None
  BY <1>1, <1>2, <1>5, WithClientShape DEF Known
<1> HIDE DEF n
<1>9. ClientChanged(m, n, c)
  BY <1>2, <1>8 DEF ClientChanged
<1>10. Others(l, n, r)
  BY <1>1, <1>7, <1>8, <1>9, ClientWanes
<1> QED
  BY <1>6, <1>10, DoneMoves

LEMMA StopFailedMoves ==
  ASSUME NEW l \in Link, NEW r \in Requests, NEW m, Others(l, m, r), m.ops[r].via \in Requests,
         NEW e
  PROVE  Moves(l, StopFailed(m, r, e), r)
<1> DEFINE c == m.ops[r].via
           n == [CloseClient(m, c) EXCEPT !.clients[c].status = "stopped", !.session = None]
<1>1. m \in Link /\ Known(l, r, c)
  BY SessionKnown DEF Others
<1>2. ClientChanged(m, n, c) /\ n.session = None /\ Wanes(m.clients[c], n.clients[c])
  BY <1>1, EndShape
<1>3. StopFailed(m, r, e) = Failed(n, r, e)
  BY DEF StopFailed
<1> HIDE DEF n
<1>4. Others(l, n, r)
  BY <1>1, <1>2, ClientWanes
<1> QED
  BY <1>3, <1>4, FailedMoves

\* What is known of an operation that waits.
Waits(m, r) ==
  /\ m.ops[r].doing \in Asking /\ m.ops[r].via \in Requests
  /\ m.ops[r].doing \in Handshake => Shaking(m, r) /\ ~m.clients[r].shown

LEMMA OthersItself ==
  ASSUME NEW l, LinkInv(l), NEW r \in Requests
  PROVE  Others(l, l, r)
  BY DEF LinkInv, Others

LEMMA WaitsInOrder ==
  ASSUME NEW l, LinkInv(l), NEW r \in Requests, Asks(l, r)
  PROVE  /\ Waits(l, r)
         /\ l.ops[r].doing \notin Handshake => Converses(l, r)
<1>1. \A q \in Requests : OpInOrder(l, q)
  BY DEF LinkInv
<1>2. CASE l.ops[r].doing \in Handshake
  <2>1. ShakesHands(l, r)
    BY <1>1, <1>2 DEF OpInOrder
  <2>2. ASSUME NEW q \in Requests \ {r}, l.ops[q].doing \in Asking, l.ops[q].via = r
        PROVE  FALSE
    <3>1. CASE l.ops[q].doing \in Handshake
      BY <1>1, <2>2, <3>1 DEF OpInOrder, ShakesHands
    <3>2. CASE l.ops[q].doing \notin Handshake
      BY <1>1, <1>2, <2>2, <3>2 DEF OpInOrder, Converses
    <3> QED
      BY <3>1, <3>2
  <2>3. Alone(l, r)
    BY <2>2 DEF Alone
  <2> QED
    BY <1>2, <2>1, <2>3 DEF Waits, Shaking, ShakesHands, Asks
<1>3. CASE l.ops[r].doing \notin Handshake
  BY <1>1, <1>3 DEF OpInOrder, Asks, Waits, Converses
<1> QED
  BY <1>2, <1>3

LEMMA SettleFailedMoves ==
  ASSUME NEW l \in Link, NEW r \in Requests, NEW m, Others(l, m, r), Waits(m, r), NEW e
  PROVE  Moves(l, SettleFailed(m, r, e), r)
<1>1. CASE m.ops[r].doing = "probing"
  BY <1>1, ProbeFailedMoves DEF SettleFailed, Waits, Handshake
<1>2. CASE m.ops[r].doing = "initializing"
  BY <1>2, InitializeFailedMoves DEF SettleFailed, Waits, Handshake
<1>3. CASE m.ops[r].doing = "stopping"
  BY <1>3, StopFailedMoves DEF SettleFailed, Waits
<1>4. CASE m.ops[r].doing \notin {"probing", "initializing", "stopping"}
  BY <1>4, FailedMoves DEF SettleFailed
<1> QED
  BY <1>1, <1>2, <1>3, <1>4

LEMMA OperationFailsMoves ==
  ASSUME NEW l, LinkInv(l), NEW r \in Requests, Asks(l, r), NEW e
  PROVE  Moves(l, SettleFailed(l, r, e), r)
  BY OthersItself, WaitsInOrder, SettleFailedMoves DEF LinkInv

LEMMA AnsweredMoves ==
  ASSUME NEW l, LinkInv(l), NEW r \in Requests, Asks(l, r),
         NEW reply \in Replies(l, l.ops[r].doing)
  PROVE  Moves(l, Answered(l, r, reply), r)
<1>1. l \in Link /\ Others(l, l, r) /\ Waits(l, r)
  BY OthersItself, WaitsInOrder DEF LinkInv
<1>2. Moves(l, SettleFailed(l, r, reply), r)
  BY OperationFailsMoves
<1>3. CASE l.ops[r].doing = "probing"
  <2>1. reply \in {"advertised", "otherRevision", "protocolError", "methodNotFound"}
    BY <1>3 DEF Replies
  <2>2. Answered(l, r, reply) = Discovered(l, r, reply)
    BY <1>3 DEF Answered
  <2> QED
    BY <1>1, <1>3, <2>1, <2>2, DiscoveredMoves DEF Waits, Handshake
<1>4. CASE l.ops[r].doing = "initializing"
  <2> DEFINE legacy == "legacy"
  <2>1. Shaking(l, r) /\ ~l.clients[r].shown
    BY <1>1, <1>4 DEF Waits, Handshake
  <2>2. reply # "result"
    BY <1>4 DEF Replies
  <2>3. Answered(l, r, reply) \in
          {Negotiated(l, r, legacy), InitializeFailed(l, r, "closed"), SettleFailed(l, r, reply)}
    BY <1>4, <2>2 DEF Answered
  <2>4. legacy \in {"modern", "legacy"}
    OBVIOUS
  <2> HIDE DEF legacy
  <2> QED
    BY <1>1, <1>2, <2>1, <2>3, <2>4, NegotiatedMoves, InitializeFailedMoves
<1>5. CASE l.ops[r].doing \notin Handshake
  <2>0. reply \in {"result", "protocolError"}
    BY <1>5 DEF Replies, Handshake
  <2>1. CASE reply # "result"
    <3>1. Answered(l, r, reply) = SettleFailed(l, r, reply)
      BY <1>5, <2>0, <2>1 DEF Answered, Handshake
    <3> QED
      BY <1>2, <3>1
  <2>2. CASE reply = "result" /\ l.ops[r].doing = "calling"
    BY <1>1, <2>2, DoneMoves DEF Answered
  <2>3. CASE reply = "result" /\ l.ops[r].doing = "stopping"
    BY <1>1, <2>3, ClearedMoves DEF Answered, Waits
  <2>4. CASE reply = "result" /\ l.ops[r].doing \notin {"calling", "stopping"}
    <3>1. l.ops[r].doing \in {"listing", "checking", "preparing"}
      BY <1>1, <1>5, <2>4 DEF Waits, Handshake, Asking
    <3>2. Answered(l, r, reply) = Listed(l, r)
      BY <2>4, <3>1 DEF Answered
    <3> QED
      BY <1>1, <1>5, <3>1, <3>2, WaitsInOrder, ListedMoves
  <2> QED
    BY <2>1, <2>2, <2>3, <2>4
<1> QED
  BY <1>3, <1>4, <1>5 DEF Handshake

-----------------------------------------------------------------------------
\* What a request does to a link, from any state that is in order.

Serves(l, m, r) ==
  /\ LinkInv(m)
  /\ \A q \in Requests \ {r} : m.ops[q] = l.ops[q] /\ (Fresh(l, q) => Fresh(m, q))

LEMMA MovesServe ==
  ASSUME NEW l, NEW m, NEW r \in Requests, Moves(l, m, r)
  PROVE  Serves(l, m, r) /\ m.ops[r].job = l.ops[r].job
  BY DEF Moves, Others, Serves, LinkInv

LEMMA Cut ==
  ASSUME NEW l, NEW b, NEW m, NEW r \in Requests,
         \A q \in Requests \ {r} : b.ops[q] = l.ops[q] /\ (Fresh(l, q) => Fresh(b, q)),
         Serves(b, m, r)
  PROVE  Serves(l, m, r)
  BY DEF Serves

\* The operation of r, written over.
WithOp(m, r, op) == [m EXCEPT !.ops[r] = op]

LEMMA WithOpShape ==
  ASSUME NEW m \in Link, NEW r \in Requests, NEW op \in Operation
  PROVE  LET n == WithOp(m, r, op) IN
         /\ n \in Link /\ n.clients = m.clients /\ n.session = m.session
         /\ n.kind = m.kind /\ n.peer = m.peer
         /\ n.ops[r] = op
         /\ \A q \in Requests \ {r} : n.ops[q] = m.ops[q]
<1> DEFINE ops == [m.ops EXCEPT ![r] = op]
<1>1. ops \in [Requests -> Operation] /\ ops[r] = op
      /\ \A q \in Requests \ {r} : ops[q] = m.ops[q]
  BY LinkParts
<1>2. WithOp(m, r, op) = [m EXCEPT !.ops = ops]
  BY DEF WithOp
<1> HIDE DEF ops
<1>3. [m EXCEPT !.ops = ops] \in Link
  BY <1>1 DEF Link
<1> QED
  BY <1>1, <1>2, <1>3 DEF Link, ops

\* An operation that asks nothing, written over one that asked nothing.
LEMMA BegunServes ==
  ASSUME NEW l, LinkInv(l), NEW r \in Requests, l.ops[r].doing = None,
         NEW op \in Operation, op.doing \notin Asking,
         op.via \in {None, l.ops[r].via, l.session}
  PROVE  /\ Serves(l, WithOp(l, r, op), r)
         /\ WithOp(l, r, op).ops[r] = op
         /\ Alone(l, r) => Alone(WithOp(l, r, op), r)
<1> DEFINE n == WithOp(l, r, op)
<1>1. /\ l \in Link /\ \A c \in Requests : ClientInOrder(l, c)
      /\ \A q \in Requests : OpInOrder(l, q)
  BY DEF LinkInv
<1>2. /\ n \in Link /\ n.clients = l.clients /\ n.session = l.session /\ n.ops[r] = op
      /\ \A q \in Requests \ {r} : n.ops[q] = l.ops[q]
  BY <1>1, WithOpShape
<1> HIDE DEF n
<1>3. \A c \in Requests : ClientInOrder(n, c)
  BY <1>1, <1>2 DEF ClientInOrder
<1>4. ASSUME NEW q \in Requests \ {r}
      PROVE  OpInOrder(n, q) /\ (Fresh(l, q) => Fresh(n, q))
  <2>1. OpInOrder(l, q)
    BY <1>1
  <2>2. OpInOrder(n, q)
    BY <1>2, <2>1 DEF OpInOrder, ShakesHands, Converses, Handshake, Asking
  <2>3. Fresh(l, q) => Fresh(n, q)
    BY <1>2 DEF Fresh
  <2> QED
    BY <2>2, <2>3
<1>5. OpInOrder(n, r)
  BY <1>2 DEF OpInOrder, Handshake, Asking
<1>6. Serves(l, n, r)
  BY <1>2, <1>3, <1>4, <1>5 DEF Serves, LinkInv
<1>7. Alone(l, r) => Alone(n, r)
  BY <1>2 DEF Alone
<1> QED
  BY <1>2, <1>6, <1>7 DEF n

LEMMA NoOperationType ==
  /\ NoOperation \in Operation /\ NoOperation.job = None /\ NoOperation.doing = None
  /\ NoOperation.via = None
  BY DEF NoOperation, Operation

LEMMA FreshAlone ==
  ASSUME NEW l, NEW r \in Requests, Fresh(l, r)
  PROVE  Alone(l, r) /\ l.ops[r].doing = None /\ l.ops[r].job = None
  BY NoOperationType DEF Fresh, Alone

LEMMA GetOrStartSessionServes ==
  ASSUME NEW l, LinkInv(l), NEW r \in Requests, Fresh(l, r),
         NEW job \in {"list", "call"}, NEW installedNow, NEW healthy
  PROVE  LET m == GetOrStartSession(l, r, job, installedNow, healthy) IN
         Serves(l, m, r) /\ m.ops[r].job = job
<1> DEFINE op == [l.ops[r] EXCEPT !.job = job]
           begun == WithOp(l, r, op)
           m == GetOrStartSession(l, r, job, installedNow, healthy)
           c == l.session
<1>1. l \in Link /\ Alone(l, r) /\ l.ops[r].doing = None
  BY FreshAlone DEF LinkInv
<1>2. l.ops[r] \in Operation
  BY <1>1, LinkParts
<1>3. op \in Operation /\ op.doing = None /\ op.job = job /\ op.via = l.ops[r].via
  BY <1>1, <1>2 DEF Operation
<1>4. begun = [l EXCEPT !.ops[r].job = job]
  BY DEF WithOp
<1>5. m \in {UseSession(begun, r, c, healthy), StartSession(InvalidateSession(begun), r, installedNow)}
      /\ (Running(l) \/ m = StartSession(InvalidateSession(begun), r, installedNow))
  BY <1>4 DEF GetOrStartSession
<1> HIDE DEF op, m
<1>6. Serves(l, begun, r) /\ begun.ops[r] = op /\ Alone(begun, r)
  BY <1>1, <1>3, BegunServes
<1>7. begun.clients = l.clients /\ begun.session = l.session
  BY <1>1, <1>3, WithOpShape
<1> HIDE DEF begun
<1>8. LinkInv(begun) /\ begun \in Link /\ Others(begun, begun, r)
  BY <1>6, OthersItself DEF Serves, LinkInv
<1>9. Moves(begun, m, r)
  <2>1. CASE m = StartSession(InvalidateSession(begun), r, installedNow)
    <3>1. Others(begun, InvalidateSession(begun), r)
          /\ Alone(InvalidateSession(begun), r)
      BY <1>6, <1>8, InvalidateSessionOthers DEF Alone
    <3> QED
      BY <1>8, <2>1, <3>1, StartSessionMoves
  <2>2. CASE m = UseSession(begun, r, c, healthy) /\ Running(l)
    <3>1. c \in Requests /\ Known(begun, r, c)
      BY <1>7, <1>8, <2>2, SessionKnown DEF Running, Known
    <3>2. begun.clients[c].era # None
      BY <1>7, <1>8, <2>2, <3>1 DEF Running, LinkInv, ClientInOrder
    <3>3. begun.ops[c].doing \notin Handshake
      BY <1>8, <3>1, <3>2 DEF LinkInv, OpInOrder, ShakesHands
    <3>4. MayConverse(begun, r, c)
      BY <3>2, <3>3 DEF MayConverse
    <3> QED
      BY <1>8, <2>2, <3>1, <3>4, UseSessionMoves
  <2> QED
    BY <1>5, <2>1, <2>2
<1>10. Serves(begun, m, r) /\ m.ops[r].job = job
  BY <1>3, <1>6, <1>9, MovesServe
<1>11. Serves(l, m, r)
  BY <1>6, <1>10, Cut DEF Serves
<1> QED
  BY <1>10, <1>11 DEF m

LEMMA DeniedServes ==
  ASSUME NEW l, LinkInv(l), NEW r \in Requests, Fresh(l, r)
  PROVE  LET m == [l EXCEPT !.ops[r].doing = "failed"] IN
         Serves(l, m, r) /\ m.ops[r].job = None /\ m.ops[r].doing = "failed"
<1> DEFINE op == [l.ops[r] EXCEPT !.doing = "failed"]
<1>1. l \in Link /\ l.ops[r].doing = None /\ l.ops[r].job = None
  BY FreshAlone DEF LinkInv
<1>2. l.ops[r] \in Operation
  BY <1>1, LinkParts
<1>3. op \in Operation /\ op.doing = "failed" /\ op.job = None /\ op.via = l.ops[r].via
  BY <1>1, <1>2 DEF Operation
<1>4. op.doing \notin Asking
  BY <1>3 DEF Asking
<1> DEFINE m == [l EXCEPT !.ops[r].doing = "failed"]
<1>5. m = WithOp(l, r, op)
  BY DEF WithOp
<1> HIDE DEF op, m
<1>6. Serves(l, m, r) /\ m.ops[r].job = None /\ m.ops[r].doing = "failed"
  BY <1>1, <1>3, <1>4, <1>5, BegunServes
<1> QED
  BY <1>6 DEF m

LEMMA StopSessionServes ==
  ASSUME NEW l, LinkInv(l), NEW r \in Requests, l.ops[r].doing = None
  PROVE  LET m == StopSession(l, r) IN Serves(l, m, r) /\ m.ops[r].job = "stop"
<1> DEFINE c == l.session
           over == [l.ops[r] EXCEPT !.job = "stop", !.doing = "done"]
           op == [l.ops[r] EXCEPT !.job = "stop", !.via = c]
           begun == WithOp(l, r, op)
           m == StopSession(l, r)
           stopping == "stopping"
           legacy == "legacy"
<1>1. l \in Link
  BY DEF LinkInv
<1>2. l.ops[r] \in Operation /\ r \in DOMAIN l.ops
  BY <1>1, LinkParts
<1>3. CASE c = None
  <2>1. over \in Operation /\ over.doing = "done" /\ over.job = "stop" /\ over.via = l.ops[r].via
    BY <1>2 DEF Operation
  <2>2. over.doing \notin Asking
    BY <2>1 DEF Asking
  <2>3. m = WithOp(l, r, over)
    BY <1>1, <1>2, <1>3 DEF StopSession, WithOp, Link
  <2> HIDE DEF over, m
  <2>4. Serves(l, m, r) /\ m.ops[r].job = "stop"
    BY <2>1, <2>2, <2>3, BegunServes
  <2> QED
    BY <2>4 DEF m
<1>4. CASE c # None
  <2>1. c \in Requests
    BY <1>1, <1>4, LinkParts
  <2>2. op \in Operation /\ op.doing = None /\ op.job = "stop" /\ op.via = c
    BY <1>2, <2>1 DEF Operation
  <2>3. begun = [l EXCEPT !.ops[r].job = "stop", !.ops[r].via = c]
    BY <1>1, <1>2 DEF WithOp, Link
  <2>4. /\ m \in {Cleared(begun, r), Ask(begun, r, c, stopping, legacy), StopFailed(begun, r, "closed")}
        /\ m = Ask(begun, r, c, stopping, legacy) => Era(l, c) = "legacy" \/ m = Cleared(begun, r)
    BY <1>4, <2>3 DEF StopSession
  <2> HIDE DEF op, m
  <2>5. Serves(l, begun, r) /\ begun.ops[r] = op
    BY <1>1, <2>2, BegunServes
  <2>6. begun.clients = l.clients /\ begun.session = l.session
    BY <1>1, <2>2, WithOpShape
  <2> HIDE DEF begun
  <2>7. LinkInv(begun) /\ begun \in Link /\ Others(begun, begun, r) /\ Known(begun, r, c)
    BY <2>1, <2>2, <2>5, <2>6, OthersItself, SessionKnown DEF Serves, LinkInv
  <2>8. Moves(begun, m, r)
    <3>1. Moves(begun, Cleared(begun, r), r) /\ Moves(begun, StopFailed(begun, r, "closed"), r)
      BY <2>1, <2>2, <2>5, <2>7, ClearedMoves, StopFailedMoves
    <3>2. ASSUME Era(l, c) = "legacy"
          PROVE  Moves(begun, Ask(begun, r, c, stopping, legacy), r)
      <4>1. begun.clients[c].era = legacy
        BY <2>6, <3>2 DEF Era
      <4>2. begun.ops[c].doing \notin Handshake
        BY <2>1, <2>7, <4>1 DEF LinkInv, OpInOrder, ShakesHands
      <4>3. MayConverse(begun, r, c) /\ legacy = Envelope(begun, c)
        BY <4>1, <4>2 DEF MayConverse, Envelope, Era
      <4>4. stopping \in Asking /\ stopping \notin Handshake /\ legacy \in {"modern", "legacy"}
        BY DEF Asking, Handshake
      <4> HIDE DEF stopping, legacy
      <4> QED
        BY <2>7, <4>3, <4>4, AskMoves
    <3> QED
      BY <2>4, <3>1, <3>2
  <2>9. Serves(begun, m, r) /\ m.ops[r].job = "stop"
    BY <2>2, <2>5, <2>8, MovesServe
  <2>10. Serves(l, m, r)
    BY <2>5, <2>9, Cut DEF Serves
  <2> QED
    BY <2>9, <2>10 DEF m
<1> QED
  BY <1>3, <1>4

\* Access was granted, or r does nothing here.
LEMMA EnterServes ==
  ASSUME NEW l, LinkInv(l), NEW r \in Requests, Fresh(l, r), NEW s,
         NEW job \in {"list", "call"}, NEW healthy
  PROVE  LET m == Enter(l, s, r, job, healthy) IN
         /\ Serves(l, m, r)
         /\ \/ m.ops[r].job = job /\ Allowed(s)
            \/ m.ops[r].job = None /\ m.ops[r].doing = "failed"
<1> DEFINE denied == [l EXCEPT !.ops[r].doing = "failed"]
           started == GetOrStartSession(l, r, job, installed[s] # None, healthy)
<1>1. Serves(l, denied, r) /\ denied.ops[r].job = None /\ denied.ops[r].doing = "failed"
  BY DeniedServes
<1>2. Serves(l, started, r) /\ started.ops[r].job = job
  BY GetOrStartSessionServes
<1>3. Enter(l, s, r, job, healthy) = IF Allowed(s) THEN started ELSE denied
  BY DEF Enter
<1> HIDE DEF denied, started
<1> QED
  BY <1>1, <1>2, <1>3

LEMMA NewLinkInOrder ==
  ASSUME NEW kind \in Kinds, NEW peer \in Peers
  PROVE  LinkInv(NewLink(kind, peer)) /\ \A r \in Requests : Fresh(NewLink(kind, peer), r)
<1> DEFINE l == NewLink(kind, peer)
<1>1. NoClient \in Client /\ NoClient.status = None /\ NoClient.era = None
  BY DEF NoClient, Client
<1>2. /\ l \in Link /\ l.session = None
      /\ \A r \in Requests : l.clients[r] = NoClient /\ l.ops[r] = NoOperation
  BY <1>1, NoOperationType DEF NewLink, Link
<1> HIDE DEF l
<1>3. \A r \in Requests : ClientInOrder(l, r)
  BY <1>1, <1>2 DEF ClientInOrder
<1>4. \A r \in Requests : OpInOrder(l, r)
  BY <1>2, NoOperationType DEF OpInOrder, Handshake, Asking
<1>5. \A r \in Requests : Fresh(l, r)
  BY <1>2, NoOperationType DEF Fresh
<1> QED
  BY <1>2, <1>3, <1>4, <1>5 DEF LinkInv, l

LEMMA ForgetServes ==
  ASSUME NEW l, LinkInv(l), NEW r \in Requests
  PROVE  Serves(l, Forget(l, r), r) /\ Forget(l, r).ops[r] = NoOperation
<1> DEFINE ops == [l.ops EXCEPT ![r] = NoOperation]
           held == {l.session} \cup {ops[q].via : q \in Requests}
           clients == [c \in Requests |-> IF c \in held THEN l.clients[c] ELSE NoClient]
           n == Forget(l, r)
<1>1. /\ l \in Link /\ \A c \in Requests : ClientInOrder(l, c)
      /\ \A q \in Requests : OpInOrder(l, q)
  BY DEF LinkInv
<1>2. l.clients \in [Requests -> Client] /\ l.ops \in [Requests -> Operation]
  BY <1>1, LinkParts
<1>3. NoClient \in Client /\ NoClient.status = None /\ NoClient.era = None
  BY DEF NoClient, Client
<1>4. /\ ops \in [Requests -> Operation] /\ ops[r] = NoOperation
      /\ \A q \in Requests \ {r} : ops[q] = l.ops[q]
  BY <1>2, NoOperationType
<1>5. clients \in [Requests -> Client]
  BY <1>2, <1>3
<1>6. n = [l EXCEPT !.ops = ops, !.clients = clients]
  BY DEF Forget
<1> HIDE DEF n
<1>7. \A q \in Requests : ops[q].via \in held
  OBVIOUS
<1>8. l.session \in held
  OBVIOUS
<1>9. \A c \in Requests : clients[c] = IF c \in held THEN l.clients[c] ELSE NoClient
  OBVIOUS
<1> HIDE DEF ops, clients, held
<1>10. /\ n \in Link /\ n.ops = ops /\ n.clients = clients /\ n.session = l.session
  BY <1>1, <1>4, <1>5, <1>6 DEF Link
<1>11. \A c \in Requests : ClientInOrder(n, c)
  BY <1>1, <1>3, <1>9, <1>10 DEF ClientInOrder
<1>12. ASSUME NEW q \in Requests \ {r}
       PROVE  OpInOrder(n, q) /\ (Fresh(l, q) => Fresh(n, q))
  <2>1. OpInOrder(l, q)
    BY <1>1
  <2>2. ASSUME l.ops[q].doing \in Handshake, ShakesHands(l, q)
        PROVE  ShakesHands(n, q)
    <3>1. n.clients[q] = l.clients[q]
      BY <1>4, <1>7, <1>9, <1>10, <2>2 DEF ShakesHands
    <3> QED
      BY <1>4, <1>10, <2>2, <3>1 DEF ShakesHands
  <2>3. ASSUME l.ops[q].doing \in Asking \ Handshake, Converses(l, q)
        PROVE  Converses(n, q)
    <3>1. n.clients[l.ops[q].via] = l.clients[l.ops[q].via]
      BY <1>4, <1>7, <1>9, <1>10, <2>3 DEF Converses
    <3>2. n.ops[l.ops[q].via].doing \notin Handshake
      BY <1>4, <1>10, <2>3, NoOperationType DEF Converses, Handshake, Asking
    <3> QED
      BY <1>4, <1>10, <2>3, <3>1, <3>2 DEF Converses
  <2>4. Fresh(l, q) => Fresh(n, q)
    BY <1>4, <1>9, <1>10, NoOperationType DEF Fresh
  <2> QED
    BY <1>4, <1>10, <2>1, <2>2, <2>3, <2>4 DEF OpInOrder
<1>13. OpInOrder(n, r)
  BY <1>4, <1>10, NoOperationType DEF OpInOrder, Handshake, Asking
<1>14. Serves(l, n, r) /\ n.ops[r] = NoOperation
  BY <1>4, <1>10, <1>11, <1>12, <1>13 DEF Serves, LinkInv
<1> QED
  BY <1>14 DEF n

-----------------------------------------------------------------------------
\* The inductive invariant.

LocalEntries == {Entry(<<p>>, p) : p \in Locals}
Listable == {ToolkitEntry} \cup LocalEntries \cup UNION {CollectMcpEntries(s) : s \in Servers}

Request ==
  [doing : Working \cup {"expected", "answered"}, tools : SUBSET LocalEntries,
   asked : SUBSET Servers, target : Servers \cup {None}, tool : McpToolNames]
Latest == [from : Requests, names : SUBSET ToolNames, overtaken : BOOLEAN]

Histories ==
  authorized \in [Requests -> SUBSET Packages] /\ usable \in [Requests -> SUBSET Packages]

Typed ==
  /\ DOMAIN installed = Packages /\ \A p \in Packages : installed[p] \in Contents[p]
  /\ dynamic \in BOOLEAN
  /\ request \in [Requests -> Request]
  /\ arrived \in Requests
  /\ cached \subseteq Listable
  /\ latest \in Latest
  /\ Histories
  /\ edits \in 0..MaxEdits /\ faults \in 0..MaxFaults

SaidType ==
  /\ said.outcome \in Outcomes \cup {None}
  /\ said.tools \subseteq Listable
  /\ said.authorized \subseteq Packages /\ said.usable \subseteq Packages

LinksInOrder ==
  /\ link \in [Servers -> Link]
  /\ \A s \in Servers : LinkInv(link[s])

\* What has not come yet has left no trace.
Expects ==
  \A r \in Requests : r > arrived =>
    /\ request[r].doing = "expected"
    /\ \A s \in Servers : Fresh(link[s], r)

\* Nothing is listed from or called at a server without access to it.
AuthorizedAt(r) ==
  \A s \in Servers :
    link[s].ops[r].job \in {"list", "call"} /\ link[s].ops[r].doing # "failed" =>
      s \in authorized[r] /\ (link[s].ops[r].job = "list" => s \in usable[r])

CollectsAt(r) ==
  request[r].doing = "collecting" =>
    /\ \A e \in request[r].tools : e.origin \in usable[r]
    /\ \A s \in request[r].asked :
         link[s].ops[r].job = "list" \/ link[s].ops[r].doing = "failed"

CallsAt(r) ==
  request[r].doing = "calling" =>
    LET s == request[r].target
    IN /\ s \in Servers
       /\ link[s].ops[r].job = "call" \/ link[s].ops[r].doing = "failed"
       /\ \E t \in Offers[s] : request[r].tool = McpToolName(ToProxiedToolName(s, t))

Serving == \A r \in Requests : AuthorizedAt(r) /\ CollectsAt(r) /\ CallsAt(r)

CacheIsLatest == latest.overtaken \/ latest.names = {e.name : e \in cached}

\* What the step said was right.
ReachedAllowed == said.outcome \in {"forwarded", "executed"} => said.target \in said.authorized
SaidRight == SaidType /\ ListIsCurrent /\ ReachedAllowed /\ ListedIsRouted

IInv == Typed /\ LinksInOrder /\ Expects /\ Serving /\ CacheIsLatest /\ SaidRight

-----------------------------------------------------------------------------
\* What follows from it.

LEMMA RequestsAreNumbers == Requests \subseteq Nat /\ Start \in Requests
<1> DEFINE last == Cardinality(Requests) - 1
<1>1. Requests = 0..last /\ Start \in Requests
  BY ServingAssumption
<1> HIDE DEF last
<1>2. 0..last \subseteq Nat
  OBVIOUS
<1> QED
  BY <1>1, <1>2

LEMMA NoToolName == <<>> \in McpToolNames
<1>1. ReservedName \in ToolNames
  BY DEF ToolNames
<1>2. McpToolName(ReservedName) = <<>>
  BY DEF McpToolName, ReservedName
<1> QED
  BY <1>1, <1>2 DEF McpToolNames

LEMMA ListableEntries == Listable \subseteq Entries /\ LocalEntries \subseteq Listable
<1>1. ToolkitEntry \in Entries
  BY DEF ToolkitEntry, Entries, ToolNames
<1>2. \A p \in Locals : Entry(<<p>>, p) \in Entries
  BY DEF Entries, ToolNames, Packages
<1>3. \A s \in Servers : \A t \in Offers[s] : Entry(ToProxiedToolName(s, t), s) \in Entries
  <2> SUFFICES ASSUME NEW s \in Servers, NEW t \in Offers[s]
               PROVE  Entry(ToProxiedToolName(s, t), s) \in Entries
    OBVIOUS
  <2>1. ToProxiedToolName(s, t) \in ToolNames
    BY DEF ToolNames
  <2>2. s \in Packages \cup {None}
    BY DEF Packages
  <2> QED
    BY <2>1, <2>2 DEF Entries
<1>4. LocalEntries \subseteq Entries
  BY <1>2 DEF LocalEntries
<1>5. \A s \in Servers : CollectMcpEntries(s) \subseteq Entries
  BY <1>3 DEF CollectMcpEntries
<1> QED
  BY <1>1, <1>4, <1>5 DEF Listable

LEMMA IInvTypeOK == IInv => TypeOK
<1> SUFFICES ASSUME IInv PROVE TypeOK
  OBVIOUS
<1>1. link \in [Servers -> Link]
  BY DEF IInv, LinksInOrder
<1>2. \A r \in Requests :
        /\ request[r].doing \in Working \cup {"expected", "answered"}
        /\ request[r].tools \subseteq LocalEntries
        /\ request[r].asked \subseteq Servers
        /\ request[r].target \in Servers \cup {None}
        /\ request[r].tool \in McpToolNames
  BY DEF IInv, Typed, Request
<1>3. latest.from \in Requests /\ latest.names \subseteq ToolNames /\ latest.overtaken \in BOOLEAN
  BY DEF IInv, Typed, Latest
<1> QED
  BY <1>1, <1>2, <1>3, ListableEntries DEF IInv, Typed, Histories, SaidRight, SaidType, TypeOK, Packages

LEMMA IInvNoDowngrade == IInv => NoDowngrade
<1> SUFFICES ASSUME IInv, NEW s \in Servers, NEW r \in Requests, Asks(link[s], r)
             PROVE  LET peer == link[s].clients[link[s].ops[r].via]
                    IN /\ peer.shown => link[s].ops[r].envelope = "modern"
                       /\ peer.era = "legacy" => link[s].ops[r].envelope = "legacy"
  BY DEF NoDowngrade
<1>1. OpInOrder(link[s], r)
  BY DEF IInv, LinksInOrder, LinkInv
<1> QED
  BY <1>1 DEF OpInOrder, ShakesHands, Converses, Asks

LEMMA IInvAccessRechecked == IInv => AccessRechecked
<1> SUFFICES ASSUME IInv PROVE AccessRechecked
  OBVIOUS
<1>1. ASSUME NEW s \in Servers, NEW r \in Requests,
             link[s].ops[r].job = "call", Asks(link[s], r)
      PROVE  s \in authorized[r]
  <2>1. link[s].ops[r].doing # "failed"
    BY <1>1 DEF Asks, Asking
  <2> QED
    BY <1>1, <2>1 DEF IInv, Serving, AuthorizedAt
<1> QED
  BY <1>1 DEF IInv, SaidRight, ReachedAllowed, AccessRechecked

-----------------------------------------------------------------------------
\* What a step says.

Says(m, outcome, name, target, tools, answering, allowed, used) ==
  /\ m.outcome = outcome /\ m.name = name /\ m.target = target
  /\ m.tools = tools /\ m.answering = answering
  /\ m.authorized = allowed /\ m.usable = used

LEMMA SaysCalled ==
  ASSUME NEW o, NEW n, NEW t, NEW a, NEW u
  PROVE  Says([Called(o, n, t) EXCEPT !.authorized = a, !.usable = u], o, n, t, {}, {}, a, u)
  BY DEF Called, Silence, Says

LEMMA SaysListed ==
  ASSUME NEW T, NEW A, NEW a, NEW u
  PROVE  /\ Says([[Silence EXCEPT !.outcome = "listed", !.tools = T]
                   EXCEPT !.authorized = a, !.usable = u],
                 "listed", <<>>, None, T, {}, a, u)
         /\ Says([[Silence EXCEPT !.outcome = "listed", !.tools = T, !.answering = A]
                   EXCEPT !.authorized = a, !.usable = u],
                 "listed", <<>>, None, T, A, a, u)
  BY DEF Silence, Says

LEMMA Silent ==
  ASSUME said' = Silence
  PROVE  SaidRight'
<1>1. said'.outcome = None /\ said'.tools = {} /\ said'.authorized = {} /\ said'.usable = {}
  BY DEF Silence
<1>2. None \notin Outcomes
  BY ServingAssumption
<1>3. said'.outcome \notin {"listed", "forwarded", "executed", "notFound", "denied"}
  BY <1>1, <1>2 DEF Outcomes
<1> QED
  BY <1>1, <1>3 DEF SaidRight, SaidType, ListIsCurrent, ReachedAllowed, ListedIsRouted

-----------------------------------------------------------------------------
\* What a step on behalf of one request leaves in order.

LEMMA ServeStep ==
  ASSUME IInv, NEW r \in Requests, arrived' \in Nat, arrived <= arrived', r <= arrived',
         link' \in [Servers -> Link],
         \A s \in Servers : link'[s] = link[s] \/ Serves(link[s], link'[s], r),
         \A q \in Requests \ {r} : request'[q] = request[q],
         \A q \in Requests \ {r} : authorized'[q] = authorized[q] /\ usable'[q] = usable[q],
         AuthorizedAt(r)', CollectsAt(r)', CallsAt(r)'
  PROVE  LinksInOrder' /\ Expects' /\ Serving'
<1>1. /\ \A s \in Servers : LinkInv(link[s])
      /\ arrived \in Nat /\ Requests \subseteq Nat
  BY RequestsAreNumbers DEF IInv, LinksInOrder, Typed
<1>2. ASSUME NEW s \in Servers
      PROVE  /\ LinkInv(link'[s])
             /\ \A q \in Requests \ {r} :
                  link'[s].ops[q] = link[s].ops[q] /\ (Fresh(link[s], q) => Fresh(link'[s], q))
  BY <1>1 DEF Serves
<1>3. LinksInOrder'
  BY <1>2 DEF LinksInOrder
<1>4. ASSUME NEW q \in Requests, q > arrived'
      PROVE  request'[q].doing = "expected" /\ \A s \in Servers : Fresh(link'[s], q)
  <2>1. q # r /\ q > arrived
    BY <1>1, <1>4
  <2> QED
    BY <1>2, <2>1 DEF IInv, Expects
<1>5. Expects'
  BY <1>4 DEF Expects
<1>6. ASSUME NEW q \in Requests \ {r}
      PROVE  AuthorizedAt(q)' /\ CollectsAt(q)' /\ CallsAt(q)'
  <2>1. AuthorizedAt(q) /\ CollectsAt(q) /\ CallsAt(q)
    BY DEF IInv, Serving
  <2>2. request[q].asked \subseteq Servers
    BY DEF IInv, Typed, Request
  <2>3. AuthorizedAt(q)'
    BY <1>2, <2>1 DEF AuthorizedAt
  <2>4. CollectsAt(q)'
    BY <1>2, <2>1, <2>2 DEF CollectsAt
  <2>5. CallsAt(q)'
    BY <1>2, <2>1 DEF CallsAt
  <2> QED
    BY <2>3, <2>4, <2>5
<1>7. Serving'
  BY <1>6 DEF Serving
<1> QED
  BY <1>3, <1>5, <1>7

\* What has been allowed and usable since r came.
Here(r) ==
  /\ Authorized(r) = authorized[r] /\ authorized[r] \subseteq Packages
  /\ Usable(r) = usable[r] /\ usable[r] \subseteq Packages

\* A request that came is no longer expected.
LEMMA Came ==
  ASSUME IInv, NEW r \in Requests, request[r].doing # "expected"
  PROVE  r <= arrived /\ Here(r)
<1>1. arrived \in Nat /\ r \in Nat
  BY RequestsAreNumbers DEF IInv, Typed
<1> QED
  BY <1>1 DEF IInv, Typed, Histories, Expects, Here, Authorized, Usable, Since

LEMMA AnswerStep ==
  ASSUME IInv, NEW r \in Requests, NEW reply, Answer(r, reply), Witness(r),
         arrived' \in Nat, arrived <= arrived', r <= arrived'
  PROVE  /\ LinksInOrder' /\ Expects' /\ Serving'
         /\ request' \in [Requests -> Request] /\ Histories'
<1> DEFINE answered == [Expected EXCEPT !.doing = "answered"]
<1>1. answered \in Request /\ answered.doing = "answered"
  BY NoToolName DEF Expected, Request, Working
<1>2. request \in [Requests -> Request] /\ Histories
  BY DEF IInv, Typed
<1>3. request' = [request EXCEPT ![r] = answered]
  BY DEF Answer
<1> HIDE DEF answered
<1>4. /\ request' \in [Requests -> Request] /\ request'[r].doing = "answered"
      /\ \A q \in Requests \ {r} : request'[q] = request[q]
  BY <1>1, <1>2, <1>3
<1>5. /\ Histories'
      /\ \A q \in Requests \ {r} : authorized'[q] = authorized[q] /\ usable'[q] = usable[q]
  BY <1>2, <1>4 DEF Witness, Histories
<1>6. ASSUME NEW s \in Servers
      PROVE  /\ Serves(link[s], link'[s], r) /\ link'[s].ops[r] = NoOperation
             /\ link'[s] \in Link
  <2>1. LinkInv(link[s]) /\ link'[s] = Forget(link[s], r)
    BY DEF IInv, LinksInOrder, Answer
  <2> QED
    BY <2>1, ForgetServes DEF Serves, LinkInv
<1>7. link' \in [Servers -> Link]
  BY <1>6 DEF Answer
<1>8. AuthorizedAt(r)'
  BY <1>6, NoOperationType DEF AuthorizedAt
<1>9. CollectsAt(r)' /\ CallsAt(r)'
  BY <1>4 DEF CollectsAt, CallsAt
<1>10. LinksInOrder' /\ Expects' /\ Serving'
  BY <1>4, <1>5, <1>6, <1>7, <1>8, <1>9, ServeStep
<1> QED
  BY <1>4, <1>5, <1>10

-----------------------------------------------------------------------------
\* The steps.

LEMMA ToldStep ==
  ASSUME latest \in Latest, NEW r \in Requests, NEW tools \in SUBSET Listable,
         Told(r, tools), cached' = tools
  PROVE  latest' \in Latest /\ CacheIsLatest'
<1> DEFINE names == {e.name : e \in tools}
<1>1. names \in SUBSET ToolNames
  <2>1. \A e \in Entries : e.name \in ToolNames
    BY DEF Entries, Entry
  <2> QED
    BY <2>1, ListableEntries
<1>2. CASE latest.from <= r
  <2>1. latest' = [from |-> r, names |-> names, overtaken |-> FALSE]
    BY <1>2 DEF Told
  <2>2. names = {e.name : e \in cached'}
    OBVIOUS
  <2> HIDE DEF names
  <2> QED
    BY <1>1, <2>1, <2>2 DEF Latest, CacheIsLatest
<1>3. CASE ~(latest.from <= r)
  <2>1. latest' = [latest EXCEPT !.overtaken = TRUE]
    BY <1>3 DEF Told
  <2>2. latest' \in Latest /\ latest'.overtaken
    BY <2>1 DEF Latest
  <2> QED
    BY <2>2 DEF CacheIsLatest
<1> QED
  BY <1>2, <1>3

LEMMA CollectedListable ==
  ASSUME IInv, NEW r \in Requests
  PROVE  CollectAllTools(r) \in SUBSET Listable /\ Answering(r) \subseteq Servers
<1>1. request[r].tools \subseteq LocalEntries /\ request[r].asked \subseteq Servers
  BY DEF IInv, Typed, Request
<1> QED
  BY <1>1 DEF CollectAllTools, Answering, Listable

LEMMA CollectedCurrent ==
  ASSUME IInv, NEW r \in Requests, request[r].doing = "collecting",
         NEW e \in CollectAllTools(r), e # ToolkitEntry
  PROVE  e.origin \in usable[r]
<1>1. CASE e \in request[r].tools
  BY <1>1 DEF IInv, Serving, CollectsAt
<1>2. ASSUME NEW s \in Answering(r), e \in CollectMcpEntries(s)
      PROVE  e.origin \in usable[r]
  <2>1. e.origin = s
    BY <1>2 DEF CollectMcpEntries, Entry
  <2>2. s \in Servers
    BY CollectedListable
  <2>3. link[s].ops[r].job = "list" /\ link[s].ops[r].doing = "done"
    BY DEF IInv, Serving, CollectsAt, Answering
  <2> QED
    BY <2>1, <2>2, <2>3 DEF IInv, Serving, AuthorizedAt
<1> QED
  BY <1>1, <1>2 DEF CollectAllTools

LEMMA HandleToolsListStep ==
  ASSUME IInv, NEW r \in Requests, HandleToolsList(r)
  PROVE  IInv'
<1> DEFINE tools == CollectAllTools(r)
           answering == Answering(r)
           reply == [Silence EXCEPT !.outcome = "listed", !.tools = tools, !.answering = answering]
<1>1. /\ request[r].doing = "collecting" /\ cached' = tools /\ Told(r, tools)
      /\ Answer(r, reply) /\ Witness(r)
      /\ UNCHANGED <<installed, dynamic, arrived, edits, faults>>
  BY DEF HandleToolsList, Collected, Refresh
<1>2. said' = [reply EXCEPT !.authorized = Authorized(r), !.usable = Usable(r)]
  BY <1>1 DEF Answer
<1>3. Says(said', "listed", <<>>, None, tools, answering, Authorized(r), Usable(r))
  BY <1>2, SaysListed
<1>4. r <= arrived /\ Here(r) /\ arrived \in Nat
  BY <1>1, Came, RequestsAreNumbers DEF IInv, Typed
<1>5. tools \in SUBSET Listable /\ \A e \in tools : e # ToolkitEntry => e.origin \in usable[r]
  BY <1>1, CollectedListable, CollectedCurrent
<1>6. \A s \in answering : CollectMcpEntries(s) \subseteq tools
  BY DEF CollectAllTools
<1> HIDE DEF tools, answering, reply
<1>7. /\ LinksInOrder' /\ Expects' /\ Serving'
      /\ request' \in [Requests -> Request] /\ Histories'
  BY <1>1, <1>4, AnswerStep
<1>8. latest' \in Latest /\ CacheIsLatest'
  BY <1>1, <1>5, ToldStep DEF IInv, Typed
<1>9. Typed'
  BY <1>1, <1>5, <1>7, <1>8 DEF IInv, Typed
<1>10. SaidRight'
  BY <1>3, <1>4, <1>5, <1>6
     DEF Here, SaidRight, SaidType, ListIsCurrent, ReachedAllowed, ListedIsRouted, Says, Outcomes
<1> QED
  BY <1>7, <1>8, <1>9, <1>10 DEF IInv

\* A reply that neither lists nor reaches anything, to a request that came before.
LEMMA EndStep ==
  ASSUME IInv, NEW r \in Requests, request[r].doing # "expected",
         NEW o \in {"failed", "stopped"}, NEW n, NEW t,
         Answer(r, Called(o, n, t)), Witness(r),
         UNCHANGED <<installed, dynamic, arrived, cached, latest, edits, faults>>
  PROVE  IInv'
<1>1. said' = [Called(o, n, t) EXCEPT !.authorized = Authorized(r), !.usable = Usable(r)]
  BY DEF Answer
<1>2. Says(said', o, n, t, {}, {}, Authorized(r), Usable(r))
  BY <1>1, SaysCalled
<1>3. r <= arrived /\ Here(r) /\ arrived \in Nat
  BY Came, RequestsAreNumbers DEF IInv, Typed
<1>4. /\ LinksInOrder' /\ Expects' /\ Serving'
      /\ request' \in [Requests -> Request] /\ Histories'
  BY <1>3, AnswerStep
<1>5. Typed' /\ CacheIsLatest'
  BY <1>4 DEF IInv, Typed, CacheIsLatest
<1>6. SaidRight'
  BY <1>2, <1>3
     DEF Here, SaidRight, SaidType, ListIsCurrent, ReachedAllowed, ListedIsRouted, Says, Outcomes
<1> QED
  BY <1>4, <1>5, <1>6 DEF IInv

LEMMA HandleToolsCallStep ==
  ASSUME IInv, NEW r \in Requests, HandleToolsCall(r)
  PROVE  IInv'
<1> DEFINE s == request[r].target
           name == request[r].tool
<1>1. /\ request[r].doing = "calling" /\ Witness(r)
      /\ UNCHANGED <<installed, dynamic, arrived, cached, latest, edits, faults>>
  BY DEF HandleToolsCall
<1>2. CASE link[s].ops[r].doing = "failed" /\ Answer(r, Called("failed", <<>>, s))
  BY <1>1, <1>2, EndStep
<1>3. CASE link[s].ops[r].doing = "done" /\ Answer(r, Called("forwarded", name, s))
  <2>1. said' = [Called("forwarded", name, s) EXCEPT !.authorized = Authorized(r), !.usable = Usable(r)]
    BY <1>3 DEF Answer
  <2>2. Says(said', "forwarded", name, s, {}, {}, Authorized(r), Usable(r))
    BY <2>1, SaysCalled
  <2>3. r <= arrived /\ Here(r) /\ arrived \in Nat
    BY <1>1, Came, RequestsAreNumbers DEF IInv, Typed
  <2>4. /\ LinksInOrder' /\ Expects' /\ Serving'
        /\ request' \in [Requests -> Request] /\ Histories'
    BY <1>1, <1>3, <2>3, AnswerStep
  <2>5. Typed' /\ CacheIsLatest'
    BY <1>1, <2>4 DEF IInv, Typed, CacheIsLatest
  <2>6. s \in authorized[r]
    BY <1>1, <1>3 DEF IInv, Serving, CallsAt, AuthorizedAt
  <2>7. SaidRight'
    BY <2>2, <2>3, <2>6
       DEF Here, SaidRight, SaidType, ListIsCurrent, ReachedAllowed, ListedIsRouted, Says, Outcomes
  <2> QED
    BY <2>4, <2>5, <2>7 DEF IInv
<1> QED
  BY <1>2, <1>3 DEF HandleToolsCall

LEMMA StopRejectedStep ==
  ASSUME IInv, NEW r \in Requests, StopRejected(r)
  PROVE  IInv'
  BY EndStep DEF StopRejected

LEMMA StopNextStep ==
  ASSUME IInv, NEW r \in Requests, StopNext(r)
  PROVE  IInv'
<1>1. /\ request[r].doing = "stopping" /\ Witness(r)
      /\ UNCHANGED <<installed, dynamic, arrived, cached, latest, edits, faults>>
  BY DEF StopNext
<1>2. CASE Answer(r, Called("stopped", <<>>, None))
  BY <1>1, <1>2, EndStep
<1>3. ASSUME NEW s \in Servers, link[s].ops[r].doing = None,
             link' = [link EXCEPT ![s] = StopSession(@, r)], said' = Silence, UNCHANGED request
      PROVE  IInv'
  <2>1. r <= arrived /\ Here(r) /\ arrived \in Nat
    BY <1>1, Came, RequestsAreNumbers DEF IInv, Typed
  <2>2. authorized' = authorized /\ usable' = usable
    BY <1>1, <1>3, <2>1 DEF Witness, Here, IInv, Typed, Histories
  <2>3. Serves(link[s], StopSession(link[s], r), r) /\ StopSession(link[s], r).ops[r].job = "stop"
    BY <1>3, StopSessionServes DEF IInv, LinksInOrder
  <2>4. link \in [Servers -> Link]
    BY DEF IInv, LinksInOrder
  <2>5. /\ link' \in [Servers -> Link] /\ Serves(link[s], link'[s], r)
        /\ link'[s].ops[r].job = "stop"
        /\ \A t \in Servers \ {s} : link'[t] = link[t]
    BY <1>3, <2>3, <2>4 DEF Serves, LinkInv
  <2>6. AuthorizedAt(r)'
    BY <2>2, <2>5 DEF IInv, Serving, AuthorizedAt
  <2>7. CollectsAt(r)' /\ CallsAt(r)'
    BY <1>1, <1>3 DEF CollectsAt, CallsAt
  <2>8. LinksInOrder' /\ Expects' /\ Serving'
    BY <1>1, <1>3, <2>1, <2>2, <2>5, <2>6, <2>7, ServeStep
  <2>9. Typed' /\ CacheIsLatest'
    BY <1>1, <1>3, <2>2 DEF IInv, Typed, Histories, CacheIsLatest
  <2> QED
    BY <1>3, <2>8, <2>9, Silent DEF IInv
<1>4. request[r].asked \subseteq Servers
  BY DEF IInv, Typed, Request
<1> QED
  BY <1>2, <1>3, <1>4 DEF StopNext

\* A step of an operation that waits.
LEMMA PeerStep ==
  ASSUME IInv, NEW s \in Servers, NEW r \in Requests, Asks(link[s], r),
         NEW m, Moves(link[s], m, r), link' = [link EXCEPT ![s] = m],
         said' = Silence, UNCHANGED untouched, faults' \in 0..MaxFaults
  PROVE  IInv'
<1>1. UNCHANGED <<installed, dynamic, request, arrived, cached, latest, authorized, usable,
                  edits>>
  BY DEF untouched
<1>2. Serves(link[s], m, r) /\ m.ops[r].job = link[s].ops[r].job
  BY MovesServe
<1>3. link \in [Servers -> Link]
  BY DEF IInv, LinksInOrder
<1>4. /\ link' \in [Servers -> Link] /\ Serves(link[s], link'[s], r)
      /\ link'[s].ops[r].job = link[s].ops[r].job
      /\ \A t \in Servers \ {s} : link'[t] = link[t]
  BY <1>2, <1>3 DEF Serves, LinkInv
<1>5. link[s].ops[r].doing # None /\ link[s].ops[r].doing # "failed"
  BY DEF Asks, Asking
<1>6. r <= arrived /\ arrived \in Nat
  <2>1. ~Fresh(link[s], r)
    BY <1>5, FreshAlone
  <2> QED
    BY <2>1, RequestsAreNumbers DEF IInv, Expects, Typed
<1>7. AuthorizedAt(r)'
  BY <1>1, <1>4, <1>5 DEF IInv, Serving, AuthorizedAt
<1>8. CollectsAt(r)'
  <2>1. request[r].asked \subseteq Servers
    BY DEF IInv, Typed, Request
  <2> QED
    BY <1>1, <1>4, <1>5, <2>1 DEF IInv, Serving, CollectsAt
<1>9. CallsAt(r)'
  BY <1>1, <1>4, <1>5 DEF IInv, Serving, CallsAt
<1>10. LinksInOrder' /\ Expects' /\ Serving'
  BY <1>1, <1>4, <1>6, <1>7, <1>8, <1>9, ServeStep
<1>11. Typed' /\ CacheIsLatest'
  BY <1>1 DEF IInv, Typed, Histories, CacheIsLatest
<1> QED
  BY <1>10, <1>11, Silent DEF IInv

LEMMA PeerAnswersStep ==
  ASSUME IInv, NEW s \in Servers, NEW r \in Requests, PeerAnswers(s, r)
  PROVE  IInv'
<1>1. /\ Asks(link[s], r) /\ LinkInv(link[s])
      /\ said' = Silence /\ UNCHANGED untouched /\ UNCHANGED faults
  BY DEF PeerAnswers, Pending, IInv, LinksInOrder
<1>2. PICK reply \in Replies(link[s], link[s].ops[r].doing) :
        link' = [link EXCEPT ![s] = Answered(@, r, reply)]
  BY DEF PeerAnswers
<1>3. Moves(link[s], Answered(link[s], r, reply), r)
  BY <1>1, AnsweredMoves
<1>4. faults' \in 0..MaxFaults
  BY <1>1 DEF IInv, Typed
<1> QED
  BY <1>1, <1>2, <1>3, <1>4, PeerStep

LEMMA MishapType ==
  ASSUME IInv, NEW expected, Mishap(expected)
  PROVE  faults' \in 0..MaxFaults
<1>1. faults \in 0..MaxFaults /\ MaxFaults \in Nat
  BY ServingAssumption DEF IInv, Typed
<1>2. faults' = faults \/ (faults < MaxFaults /\ faults' = faults + 1)
  BY DEF Mishap
<1> QED
  BY <1>1, <1>2

LEMMA OperationFaultsStep ==
  ASSUME IInv, NEW s \in Servers, NEW r \in Requests, OperationFaults(s, r)
  PROVE  IInv'
<1>1. /\ Asks(link[s], r) /\ LinkInv(link[s])
      /\ said' = Silence /\ UNCHANGED untouched
  BY DEF OperationFaults, Pending, IInv, LinksInOrder
<1>2. PICK error \in Faults(link[s].kind) :
        link' = [link EXCEPT ![s] = SettleFailed(@, r, error)]
  BY DEF OperationFaults
<1>3. Moves(link[s], SettleFailed(link[s], r, error), r)
  BY <1>1, OperationFailsMoves
<1>4. faults' \in 0..MaxFaults
  BY MishapType DEF OperationFaults
<1> QED
  BY <1>1, <1>2, <1>3, <1>4, PeerStep

LEMMA EndedUnderStep ==
  ASSUME IInv, NEW s \in Servers, NEW r \in Requests, EndedUnder(s, r)
  PROVE  IInv'
<1> DEFINE error == LastWord(link[s], link[s].ops[r].via)
<1>1. /\ Asks(link[s], r) /\ LinkInv(link[s])
      /\ said' = Silence /\ UNCHANGED untouched /\ UNCHANGED faults
      /\ link' = [link EXCEPT ![s] = SettleFailed(@, r, error)]
  BY DEF EndedUnder, IInv, LinksInOrder
<1> HIDE DEF error
<1>2. Moves(link[s], SettleFailed(link[s], r, error), r)
  BY <1>1, OperationFailsMoves
<1>3. faults' \in 0..MaxFaults
  BY <1>1 DEF IInv, Typed
<1> QED
  BY <1>1, <1>2, <1>3, PeerStep

\* The operations are as they were; the client that ends is one that was made.
LEMMA TransportEndsStep ==
  ASSUME IInv, NEW s \in Servers, NEW c \in Requests, TransportEnds(s, c)
  PROVE  IInv'
<1> DEFINE m == EndClient(link[s], c)
<1>1. /\ LinkInv(link[s]) /\ link \in [Servers -> Link]
      /\ said' = Silence /\ link' = [link EXCEPT ![s] = m]
      /\ UNCHANGED <<installed, dynamic, request, arrived, cached, latest, authorized, usable,
                     edits>>
  BY DEF TransportEnds, untouched, IInv, LinksInOrder
<1>2. Moves(link[s], m, c) /\ m.ops = link[s].ops
  BY <1>1, EndClientServes
<1> HIDE DEF m
<1>3. Serves(link[s], m, c) /\ m \in Link
  BY <1>1, <1>2, MovesServe DEF Serves, LinkInv
<1>4. /\ link' \in [Servers -> Link] /\ Serves(link[s], link'[s], c)
      /\ link'[s].ops = link[s].ops
      /\ \A t \in Servers \ {s} : link'[t] = link[t]
  BY <1>1, <1>2, <1>3
<1>5. c <= arrived /\ arrived \in Nat
  <2>1. ~Fresh(link[s], c)
    BY DEF TransportEnds, Fresh, NoClient
  <2> QED
    BY <2>1, RequestsAreNumbers DEF IInv, Expects, Typed
<1>6. \A t \in Servers : link'[t].ops = link[t].ops
  BY <1>4
<1>7. AuthorizedAt(c)' /\ CollectsAt(c)' /\ CallsAt(c)'
  <2>1. AuthorizedAt(c) /\ CollectsAt(c) /\ CallsAt(c)
    BY DEF IInv, Serving
  <2>2. request[c].asked \subseteq Servers
    BY DEF IInv, Typed, Request
  <2>3. AuthorizedAt(c)'
    BY <1>1, <1>6, <2>1 DEF AuthorizedAt
  <2>4. CollectsAt(c)'
    BY <1>1, <1>6, <2>1, <2>2 DEF CollectsAt
  <2>5. CallsAt(c)'
    BY <1>1, <1>6, <2>1 DEF CallsAt
  <2> QED
    BY <2>3, <2>4, <2>5
<1>8. LinksInOrder' /\ Expects' /\ Serving'
  BY <1>1, <1>4, <1>5, <1>7, ServeStep
<1>9. faults' \in 0..MaxFaults
  BY MishapType DEF TransportEnds
<1>10. Typed' /\ CacheIsLatest'
  BY <1>1, <1>9 DEF IInv, Typed, Histories, CacheIsLatest
<1> QED
  BY <1>1, <1>8, <1>10, Silent DEF IInv

LEMMA EditCatalogStep ==
  ASSUME IInv, NEW p \in Packages, EditCatalog(p)
  PROVE  IInv'
<1>1. /\ said' = Silence
      /\ UNCHANGED <<dynamic, link, request, arrived, cached, latest, faults>>
  BY DEF EditCatalog
<1>2. edits' \in 0..MaxEdits
  <2>1. edits \in 0..MaxEdits /\ edits < MaxEdits /\ edits' = edits + 1 /\ MaxEdits \in Nat
    BY ServingAssumption DEF IInv, Typed, EditCatalog
  <2> QED
    BY <2>1
<1>3. DOMAIN installed' = Packages /\ \A q \in Packages : installed'[q] \in Contents[q]
  BY DEF IInv, Typed, EditCatalog
<1>4. AllowedNow' \subseteq Packages /\ UsableNow' \subseteq Packages
  BY DEF AllowedNow, UsableNow
<1>5. /\ Histories'
      /\ \A r \in Requests : authorized[r] \subseteq authorized'[r] /\ usable[r] \subseteq usable'[r]
  BY <1>4 DEF EditCatalog, IInv, Typed, Histories
<1>6. Typed'
  BY <1>1, <1>2, <1>3, <1>5 DEF IInv, Typed
<1>7. LinksInOrder' /\ Expects' /\ CacheIsLatest'
  BY <1>1 DEF IInv, LinksInOrder, Expects, CacheIsLatest
<1>8. Serving'
  BY <1>1, <1>5 DEF IInv, Serving, AuthorizedAt, CollectsAt, CallsAt
<1> QED
  BY <1>1, <1>6, <1>7, <1>8, Silent DEF IInv

LEMMA StutterStep ==
  ASSUME IInv, UNCHANGED vars
  PROVE  IInv'
<1>1. UNCHANGED <<installed, dynamic, link, request, arrived, cached, latest, authorized, usable,
                  said, edits, faults>>
  BY DEF vars
<1>2. Typed' /\ LinksInOrder' /\ Expects' /\ CacheIsLatest'
  BY <1>1 DEF IInv, Typed, Histories, LinksInOrder, Expects, CacheIsLatest
<1>3. Serving'
  BY <1>1 DEF IInv, Serving, AuthorizedAt, CollectsAt, CallsAt
<1>4. SaidRight'
  BY <1>1 DEF IInv, SaidRight, SaidType, ListIsCurrent, ReachedAllowed, ListedIsRouted
<1> QED
  BY <1>2, <1>3, <1>4 DEF IInv

-----------------------------------------------------------------------------
\* A request arrives.

Arriving(r) ==
  /\ r = arrived + 1 /\ arrived' = r
  /\ Witness(r)
  /\ UNCHANGED <<installed, dynamic, cached, edits, faults>>

LEMMA ArrivingFacts ==
  ASSUME IInv, NEW r \in Requests, Arriving(r)
  PROVE  /\ arrived' \in Nat /\ arrived <= arrived' /\ r <= arrived' /\ arrived' \in Requests
         /\ request[r].doing = "expected" /\ Authorized(r) = AllowedNow /\ Usable(r) = UsableNow
         /\ \A s \in Servers : Fresh(link[s], r) /\ LinkInv(link[s])
         /\ AllowedNow \subseteq Packages /\ UsableNow \subseteq Packages
<1>1. arrived \in Nat /\ r \in Nat /\ r = arrived + 1 /\ arrived' = r
  BY RequestsAreNumbers DEF IInv, Typed, Arriving
<1>2. r > arrived
  BY <1>1
<1>3. request[r].doing = "expected" /\ \A s \in Servers : Fresh(link[s], r)
  BY <1>2 DEF IInv, Expects
<1>4. \A s \in Servers : LinkInv(link[s])
  BY DEF IInv, LinksInOrder
<1> QED
  BY <1>1, <1>3, <1>4 DEF Authorized, Usable, Since, AllowedNow, UsableNow

LEMMA ArriveAnswered ==
  ASSUME IInv, NEW r \in Requests, Arriving(r),
         NEW o \in Outcomes \ {"listed", "forwarded"}, NEW n, NEW t,
         Answer(r, Called(o, n, t)), UNCHANGED latest,
         o = "executed" => t \in AllowedNow,
         /\ o \in {"notFound", "denied", "executed"} /\ n \in latest.names
         /\ \E s \in Servers : \E u \in Offers[s] : n = ToProxiedToolName(s, u)
         => latest.overtaken
  PROVE  IInv'
<1>1. said' = [Called(o, n, t) EXCEPT !.authorized = Authorized(r), !.usable = Usable(r)]
  BY DEF Answer
<1>2. Says(said', o, n, t, {}, {}, AllowedNow, UsableNow)
  BY <1>1, SaysCalled, ArrivingFacts
<1>3. Witness(r) /\ UNCHANGED <<installed, dynamic, cached, edits, faults>>
  BY DEF Arriving
<1>4. /\ LinksInOrder' /\ Expects' /\ Serving'
      /\ request' \in [Requests -> Request] /\ Histories'
  BY <1>3, ArrivingFacts, AnswerStep
<1>5. Typed' /\ CacheIsLatest'
  BY <1>3, <1>4, ArrivingFacts DEF IInv, Typed, CacheIsLatest
<1>6. SaidType' /\ ListIsCurrent' /\ ReachedAllowed'
  BY <1>2, ArrivingFacts DEF SaidType, ListIsCurrent, ReachedAllowed, Says
<1>7. ListedIsRouted'
  BY <1>2 DEF ListedIsRouted, Says
<1> QED
  BY <1>4, <1>5, <1>6, <1>7 DEF IInv, SaidRight

\* A static list is the cache.
LEMMA ArriveStaticList ==
  ASSUME IInv, NEW r \in Requests, Arriving(r), ~dynamic,
         Answer(r, [Silence EXCEPT !.outcome = "listed", !.tools = cached]), Told(Start, cached)
  PROVE  IInv'
<1> DEFINE reply == [Silence EXCEPT !.outcome = "listed", !.tools = cached]
<1>1. said' = [reply EXCEPT !.authorized = Authorized(r), !.usable = Usable(r)] /\ Answer(r, reply)
  BY DEF Answer
<1>2. Says(said', "listed", <<>>, None, cached, {}, AllowedNow, UsableNow)
  BY <1>1, SaysListed, ArrivingFacts
<1> HIDE DEF reply
<1>3. Witness(r) /\ UNCHANGED <<installed, dynamic, cached, edits, faults>>
  BY DEF Arriving
<1>4. /\ LinksInOrder' /\ Expects' /\ Serving'
      /\ request' \in [Requests -> Request] /\ Histories'
  BY <1>1, <1>3, ArrivingFacts, AnswerStep
<1>5. latest \in Latest /\ cached \in SUBSET Listable
  BY DEF IInv, Typed
<1>6. latest' \in Latest /\ CacheIsLatest'
  BY <1>3, <1>5, RequestsAreNumbers, ToldStep
<1>7. Typed'
  BY <1>3, <1>4, <1>6, ArrivingFacts DEF IInv, Typed
<1>8. SaidRight'
  BY <1>2, <1>3, <1>5, ArrivingFacts
     DEF SaidRight, SaidType, ListIsCurrent, ReachedAllowed, ListedIsRouted, Says, Outcomes
<1> QED
  BY <1>4, <1>6, <1>7, <1>8 DEF IInv

\* Work begins: the servers concerned are entered, or there are none.
LEMMA ArriveWorks ==
  ASSUME IInv, NEW r \in Requests, Arriving(r), said' = Silence, UNCHANGED latest,
         NEW now \in Request, now.doing \in Working, request' = [request EXCEPT ![r] = now],
         link' \in [Servers -> Link],
         \A s \in Servers : link'[s] = link[s] \/ Serves(link[s], link'[s], r),
         \A s \in Servers :
           link'[s].ops[r].job \in {"list", "call"} /\ link'[s].ops[r].doing # "failed" =>
             s \in AllowedNow /\ (link'[s].ops[r].job = "list" => s \in UsableNow),
         CollectsAt(r)', CallsAt(r)'
  PROVE  IInv'
<1>1. Witness(r) /\ UNCHANGED <<installed, dynamic, cached, edits, faults>>
  BY DEF Arriving
<1>2. request \in [Requests -> Request] /\ Histories
  BY DEF IInv, Typed
<1>3. /\ request' \in [Requests -> Request] /\ request'[r] = now
      /\ \A q \in Requests \ {r} : request'[q] = request[q]
  BY <1>2
<1>4. now.doing # "answered"
  BY DEF Working
<1>5. /\ Histories' /\ authorized'[r] = AllowedNow /\ usable'[r] = UsableNow
      /\ \A q \in Requests \ {r} : authorized'[q] = authorized[q] /\ usable'[q] = usable[q]
  BY <1>1, <1>2, <1>3, <1>4, ArrivingFacts DEF Witness, Histories
<1>6. AuthorizedAt(r)'
  BY <1>5 DEF AuthorizedAt
<1>7. LinksInOrder' /\ Expects' /\ Serving'
  BY <1>3, <1>5, <1>6, ArrivingFacts, ServeStep
<1>8. Typed' /\ CacheIsLatest'
  BY <1>1, <1>3, <1>5, ArrivingFacts DEF IInv, Typed, CacheIsLatest
<1> QED
  BY <1>7, <1>8, Silent DEF IInv

LEMMA TwoParts ==
  ASSUME NEW S, NEW a \in Seq(S) \ {<<>>}, NEW b \in Seq(S) \ {<<>>}, NEW p
  PROVE  a \o b # <<p>>
<1>1. Len(a) >= 1 /\ Len(b) >= 1 /\ Len(a) \in Nat /\ Len(b) \in Nat
  OBVIOUS
<1>2. Len(a \o b) = Len(a) + Len(b)
  OBVIOUS
<1>3. Len(<<p>>) = 1
  OBVIOUS
<1> QED
  BY <1>1, <1>2, <1>3

\* The newest list is in the cache: what it had of a server, the router finds.
LEMMA NotRouted ==
  ASSUME IInv, NEW name \in latest.names, name # ReservedName,
         NEW s \in Servers, NEW u \in Offers[s], name = ToProxiedToolName(s, u),
         \A e \in cached : ~(e.name = name /\ e.origin \in Servers)
  PROVE  latest.overtaken
<1> SUFFICES ASSUME ~latest.overtaken PROVE FALSE
  OBVIOUS
<1>1. PICK e \in cached : e.name = name
  BY DEF IInv, CacheIsLatest
<1>2. e \in Listable
  BY DEF IInv, Typed
<1>3. CASE e = ToolkitEntry
  BY <1>1, <1>3 DEF ToolkitEntry, Entry
<1>4. CASE e \in LocalEntries
  <2>1. PICK p \in Locals : e = Entry(<<p>>, p)
    BY <1>4 DEF LocalEntries
  <2>2. name = <<p>>
    BY <1>1, <2>1 DEF Entry
  <2>3. Segment[s] \in Seq(STRING) \ {<<>>} /\ Exposed[u] \in Seq(STRING) \ {<<>>}
    BY ServingAssumption
  <2> QED
    BY <2>2, <2>3, TwoParts DEF ToProxiedToolName
<1>5. ASSUME NEW t \in Servers, e \in CollectMcpEntries(t)
      PROVE  FALSE
  <2>1. e.origin = t
    BY <1>5 DEF CollectMcpEntries, Entry
  <2> QED
    BY <1>1, <2>1
<1> QED
  BY <1>2, <1>3, <1>4, <1>5 DEF Listable

LEMMA LocalsListable ==
  /\ CollectLocalEntries \in SUBSET LocalEntries
  /\ \A e \in CollectLocalEntries : e.origin \in UsableNow
<1>1. ASSUME NEW e \in CollectLocalEntries
      PROVE  e \in LocalEntries /\ e.origin \in UsableNow
  <2>1. PICK p \in Locals : e = Entry(<<p>>, p) /\ Enabled(p) /\ Allowed(p)
    BY DEF CollectLocalEntries
  <2>2. e.origin = p /\ p \in Packages
    BY <2>1 DEF Entry, Packages
  <2> QED
    BY <2>1, <2>2 DEF LocalEntries, UsableNow
<1> QED
  BY <1>1

\* Where a link is entered, r has the job or nothing to do.
LEMMA EnterStep ==
  ASSUME IInv, NEW r \in Requests, Arriving(r), NEW s \in Servers,
         NEW job \in {"list", "call"}, NEW healthy
  PROVE  LET m == Enter(link[s], s, r, job, healthy) IN
         /\ m \in Link /\ Serves(link[s], m, r)
         /\ m.ops[r].job = job \/ m.ops[r].doing = "failed"
         /\ m.ops[r].job \in {job, None}
         /\ m.ops[r].job \in {"list", "call"} => s \in AllowedNow /\ (Enabled(s) => s \in UsableNow)
<1> DEFINE m == Enter(link[s], s, r, job, healthy)
<1>1. Serves(link[s], m, r)
      /\ \/ m.ops[r].job = job /\ Allowed(s)
         \/ m.ops[r].job = None /\ m.ops[r].doing = "failed"
  BY ArrivingFacts, EnterServes
<1> HIDE DEF m
<1>2. m \in Link
  BY <1>1 DEF Serves, LinkInv
<1>3. Allowed(s) => s \in AllowedNow /\ (Enabled(s) => s \in UsableNow)
  BY DEF AllowedNow, UsableNow, Packages
<1>4. /\ m \in Link /\ Serves(link[s], m, r)
      /\ m.ops[r].job = job \/ m.ops[r].doing = "failed"
      /\ m.ops[r].job \in {job, None}
      /\ m.ops[r].job \in {"list", "call"} => s \in AllowedNow /\ (Enabled(s) => s \in UsableNow)
  BY <1>1, <1>2, <1>3
<1> QED
  BY <1>4 DEF m

LEMMA ArriveCollects ==
  ASSUME IInv, NEW r \in Requests, Arriving(r), UNCHANGED latest,
         Collecting(r, EnabledServers)
  PROVE  IInv'
<1> DEFINE now == [request[r] EXCEPT !.doing = "collecting", !.tools = CollectLocalEntries,
                                     !.asked = EnabledServers]
           m(s) == Enter(link[s], s, r, "list", TRUE)
<1>1. request[r] \in Request /\ request \in [Requests -> Request] /\ link \in [Servers -> Link]
  BY DEF IInv, Typed, LinksInOrder
<1>2. EnabledServers \in SUBSET Servers /\ \A s \in EnabledServers : Enabled(s)
  BY DEF EnabledServers
<1>3. /\ now \in Request /\ now.doing = "collecting" /\ now.tools = CollectLocalEntries
      /\ now.asked = EnabledServers
  BY <1>1, <1>2, LocalsListable DEF Request, Working
<1>4. request' = [request EXCEPT ![r] = now]
  BY <1>1 DEF Collecting
<1>5. link' = [s \in Servers |-> IF s \in EnabledServers THEN m(s) ELSE link[s]] /\ said' = Silence
  BY DEF Collecting
<1>6. ASSUME NEW s \in Servers
      PROVE  /\ m(s) \in Link /\ Serves(link[s], m(s), r)
             /\ m(s).ops[r].job = "list" \/ m(s).ops[r].doing = "failed"
             /\ m(s).ops[r].job \in {"list", "call"} =>
                  s \in AllowedNow /\ (Enabled(s) => s \in UsableNow)
  BY EnterStep
<1> HIDE DEF now, m
<1>7. link' \in [Servers -> Link]
  BY <1>1, <1>5, <1>6
<1>8. \A s \in Servers : link'[s] = link[s] \/ Serves(link[s], link'[s], r)
  BY <1>5, <1>6
<1>9. \A s \in Servers : link'[s].ops[r].job \in {"list", "call"} => s \in AllowedNow /\ s \in UsableNow
  <2>1. \A s \in Servers : link[s].ops[r].job = None
    BY ArrivingFacts, FreshAlone
  <2> QED
    BY <1>2, <1>5, <1>6, <2>1
<1>10. request'[r] = now
  BY <1>1, <1>4
<1>11. usable'[r] = UsableNow
  <2>1. Witness(r) /\ Usable(r) = UsableNow
    BY ArrivingFacts DEF Arriving
  <2> QED
    BY <1>3, <1>10, <2>1 DEF Witness, IInv, Typed, Histories
<1>12. CollectsAt(r)' /\ CallsAt(r)'
  BY <1>2, <1>3, <1>5, <1>6, <1>10, <1>11, LocalsListable DEF CollectsAt, CallsAt
<1>13. now.doing \in Working
  BY <1>3 DEF Working
<1> QED
  BY <1>3, <1>4, <1>5, <1>7, <1>8, <1>9, <1>12, <1>13, ArriveWorks

LEMMA ArriveCalls ==
  ASSUME IInv, NEW r \in Requests, Arriving(r), UNCHANGED latest,
         NEW s \in Servers, NEW u \in Offers[s], NEW tool,
         tool = McpToolName(ToProxiedToolName(s, u)), CallServer(r, s, tool)
  PROVE  IInv'
<1>1. PICK healthy \in BOOLEAN :
        /\ link' = [link EXCEPT ![s] = Enter(@, s, r, "call", healthy)]
        /\ request' = [request EXCEPT ![r].doing = "calling", ![r].target = s, ![r].tool = tool]
        /\ said' = Silence
  BY DEF CallServer
<1> DEFINE now == [request[r] EXCEPT !.doing = "calling", !.target = s, !.tool = tool]
           m == Enter(link[s], s, r, "call", healthy)
<1>2. request[r] \in Request /\ request \in [Requests -> Request] /\ link \in [Servers -> Link]
  BY DEF IInv, Typed, LinksInOrder
<1>3. now \in Request /\ now.doing = "calling" /\ now.target = s /\ now.tool = tool
  <2>1. ToProxiedToolName(s, u) \in ToolNames
    BY DEF ToolNames
  <2>2. tool \in McpToolNames
    BY <2>1 DEF McpToolNames
  <2> QED
    BY <1>2, <2>2 DEF Request, Working
<1>4. request' = [request EXCEPT ![r] = now]
  BY <1>1, <1>2
<1>5. link' = [link EXCEPT ![s] = m]
  BY <1>1
<1>6. /\ m \in Link /\ Serves(link[s], m, r)
      /\ m.ops[r].job = "call" \/ m.ops[r].doing = "failed"
      /\ m.ops[r].job # "list"
      /\ m.ops[r].job \in {"list", "call"} => s \in AllowedNow
  BY EnterStep
<1> HIDE DEF now, m
<1>7. /\ link' \in [Servers -> Link] /\ link'[s] = m
      /\ \A t \in Servers \ {s} : link'[t] = link[t]
  BY <1>2, <1>5, <1>6
<1>8. \A t \in Servers : link'[t] = link[t] \/ Serves(link[t], link'[t], r)
  BY <1>6, <1>7
<1>9. \A t \in Servers :
        link'[t].ops[r].job \in {"list", "call"} => t \in AllowedNow /\ link'[t].ops[r].job # "list"
  <2>1. \A t \in Servers : link[t].ops[r].job = None
    BY ArrivingFacts, FreshAlone
  <2> QED
    BY <1>6, <1>7, <2>1
<1>10. request'[r] = now
  BY <1>2, <1>4
<1>11. CollectsAt(r)' /\ CallsAt(r)'
  BY <1>3, <1>6, <1>7, <1>10 DEF CollectsAt, CallsAt
<1>12. now.doing \in Working
  BY <1>3 DEF Working
<1> QED
  BY <1>1, <1>3, <1>4, <1>7, <1>8, <1>9, <1>11, <1>12, ArriveWorks

\* What the cache has of a server is a tool of that server.
LEMMA CachedOffers ==
  ASSUME IInv, NEW e \in cached, e.origin \in Servers
  PROVE  \E u \in Offers[e.origin] : e.name = ToProxiedToolName(e.origin, u)
<1>1. e \in Listable
  BY DEF IInv, Typed
<1>2. e # ToolkitEntry
  BY ServingAssumption DEF ToolkitEntry, Entry, Packages
<1>3. e \notin LocalEntries
  BY ServingAssumption DEF LocalEntries, Entry
<1>4. PICK s \in Servers : e \in CollectMcpEntries(s)
  BY <1>1, <1>2, <1>3 DEF Listable
<1> QED
  BY <1>4 DEF CollectMcpEntries, Entry

LEMMA ArriveStops ==
  ASSUME IInv, NEW r \in Requests, Arriving(r), UNCHANGED latest, ShutDown(r)
  PROVE  IInv'
<1> DEFINE now == [request[r] EXCEPT !.doing = "stopping", !.asked = Sessions]
<1>1. request[r] \in Request /\ request \in [Requests -> Request] /\ link \in [Servers -> Link]
  BY DEF IInv, Typed, LinksInOrder
<1>2. Sessions \in SUBSET Servers
  BY DEF Sessions
<1>3. now \in Request /\ now.doing = "stopping"
  BY <1>1, <1>2 DEF Request, Working
<1>4. request' = [request EXCEPT ![r] = now] /\ said' = Silence /\ link' = link
  BY <1>1 DEF ShutDown
<1> HIDE DEF now
<1>5. request'[r] = now
  BY <1>1, <1>4
<1>6. \A t \in Servers : link'[t].ops[r].job = None
  BY <1>4, ArrivingFacts, FreshAlone
<1>7. CollectsAt(r)' /\ CallsAt(r)'
  BY <1>3, <1>5 DEF CollectsAt, CallsAt
<1>8. now.doing \in Working
  BY <1>3 DEF Working
<1> QED
  BY <1>1, <1>3, <1>4, <1>6, <1>7, <1>8, ArriveWorks

LEMMA ArriveRoutes ==
  ASSUME IInv, NEW r \in Requests, Arriving(r), UNCHANGED latest, NEW name,
         RouteToolCall(r, name)
  PROVE  IInv'
<1> DEFINE proxied == {e \in cached : e.name = name /\ e.origin \in Servers}
<1>1. CASE Answer(r, Called("toolkits", name, None))
  BY <1>1, ArriveAnswered DEF Outcomes
<1>2. ASSUME NEW e \in proxied, CallServer(r, e.origin, McpToolName(name))
      PROVE  IInv'
  <2>1. e.name = name /\ e.origin \in Servers /\ e \in cached
    OBVIOUS
  <2>2. PICK u \in Offers[e.origin] : e.name = ToProxiedToolName(e.origin, u)
    BY <2>1, CachedOffers
  <2> QED
    BY <1>2, <2>1, <2>2, ArriveCalls
<1>3. ASSUME name # ReservedName, proxied = {}, CallLocal(r, name)
      PROVE  IInv'
  <2>1. ASSUME NEW o \in {"notFound", "denied", "executed", "failed"}, NEW p,
               Answer(r, Called(o, name, p)), o = "executed" => p \in AllowedNow
        PROVE  IInv'
    <3>1. /\ name \in latest.names
          /\ \E s \in Servers : \E u \in Offers[s] : name = ToProxiedToolName(s, u)
          => latest.overtaken
      BY <1>3, NotRouted
    <3>2. o \in Outcomes \ {"listed", "forwarded"}
      BY DEF Outcomes
    <3> QED
      BY <2>1, <3>1, <3>2, ArriveAnswered
  <2>2. \A p \in Locals : Allowed(p) => p \in AllowedNow
    BY DEF AllowedNow, Packages
  <2>3. \/ Answer(r, Called("notFound", name, None))
        \/ \E p \in Locals : Answer(r, Called("denied", name, p))
        \/ \E p \in Locals : p \in AllowedNow /\ Answer(r, Called("executed", name, p))
        \/ \E p \in Locals : Answer(r, Called("failed", name, p))
    BY <1>3, <2>2 DEF CallLocal
  <2>4. CASE Answer(r, Called("notFound", name, None))
    BY <2>1, <2>4
  <2>5. ASSUME NEW p \in Locals, Answer(r, Called("denied", name, p))
        PROVE  IInv'
    BY <2>1, <2>5
  <2>6. ASSUME NEW p \in Locals, p \in AllowedNow, Answer(r, Called("executed", name, p))
        PROVE  IInv'
    BY <2>1, <2>6
  <2>7. ASSUME NEW p \in Locals, Answer(r, Called("failed", name, p))
        PROVE  IInv'
    BY <2>1, <2>7
  <2> QED
    BY <2>3, <2>4, <2>5, <2>6, <2>7
<1> QED
  BY <1>1, <1>2, <1>3 DEF RouteToolCall

LEMMA ArriveStep ==
  ASSUME IInv, NEW r \in Requests, Arrive(r)
  PROVE  IInv'
<1>1. Arriving(r)
  BY DEF Arrive, Arriving
<1>2. PICK form \in Forms[r] : Handle(r, form)
  BY DEF Arrive
<1>3. \A o \in {"refused", "served"} :
        Answer(r, Called(o, <<>>, None)) /\ UNCHANGED latest => IInv'
  BY <1>1, ArriveAnswered DEF Outcomes
<1>4. CASE Refused(form)
  BY <1>2, <1>3, <1>4 DEF Handle
<1>5. CASE ~Refused(form) /\ form.method = "tools/list"
  <2>1. ToolsList(r)
    BY <1>2, <1>5 DEF Handle
  <2> QED
    BY <1>1, <2>1, ArriveCollects, ArriveStaticList DEF ToolsList
<1>6. CASE ~Refused(form) /\ form.method = "tools/call"
  <2>1. RouteToolCall(r, form.param) /\ UNCHANGED latest
    BY <1>2, <1>6 DEF Handle
  <2> QED
    BY <1>1, <2>1, ArriveRoutes
<1>7. CASE ~Refused(form) /\ form.method = "shutdown"
  <2>1. ShutDown(r) /\ UNCHANGED latest
    BY <1>2, <1>7 DEF Handle
  <2> QED
    BY <1>1, <2>1, ArriveStops
<1>8. CASE ~Refused(form) /\ form.method \notin {"tools/list", "tools/call", "shutdown"}
  <2>1. Answer(r, Called("served", <<>>, None)) /\ UNCHANGED latest
    BY <1>2, <1>8 DEF Handle
  <2> QED
    BY <1>3, <2>1
<1> QED
  BY <1>4, <1>5, <1>6, <1>7, <1>8

-----------------------------------------------------------------------------
\* The start.

LEMMA InitIInv == Init => IInv
<1> SUFFICES ASSUME Init PROVE IInv
  OBVIOUS
<1>1. PICK setup \in Setups :
        link = [s \in Servers |->
                  LET l == NewLink(setup[s].kind, setup[s].peer)
                  IN IF Enabled(s) THEN Enter(l, s, Start, "list", TRUE) ELSE l]
  BY DEF Init
<1> DEFINE l(s) == NewLink(setup[s].kind, setup[s].peer)
           m(s) == Enter(l(s), s, Start, "list", TRUE)
           start == [Expected EXCEPT !.doing = "collecting", !.tools = CollectLocalEntries,
                                     !.asked = EnabledServers]
<1>2. /\ installed \in Locks /\ dynamic \in DynamicOptions
      /\ request = [r \in Requests |-> IF r # Start THEN Expected ELSE start]
      /\ arrived = 0 /\ cached = {}
      /\ latest = [from |-> Start, names |-> {}, overtaken |-> FALSE]
      /\ authorized = [r \in Requests |-> IF r = Start THEN AllowedNow ELSE {}]
      /\ usable = [r \in Requests |-> IF r = Start THEN UsableNow ELSE {}]
      /\ said = Silence /\ edits = 0 /\ faults = 0
  BY DEF Init
<1>3. Requests \subseteq Nat /\ Start \in Requests
  BY RequestsAreNumbers
<1>4. /\ AllowedNow \subseteq Packages /\ UsableNow \subseteq Packages
      /\ EnabledServers \subseteq Servers
  BY DEF AllowedNow, UsableNow, EnabledServers
<1>5. /\ start \in Request /\ start.doing = "collecting" /\ start.tools = CollectLocalEntries
      /\ start.asked = EnabledServers
  BY <1>4, LocalsListable, NoToolName DEF Expected, Request, Working
<1>6. Expected \in Request /\ Expected.doing = "expected"
  BY NoToolName DEF Expected, Request
<1> HIDE DEF start
<1>7. Typed
  <2>1. DOMAIN installed = Packages /\ \A p \in Packages : installed[p] \in Contents[p]
    BY <1>2, ServingAssumption
  <2>2. dynamic \in BOOLEAN /\ edits \in 0..MaxEdits /\ faults \in 0..MaxFaults
    BY <1>2, ServingAssumption
  <2>3. request \in [Requests -> Request]
    BY <1>2, <1>5, <1>6
  <2>4. arrived \in Requests /\ cached \subseteq Listable /\ latest \in Latest
    BY <1>2, <1>3 DEF Latest, Start
  <2>5. Histories
    BY <1>2, <1>4 DEF Histories
  <2> QED
    BY <2>1, <2>2, <2>3, <2>4, <2>5 DEF Typed
<1>8. ASSUME NEW s \in Servers
      PROVE  /\ LinkInv(l(s)) /\ \A r \in Requests : Fresh(l(s), r)
             /\ Serves(l(s), m(s), Start)
             /\ \/ m(s).ops[Start].job = "list" /\ Allowed(s)
                \/ m(s).ops[Start].job = None /\ m(s).ops[Start].doing = "failed"
  <2>1. setup[s].kind \in Kinds /\ setup[s].peer \in Peers
    BY ServingAssumption
  <2>2. LinkInv(l(s)) /\ \A r \in Requests : Fresh(l(s), r)
    BY <2>1, NewLinkInOrder
  <2> HIDE DEF l
  <2> QED
    BY <1>3, <2>2, EnterServes
<1>9. link = [s \in Servers |-> IF Enabled(s) THEN m(s) ELSE l(s)]
  BY <1>1
<1> HIDE DEF l, m
<1>10. ASSUME NEW s \in Servers
       PROVE  /\ LinkInv(link[s]) /\ \A r \in Requests \ {Start} : Fresh(link[s], r)
              /\ link[s].ops[Start].job = "list" => s \in AllowedNow /\ s \in UsableNow
              /\ link[s].ops[Start].job \in {"list", None}
              /\ Enabled(s) => link[s].ops[Start].job = "list" \/ link[s].ops[Start].doing = "failed"
  <2>1. CASE Enabled(s)
    BY <1>8, <1>9, <2>1 DEF Serves, AllowedNow, UsableNow, Packages
  <2>2. CASE ~Enabled(s)
    BY <1>3, <1>8, <1>9, <2>2, FreshAlone
  <2> QED
    BY <2>1, <2>2
<1>11. LinksInOrder
  BY <1>9, <1>10 DEF LinksInOrder, LinkInv
<1>12. Expects
  BY <1>2, <1>3, <1>6, <1>10 DEF Expects, Start
<1>13. ASSUME NEW r \in Requests
       PROVE  AuthorizedAt(r) /\ CollectsAt(r) /\ CallsAt(r)
  <2>1. CASE r = Start
    <3>1. AuthorizedAt(r)
      BY <1>2, <1>10, <2>1 DEF AuthorizedAt
    <3>2. CollectsAt(r) /\ CallsAt(r)
      BY <1>2, <1>5, <1>10, <2>1, LocalsListable DEF CollectsAt, CallsAt, EnabledServers
    <3> QED
      BY <3>1, <3>2
  <2>2. CASE r # Start
    <3>1. \A s \in Servers : link[s].ops[r].job = None
      BY <1>10, <2>2, FreshAlone
    <3> QED
      BY <1>2, <1>6, <2>2, <3>1 DEF AuthorizedAt, CollectsAt, CallsAt
  <2> QED
    BY <2>1, <2>2
<1>14. CacheIsLatest
  BY <1>2 DEF CacheIsLatest
<1>15. SaidRight
  <2>1. said.outcome = None /\ said.tools = {} /\ said.authorized = {} /\ said.usable = {} /\ None \notin Outcomes
    BY <1>2, ServingAssumption DEF Silence
  <2>2. said.outcome \notin {"listed", "forwarded", "executed", "notFound", "denied"}
    BY <2>1 DEF Outcomes
  <2> QED
    BY <2>1, <2>2 DEF SaidRight, SaidType, ListIsCurrent, ReachedAllowed, ListedIsRouted
<1> QED
  BY <1>7, <1>11, <1>12, <1>13, <1>14, <1>15 DEF IInv, Serving

LEMMA NextIInv == IInv /\ [Next]_vars => IInv'
<1> SUFFICES ASSUME IInv, [Next]_vars PROVE IInv'
  OBVIOUS
<1>1. ASSUME NEW r \in Requests, Arrive(r)
      PROVE  IInv'
  BY <1>1, ArriveStep
<1>2. ASSUME NEW r \in Requests, HandleToolsList(r)
      PROVE  IInv'
  BY <1>2, HandleToolsListStep
<1>3. ASSUME NEW r \in Requests, HandleToolsCall(r)
      PROVE  IInv'
  BY <1>3, HandleToolsCallStep
<1>4. ASSUME NEW r \in Requests, StopNext(r)
      PROVE  IInv'
  BY <1>4, StopNextStep
<1>5. ASSUME NEW r \in Requests, StopRejected(r)
      PROVE  IInv'
  BY <1>5, StopRejectedStep
<1>6. ASSUME NEW r \in Requests, NEW s \in Servers, PeerAnswers(s, r)
      PROVE  IInv'
  BY <1>6, PeerAnswersStep
<1>7. ASSUME NEW r \in Requests, NEW s \in Servers, OperationFaults(s, r)
      PROVE  IInv'
  BY <1>7, OperationFaultsStep
<1>8. ASSUME NEW r \in Requests, NEW s \in Servers, TransportEnds(s, r) \/ EndedUnder(s, r)
      PROVE  IInv'
  BY <1>8, TransportEndsStep, EndedUnderStep
<1>9. ASSUME NEW p \in Packages, EditCatalog(p)
      PROVE  IInv'
  BY <1>9, EditCatalogStep
<1>10. CASE UNCHANGED vars
  BY <1>10, StutterStep
<1> QED
  BY <1>1, <1>2, <1>3, <1>4, <1>5, <1>6, <1>7, <1>8, <1>9, <1>10 DEF Next, Quiet

LEMMA TailOfConcat ==
  ASSUME NEW S, NEW a \in Seq(S), NEW b \in Seq(S), Len(a) = 1
  PROVE  Tail(a \o b) = b
<1> DEFINE c == a \o b
<1>1. /\ c \in Seq(S) /\ Len(c) = Len(a) + Len(b)
      /\ \A i \in 1..Len(a) + Len(b) : c[i] = IF i <= Len(a) THEN a[i] ELSE b[i - Len(a)]
  BY ConcatProperties, Zenon
<1> HIDE DEF c
<1>2. Len(b) \in Nat
  BY LenProperties
<1>3. Len(c) = 1 + Len(b) /\ \A i \in 2..(1 + Len(b)) : c[i] = b[i - 1]
  BY <1>1, <1>2
<1>4. c # <<>>
  BY <1>1, <1>2, <1>3, EmptySeq
<1>5. Tail(c) \in Seq(S) /\ Len(Tail(c)) = Len(b) /\ \A i \in 1..Len(b) : Tail(c)[i] = c[i + 1]
  BY <1>1, <1>2, <1>3, <1>4, HeadTailProperties
<1>6. \A i \in 1..Len(b) : Tail(c)[i] = b[i]
  BY <1>2, <1>3, <1>5
<1>7. Tail(c) = b
  BY <1>5, <1>6, SeqEqual
<1> QED
  BY <1>7 DEF c

-----------------------------------------------------------------------------
(* The theorems.                                                           *)

\* In every state the types hold, the users of a client are its maker or converse in
\* the era it negotiated, what is asked was authorized, and the cache is the newest list.
THEOREM Inductive == Spec => []IInv
  BY InitIInv, NextIInv, PTL DEF Spec

\* McpServer's variables have their types.
THEOREM TypesHold == Spec => []TypeOK
  BY Inductive, IInvTypeOK, PTL

\* JsonRpcMcpClient: whatever is stopped, replaced or fails while operations wait, a
\* peer that has shown itself modern is spoken to in the modern envelope, and one that
\* has negotiated a legacy revision is not.
THEOREM DowngradeNever == Spec => []NoDowngrade
  BY Inductive, IInvNoDowngrade, PTL

\* assertLlmAccess: no call is on its way to a server, and no reply came from one, that
\* the agent was not authorized for at some moment since the call arrived.
THEOREM AccessHolds == Spec => []AccessRechecked
  BY Inductive, IInvAccessRechecked, PTL

\* collectAllTools: with dynamic discovery a list has what the servers that answered
\* have, and nothing of a package that was not both enabled and authorized at some moment
\* since it was asked for.
THEOREM ListsAreCurrent == Spec => []ListIsCurrent
<1>1. IInv => ListIsCurrent
  BY DEF IInv, SaidRight
<1> QED
  BY <1>1, Inductive, PTL

\* routeToolCall, toProxiedToolName: a server whose name has no "__" is called by the name
\* one of its own tools was listed with, whatever was refreshed or edited meanwhile.
THEOREM CallsAreForwarded == Spec => []ForwardedAsExposed
<1>1. IInv => ForwardedAsExposed
  <2> SUFFICES ASSUME IInv, NEW r \in Requests, request[r].doing = "calling",
                      Len(Segment[request[r].target]) = 1
               PROVE  request[r].tool \in {Exposed[t] : t \in Offers[request[r].target]}
    BY DEF ForwardedAsExposed
  <2> DEFINE s == request[r].target
  <2>1. s \in Servers /\ \E t \in Offers[s] : request[r].tool = McpToolName(ToProxiedToolName(s, t))
    BY DEF IInv, Serving, CallsAt
  <2> HIDE DEF s
  <2>2. PICK t \in Offers[s] : request[r].tool = McpToolName(ToProxiedToolName(s, t))
    BY <2>1
  <2>3. Segment[s] \in Seq(STRING) /\ Exposed[t] \in Seq(STRING) /\ Len(Segment[s]) = 1
    BY <2>1, ServingAssumption DEF s
  <2>4. request[r].tool = Exposed[t]
    BY TailOfConcat, <2>2, <2>3 DEF McpToolName, ToProxiedToolName
  <2> QED
    BY <2>4 DEF s
<1> QED
  BY <1>1, Inductive, PTL

\* routeToolCall: a tool the newest list has is routed to its server, unless an older
\* request's collection ended after that list's.
THEOREM ListedToolsAreRouted == Spec => []ListedIsRouted
<1>1. IInv => ListedIsRouted
  BY DEF IInv, SaidRight
<1> QED
  BY <1>1, Inductive, PTL
=============================================================================
