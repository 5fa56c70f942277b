------------------------------ MODULE Requests ------------------------------
(***************************************************************************)
(* What a transport promises for each request: a promise that is settled   *)
(* at most once, with one outcome. Several may be rejected together.       *)
(***************************************************************************)
CONSTANTS Calls, Outcomes

VARIABLE promise   \* of each call: "idle", "waiting" or its outcome

Submit(c) ==
  /\ promise[c] = "idle"
  /\ promise' = [promise EXCEPT ![c] = "waiting"]

\* A request that is refused without being submitted.
Refuse(c, o) ==
  /\ promise[c] = "idle"
  /\ promise' = [promise EXCEPT ![c] = o]

Settle(S, o) ==
  /\ \A c \in S : promise[c] = "waiting"
  /\ promise' = [c \in Calls |-> IF c \in S THEN o ELSE promise[c]]

RequestsInit == promise = [c \in Calls |-> "idle"]

RequestsNext ==
  \/ \E c \in Calls : Submit(c)
  \/ \E c \in Calls, o \in Outcomes : Refuse(c, o)
  \/ \E S \in SUBSET Calls, o \in Outcomes : Settle(S, o)

RequestsSpec == RequestsInit /\ [][RequestsNext]_promise
=============================================================================
