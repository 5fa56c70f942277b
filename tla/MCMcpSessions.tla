---------------------------- MODULE MCMcpSessions ----------------------------
\* Two slots: an operation can start a session, fail and try again, or be
\* followed by another, while one in the other slot replaces, uses or stops that
\* session. Sessions are never in short supply: an attempt creates at most one.
EXTENDS McpSessions, TLC

CONSTANTS o1, o2, stdin, a, b

MCOps == {o1, o2}
MCOneServer == {a}
MCTwoServers == {a, b}
MCMaxAttempts == o1 :> 2 @@ o2 :> 1
MCAllOffered == [o \in MCOps |-> Kinds]
MCSomeOffered == o1 :> {"call"} @@ o2 :> {"call", "health", "shutdownAll"}
MCMaxSessions == 3
=============================================================================
