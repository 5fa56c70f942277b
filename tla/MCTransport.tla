---------------------------- MODULE MCTransport ----------------------------
\* Four calls: one can time out and be answered late while another takes the
\* next id and a third waits for the socket. One has no timeout.
EXTENDS Transport

CONSTANTS c1, c2, c3, c4

MCCalls == {c1, c2, c3, c4}
MCTimed == {c1, c2, c3}
MCKinds == {"stdio", "ws", "http"}
=============================================================================
