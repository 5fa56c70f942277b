---------------------------- MODULE MCResilience ----------------------------
\* Three callers on one server: enough for a call to sleep while a second
\* opens its circuit and a third probes it. The threshold and the budget are
\* small enough for both "opened by one call's retries" and "opened by
\* several calls" to happen.
EXTENDS Resilience

CONSTANTS c1, c2, c3, srv

MCCallers == {c1, c2, c3}
MCServers == {srv}
MCRetryBudgets == {2}
=============================================================================
