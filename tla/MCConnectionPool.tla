-------------------------- MODULE MCConnectionPool --------------------------
(* Small instances of ConnectionPool for TLC.                              *)
EXTENDS ConnectionPool

CONSTANTS r1, r2, j1, q1, q2

OneRequest == {r1}
TwoRequests == {r1, r2}
\* The first request recruits: its handler uses two repositories, or one.
TwoRunners == [t \in TenantRequests |-> IF t = r1 THEN 2 ELSE 0]
OneRunner == [t \in TenantRequests |-> IF t = r1 THEN 1 ELSE 0]
OneJob == {j1}
OneQuery == {q1}
TwoQueries == {q1, q2}
=============================================================================
