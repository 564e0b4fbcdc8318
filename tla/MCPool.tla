------------------------------- MODULE MCPool -------------------------------
(***************************************************************************)
(* PgPool on small instances: which task is retried, and backends whose    *)
(* pids are not the numbers of their connections.                          *)
(***************************************************************************)
EXTENDS PgPool

CONSTANT Retried  \* the tasks made with retry_max = 1

RetryOnce == [t \in Tasks |-> IF t \in Retried THEN 1 ELSE 0]

DescendingPids == [c \in Conns |-> 10 + MaxConns - c]
=============================================================================
