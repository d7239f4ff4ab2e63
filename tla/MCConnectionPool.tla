-------------------------- MODULE MCConnectionPool --------------------------
(* Four jobs, three of them on one row, and a pass of the relay.           *)
EXTENDS ConnectionPool, TLC

CONSTANTS j1, j2, j3, j4, relay, r1, r2

Targets == (j1 :> r1) @@ (j2 :> r1) @@ (j3 :> r1) @@ (j4 :> r2) @@ (relay :> NULL)
=============================================================================
