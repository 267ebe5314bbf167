------------------------------ MODULE MCServer ------------------------------
(* A small instance of the server: two handlers compete for one connection. *)
EXTENDS ServerLifecycle, TLC

CONSTANTS h1, h2, c1

Pair    == {h1, h2}
OneConn == {c1}

\* Routes of each shape: no call at all, Redis alone, Redis and a statement,
\* statements alone, and a body between statements.
Shapes == {"healthz", "logout", "refresh", "get", "create"}
=============================================================================
