---------------------------- MODULE SchemaHistory ----------------------------
(***************************************************************************)
(* What the migration runner promises the schema: the migrations take      *)
(* effect one at a time, in file order, each exactly once.                 *)
(***************************************************************************)
EXTENDS Naturals

CONSTANT N       \* the number of migration files

VARIABLE applied \* how often each migration has taken effect

HistoryInit == applied = [v \in 1 .. N |-> 0]

Take(v) ==
  /\ \A u \in 1 .. N : applied[u] = IF u < v THEN 1 ELSE 0
  /\ applied' = [applied EXCEPT ![v] = 1]

HistorySpec == HistoryInit /\ [][\E v \in 1 .. N : Take(v)]_applied
=============================================================================
