------------------------------ MODULE MCMigrate ------------------------------
(* A small instance of the migration runner. *)
EXTENDS Migrate, TLC

CONSTANTS r1, r2, r3

ThreeRunners == {r1, r2, r3}
=============================================================================
