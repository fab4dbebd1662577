----------------------------- MODULE MCMigrations -----------------------------
(* Small instances of Migrations for TLC. *)
EXTENDS Migrations

CONSTANT Old   \* a process of release 2.0.0, which ends with migration 10

MixedReleases == [p \in Processes |-> IF p = Old THEN 10 ELSE Latest]
=============================================================================
