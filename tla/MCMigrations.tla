----------------------------- MODULE MCMigrations -----------------------------
(* Instances of Migrations for TLC. *)
EXTENDS Migrations, TLC

CONSTANTS e1, e2, p1
=============================================================================
