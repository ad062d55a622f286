---------------------------- MODULE MCMigrations ----------------------------
(***************************************************************************)
(* An instance of Migrations for TLC: every tool.                          *)
(***************************************************************************)
EXTENDS Migrations

EveryTool == {"script", "up", "down", "make", "reset"}
=============================================================================
