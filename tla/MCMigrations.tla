---------------------------- MODULE MCMigrations ----------------------------
(* Small instance of Migrations.                                           *)
EXTENDS Migrations
=============================================================================
