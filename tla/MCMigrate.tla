----------------------------- MODULE MCMigrate ------------------------------
(* Three processes: two of one application, at an older and at the newest  *)
(* version of its schema, and one of another application.                  *)
EXTENDS Migrate

MCProcs == 1 .. 3
MCAppID == <<1, 1, 2>>
MCLast == <<1, 2, 1>>
=============================================================================
