---- MODULE MCMigrations ----
(* Two accounts; a command may be given any of the revisions. *)
EXTENDS Migrations
MCTargets == 0 .. HeadRevision
====
