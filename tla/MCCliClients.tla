---------------------------- MODULE MCCliClients ----------------------------
(* The terminal clients by themselves. *)
EXTENDS CliClients
=============================================================================
