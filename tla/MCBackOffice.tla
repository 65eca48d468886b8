---------------------------- MODULE MCBackOffice ----------------------------
(* The back office on small instances. *)
EXTENDS BackOffice
=============================================================================
