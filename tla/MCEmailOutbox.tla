--------------------------- MODULE MCEmailOutbox ---------------------------
(* The outbox on small instances. *)
EXTENDS EmailOutbox
=============================================================================
