------------------------- MODULE MCRequestForwarding -------------------------
(* Arrival and forwarding on small instances. *)
EXTENDS RequestForwarding, TLC

(* Requests are interchangeable, and so are workers. *)
Alike == Permutations(Request) \union Permutations(Forwarder)
=============================================================================
