-------------------------- MODULE MCRetryLifecycle --------------------------
(* The retry lifecycle on small instances. *)
EXTENDS RetryLifecycle, TLC

(* Requests and workers are interchangeable. *)
Interchangeable == Permutations(Request) \union Permutations(Worker)
=============================================================================
