-------------------------- MODULE MCAlertLifecycle --------------------------
(* Alerts on small instances. *)
EXTENDS AlertLifecycle, TLC

(* Scans are interchangeable. *)
Alike == Permutations(Scan)
=============================================================================
