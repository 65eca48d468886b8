---------------------------- MODULE RetryContract ----------------------------
(***************************************************************************)
(* What an automatic retry promises to the owner of an endpoint, without   *)
(* queue, workers or faults: a retry is opened once, counts its failures   *)
(* one by one, ends as success or as failed, and once it has ended nothing *)
(* is sent for it again.                                                   *)
(***************************************************************************)
EXTENDS Naturals

CONSTANTS Request, Limit

VARIABLES state, failures, sends

contractVars == <<state, failures, sends>>

Init ==
    /\ state = [r \in Request |-> "none"]
    /\ failures = [r \in Request |-> 0]
    /\ sends = [r \in Request |-> 0]

Open(r) ==
    /\ state[r] = "none"
    /\ state' = [state EXCEPT ![r] = "pending"]
    /\ UNCHANGED <<failures, sends>>

(* A retry withdrawn while a request is under way may still see it sent.   *)
Send(r) ==
    /\ state[r] \in {"pending", "none"}
    /\ sends' = [sends EXCEPT ![r] = @ + 1]
    /\ UNCHANGED <<state, failures>>

(* An outcome is recorded only for a request sent and not yet counted.     *)
Fail(r) ==
    /\ state[r] = "pending"
    /\ failures[r] < sends[r]
    /\ failures' = [failures EXCEPT ![r] = @ + 1]
    /\ state' = [state EXCEPT ![r] = IF failures[r] + 1 = Limit THEN "failed" ELSE @]
    /\ UNCHANGED sends

Succeed(r) ==
    /\ state[r] = "pending"
    /\ failures[r] < sends[r]
    /\ state' = [state EXCEPT ![r] = "success"]
    /\ UNCHANGED <<failures, sends>>

Withdraw(gone) ==
    /\ state' = [r \in Request |-> IF r \in gone THEN "none" ELSE state[r]]
    /\ failures' = [r \in Request |-> IF r \in gone THEN 0 ELSE failures[r]]
    /\ UNCHANGED sends

Next ==
    \/ \E r \in Request : Open(r) \/ Send(r) \/ Fail(r) \/ Succeed(r)
    \/ \E gone \in SUBSET Request : Withdraw(gone)

Spec == Init /\ [][Next]_contractVars
=============================================================================
