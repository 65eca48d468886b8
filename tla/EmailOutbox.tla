----------------------------- MODULE EmailOutbox -----------------------------
(***************************************************************************)
(* The email outbox: handlers insert pending rows, and a cron tick every   *)
(* minute sends the oldest ones and marks each as sent or failed. Nothing  *)
(* claims a row, so ticks that overlap, or run on two replicas, share it.  *)
(* Each tick has an entity manager of its own: findOne by primary key      *)
(* returns the copy the tick read first, and a flush writes the columns    *)
(* that differ from it.                                                    *)
(***************************************************************************)
EXTENDS Naturals, FiniteSets

CONSTANTS
    Tick,         (* the ticks that may overlap                            *)
    MaxAttempts,  (* the column max_attempts: 5 unless enqueue says other  *)
    Limit,        (* rows a tick takes: 20                                 *)
    MaxMails,     (* bound: mails ever enqueued                            *)
    MaxFaults     (* bound: crashes, failed flushes, misreported sends     *)

ASSUME OutboxAssumption ==
    /\ MaxAttempts \in Nat \ {0} /\ Limit \in Nat \ {0}
    /\ MaxMails \in Nat /\ MaxFaults \in Nat

Mail == 1..MaxMails

VARIABLES
    queued,     (* mails enqueued so far, in the order of created_at       *)
    status,     (* of each row, "none" without one                         *)
    attempts,   (* of each row                                             *)
    pc,         (* where each tick is                                      *)
    todo,       (* the rows of its batch that a tick has yet to finish     *)
    copy,       (* the attempts a tick read with its batch                 *)
    dirty,      (* the tick's copy says sent, but the flush failed         *)
    sends,      (* history: calls of sendMail for each mail                *)
    delivered,  (* history: calls the provider accepted                    *)
    shared,     (* history: mails two ticks had in their batches at once   *)
    struck,     (* history: mails a fault hit                              *)
    faults

rowVars == <<queued, status, attempts>>
tickVars == <<pc, todo, copy, dirty>>
historyVars == <<sends, delivered, shared, struck>>
vars == <<rowVars, tickVars, historyVars, faults>>

Init ==
    /\ queued = 0
    /\ status = [m \in Mail |-> "none"]
    /\ attempts = [m \in Mail |-> 0]
    /\ pc = [t \in Tick |-> "idle"]
    /\ todo = [t \in Tick |-> {}]
    /\ copy = [t \in Tick |-> [m \in Mail |-> 0]]
    /\ dirty = [t \in Tick |-> FALSE]
    /\ sends = [m \in Mail |-> 0] /\ delivered = [m \in Mail |-> 0]
    /\ shared = {} /\ struck = {}
    /\ faults = 0

-----------------------------------------------------------------------------
(* Rows are taken by their status alone, whatever their attempts.          *)
PendingBelowLimit == {m \in Mail : status[m] = "pending" /\ attempts[m] + 1 < MaxAttempts}
Pending == {m \in Mail : status[m] = "pending"}

Oldest(S) == {m \in S : Cardinality({n \in S : n < m}) < Limit}

(* The row a tick is at: batches are in the order of created_at.           *)
At(t) == CHOOSE m \in todo[t] : \A n \in todo[t] : m <= n

Goto(t, where) == pc' = [pc EXCEPT ![t] = where]

(* The tick is done with the row it is at, and takes the next.             *)
Finish(t) ==
    LET rest == todo[t] \ {At(t)} IN
    /\ todo' = [todo EXCEPT ![t] = rest]
    /\ Goto(t, IF rest = {} THEN "idle" ELSE "send")
    /\ dirty' = [dirty EXCEPT ![t] = FALSE]
    /\ UNCHANGED copy

Enqueue ==
    /\ queued < MaxMails
    /\ queued' = queued + 1
    /\ status' = [status EXCEPT ![queued + 1] = "pending"]
    /\ UNCHANGED <<attempts, tickVars, historyVars, faults>>

(* getPending: the oldest pending rows, whoever else has them.             *)
ReadBatch(t) ==
    /\ pc[t] = "idle"
    /\ Pending # {}
    /\ LET batch == Oldest(Pending) IN
       /\ todo' = [todo EXCEPT ![t] = batch]
       /\ copy' = [copy EXCEPT ![t] = [m \in Mail |-> IF m \in batch THEN attempts[m] ELSE 0]]
       /\ shared' = shared \union (batch \cap UNION {todo[u] : u \in Tick \ {t}})
    /\ Goto(t, "send")
    /\ UNCHANGED <<rowVars, dirty, sends, delivered, struck, faults>>

CallMailer(t, to) ==
    /\ pc[t] = "send"
    /\ sends' = [sends EXCEPT ![At(t)] = @ + 1]
    /\ Goto(t, to)
    /\ UNCHANGED <<rowVars, todo, copy, dirty, shared>>

Send(t) ==
    /\ CallMailer(t, "accepted")
    /\ delivered' = [delivered EXCEPT ![At(t)] = @ + 1]
    /\ UNCHANGED <<struck, faults>>

(* No API key, no template, no network, or an error from the provider.     *)
SendRejected(t) ==
    /\ CallMailer(t, "rejected")
    /\ UNCHANGED <<delivered, struck, faults>>

(* The provider accepts, but its answer is lost.                           *)
SendMisreported(t) ==
    /\ faults < MaxFaults
    /\ faults' = faults + 1
    /\ CallMailer(t, "rejected")
    /\ delivered' = [delivered EXCEPT ![At(t)] = @ + 1]
    /\ struck' = struck \union {At(t)}

MarkSent(t) ==
    /\ pc[t] = "accepted"
    /\ status' = [status EXCEPT ![At(t)] = "sent"]
    /\ Finish(t)
    /\ UNCHANGED <<queued, attempts, historyVars, faults>>

(* The flush fails: the catch block takes a mail that went out for one     *)
(* that did not. The copy keeps the status it was given.                   *)
MarkSentFails(t) ==
    /\ pc[t] = "accepted"
    /\ faults < MaxFaults
    /\ faults' = faults + 1
    /\ struck' = struck \union {At(t)}
    /\ dirty' = [dirty EXCEPT ![t] = TRUE]
    /\ Goto(t, "rejected")
    /\ UNCHANGED <<rowVars, todo, copy, sends, delivered, shared>>

(* attempts counts from the tick's copy.                                   *)
Tries(t) == copy[t][At(t)] + 1

(* status is written only when the copy's has changed, never the pending   *)
(* that the tick read; the limit is reached at max_attempts.               *)
Unfailed(t) == IF dirty[t] THEN "sent" ELSE status[At(t)]
StatusLate(t, tries) == IF tries > MaxAttempts THEN "failed" ELSE Unfailed(t)
StatusEarly(t, tries) == IF tries + 1 >= MaxAttempts THEN "failed" ELSE Unfailed(t)
StatusWholeRow(t, tries) ==
    IF tries >= MaxAttempts THEN "failed" ELSE IF dirty[t] THEN "sent" ELSE "pending"
StatusToWrite(t, tries) == IF tries >= MaxAttempts THEN "failed" ELSE Unfailed(t)

MarkFailed(t) ==
    /\ pc[t] = "rejected"
    /\ attempts' = [attempts EXCEPT ![At(t)] = Tries(t)]
    /\ status' = [status EXCEPT ![At(t)] = StatusToWrite(t, Tries(t))]
    /\ Finish(t)
    /\ UNCHANGED <<queued, historyVars, faults>>

(* The process dies, or markFailed throws out of the catch block: the rest *)
(* of the batch waits for another tick.                                    *)
AbortTick(t) ==
    /\ pc[t] # "idle"
    /\ faults < MaxFaults
    /\ faults' = faults + 1
    /\ struck' = IF pc[t] = "send" THEN struck ELSE struck \union {At(t)}
    /\ todo' = [todo EXCEPT ![t] = {}]
    /\ dirty' = [dirty EXCEPT ![t] = FALSE]
    /\ Goto(t, "idle")
    /\ UNCHANGED <<rowVars, copy, sends, delivered, shared>>

TickStep(t) == Send(t) \/ SendRejected(t) \/ MarkSent(t) \/ MarkFailed(t)

Next ==
    \/ Enqueue
    \/ \E t \in Tick : ReadBatch(t) \/ TickStep(t) \/ SendMisreported(t)
                       \/ MarkSentFails(t) \/ AbortTick(t)

Spec == Init /\ [][Next]_vars

(* The cron job fires every minute, and a tick that started goes on.       *)
Fairness == \A t \in Tick : WF_vars(ReadBatch(t)) /\ WF_vars(TickStep(t))

FairSpec == Spec /\ Fairness

-----------------------------------------------------------------------------
(* Properties.                                                             *)

TypeOK ==
    /\ queued \in 0..MaxMails
    /\ status \in [Mail -> {"none", "pending", "sent", "failed"}]
    /\ \A m \in Mail : status[m] = "none" <=> m > queued
    /\ attempts \in [Mail -> 0..MaxAttempts]
    /\ pc \in [Tick -> {"idle", "send", "accepted", "rejected"}]
    /\ todo \in [Tick -> SUBSET (1..queued)]
    /\ \A t \in Tick : pc[t] = "idle" <=> todo[t] = {}
    /\ copy \in [Tick -> [Mail -> 0..(MaxAttempts - 1)]]
    /\ dirty \in [Tick -> BOOLEAN]
    /\ sends \in [Mail -> Nat] /\ delivered \in [Mail -> Nat]
    /\ shared \subseteq Mail /\ struck \subseteq Mail
    /\ faults \in 0..MaxFaults

Settled(m) == status[m] \in {"sent", "failed"}

(* A settled row is never pending again, though ticks with stale copies of *)
(* it go on writing: what they flush is never the status they read.        *)
SettledStays ==
    [][\A m \in Mail : Settled(m) => status'[m] # "pending"]_vars

(* A row that says sent was accepted by the provider. One that says failed *)
(* was tried max_attempts times and never accepted, unless ticks shared it *)
(* or a fault hit.                                                         *)
OutcomeTruthful ==
    \A m \in Mail :
        /\ status[m] = "sent" => delivered[m] > 0
        /\ status[m] = "failed" /\ m \notin shared \union struck =>
               delivered[m] = 0 /\ sends[m] = MaxAttempts

(* While no two ticks share a mail and no fault hits it, its address gets  *)
(* it at most once, and sendMail is called at most max_attempts times.     *)
DeliveredOnce ==
    \A m \in Mail \ (shared \union struck) :
        delivered[m] <= 1 /\ sends[m] <= MaxAttempts

(* Every mail settles: the oldest ones, however often they fail, do not    *)
(* starve the rest, and ticks that overwrite each other's count of         *)
(* attempts still bring it to its end.                                     *)
MailSettles == \A m \in Mail : status[m] = "pending" ~> Settled(m)
=============================================================================
