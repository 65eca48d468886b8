----------------------------- MODULE OutboxProofs -----------------------------
(***************************************************************************)
(* Proofs about EmailOutbox for every set of ticks, any number of mails,   *)
(* attempts and faults, and every size of a batch.                         *)
(***************************************************************************)
EXTENDS EmailOutbox, FiniteSetTheorems, TLAPS

USE OutboxAssumption DEF Mail

(* A batch that is not empty has an oldest row. *)
LEMMA OldestInSet ==
  ASSUME NEW S \in SUBSET Nat, S # {}
  PROVE  \E m \in S : \A n \in S : m <= n
<1>1. PICK m \in S : \A n \in S : ~ (<<n, m>> \in OpToRel(<, Nat))
  BY NatLessThanWellFounded, WFMin
<1>2. \A n \in S : ~ (n < m)
  BY <1>1 DEF OpToRel
<1> QED BY <1>2

LEMMA BatchNotEmpty ==
  ASSUME NEW S \in SUBSET Mail, S # {}
  PROVE  Oldest(S) # {} /\ Oldest(S) \subseteq S
<1>1. PICK m \in S : \A n \in S : m <= n
  BY OldestInSet
<1>2. {n \in S : n < m} = {}
  <2>1. \A n \in S : n \in Nat /\ m \in Nat /\ m <= n
    BY <1>1
  <2>2. \A n \in S : ~ (n < m)
    BY <2>1
  <2> QED BY <2>2
<1>3. m \in Oldest(S)
  BY <1>2, FS_EmptySet DEF Oldest
<1> QED BY <1>3 DEF Oldest

LEMMA AtInBatch ==
  ASSUME TypeOK, NEW t \in Tick, pc[t] # "idle"
  PROVE  At(t) \in todo[t] /\ At(t) \in 1..queued /\ At(t) \in Mail
<1>1. todo[t] # {} /\ todo[t] \subseteq 1..queued /\ queued \in 0..MaxMails
  BY DEF TypeOK
<1>2. todo[t] \in SUBSET Nat
  BY <1>1
<1>3. \E m \in todo[t] : \A n \in todo[t] : m <= n
  BY <1>1, <1>2, OldestInSet
<1>4. At(t) \in todo[t]
  BY <1>3 DEF At
<1> QED BY <1>1, <1>4

-----------------------------------------------------------------------------
(* Types. A pending row has attempts to spare, since the save that reaches *)
(* the limit also settles it; so has every copy of it.                     *)
TypeInv ==
    /\ TypeOK
    /\ \A m \in Mail : status[m] \in {"none", "pending"} => attempts[m] < MaxAttempts

LEMMA FinishType ==
  ASSUME TypeOK, NEW t \in Tick, pc[t] # "idle", Finish(t)
  PROVE  /\ pc' \in [Tick -> {"idle", "send", "accepted", "rejected"}]
         /\ todo' \in [Tick -> SUBSET (1..queued)]
         /\ \A u \in Tick : pc'[u] = "idle" <=> todo'[u] = {}
         /\ copy' = copy
         /\ dirty' \in [Tick -> BOOLEAN]
         /\ \A u \in Tick \ {t} : pc'[u] = pc[u] /\ todo'[u] = todo[u] /\ dirty'[u] = dirty[u]
         /\ pc'[t] \in {"idle", "send"} /\ todo'[t] = todo[t] \ {At(t)} /\ dirty'[t] = FALSE
BY DEF TypeOK, Finish, Goto

LEMMA TypeStep == TypeInv /\ [Next]_vars => TypeInv'
<1> SUFFICES ASSUME TypeInv, [Next]_vars PROVE TypeInv'
  OBVIOUS
<1>a. TypeOK /\ \A m \in Mail : status[m] \in {"none", "pending"} => attempts[m] < MaxAttempts
  BY DEF TypeInv
<1>b. /\ pc \in [Tick -> {"idle", "send", "accepted", "rejected"}]
      /\ todo \in [Tick -> SUBSET (1..queued)]
      /\ \A t \in Tick : pc[t] = "idle" <=> todo[t] = {}
  BY <1>a DEF TypeOK
<1>c. /\ queued \in 0..MaxMails
      /\ status \in [Mail -> {"none", "pending", "sent", "failed"}]
      /\ \A m \in Mail : status[m] = "none" <=> m > queued
      /\ attempts \in [Mail -> 0..MaxAttempts]
  BY <1>a DEF TypeOK
<1>d. copy \in [Tick -> [Mail -> 0..(MaxAttempts - 1)]]
  BY <1>a DEF TypeOK
<1>e. /\ sends \in [Mail -> Nat] /\ delivered \in [Mail -> Nat]
      /\ shared \subseteq Mail /\ struck \subseteq Mail
      /\ faults \in 0..MaxFaults
  BY <1>a DEF TypeOK
<1>. USE DEF rowVars, tickVars, historyVars
<1>1. CASE Enqueue
  <2>1. queued + 1 \in Mail /\ queued' = queued + 1 /\ queued \in Nat
    BY <1>c, <1>1 DEF Enqueue
  <2>2. todo' \in [Tick -> SUBSET (1..queued')]
    BY <1>b, <1>1, <2>1 DEF Enqueue
  <2>3. /\ status' \in [Mail -> {"none", "pending", "sent", "failed"}]
        /\ \A m \in Mail : status'[m] = "none" <=> m > queued'
    BY <1>c, <1>1, <2>1 DEF Enqueue
  <2>4. \A m \in Mail : status'[m] \in {"none", "pending"} => attempts'[m] < MaxAttempts
    BY <1>a, <1>c, <1>1, <2>1 DEF Enqueue
  <2>5. queued' \in 0..MaxMails
    BY <2>1
  <2>6. UNCHANGED <<attempts, pc, todo, copy, dirty, sends, delivered, shared, struck, faults>>
    BY <1>1 DEF Enqueue
  <2> QED BY <1>a, <2>2, <2>3, <2>4, <2>5, <2>6 DEF TypeOK, TypeInv
<1>2. ASSUME NEW t \in Tick, ReadBatch(t) PROVE TypeInv'
  <2> DEFINE batch == Oldest(Pending)
  <2>1. batch # {} /\ batch \subseteq Pending
    BY <1>2, BatchNotEmpty DEF ReadBatch, Pending
  <2>2. batch \subseteq 1..queued
    BY <1>c, <2>1 DEF Pending
  <2>3. \A m \in batch : attempts[m] \in 0..(MaxAttempts - 1)
    BY <1>a, <1>c, <2>1 DEF Pending
  <2> HIDE DEF batch
  <2>4. /\ todo' = [todo EXCEPT ![t] = batch]
        /\ copy' = [copy EXCEPT ![t] = [m \in Mail |-> IF m \in batch THEN attempts[m] ELSE 0]]
        /\ shared' = shared \union (batch \cap UNION {todo[u] : u \in Tick \ {t}})
        /\ pc' = [pc EXCEPT ![t] = "send"]
    BY <1>2 DEF ReadBatch, Goto, batch
  <2>5. copy' \in [Tick -> [Mail -> 0..(MaxAttempts - 1)]]
    <3>1. [m \in Mail |-> IF m \in batch THEN attempts[m] ELSE 0] \in [Mail -> 0..(MaxAttempts - 1)]
      BY <2>3
    <3> QED BY <1>d, <2>4, <3>1
  <2>6. todo' \in [Tick -> SUBSET (1..queued)] /\ shared' \subseteq Mail
    BY <1>b, <1>e, <2>1, <2>2, <2>4 DEF Pending
  <2>7. /\ pc' \in [Tick -> {"idle", "send", "accepted", "rejected"}]
        /\ \A u \in Tick : pc'[u] = "idle" <=> todo'[u] = {}
    BY <1>b, <2>1, <2>4
  <2>8. UNCHANGED <<queued, status, attempts, dirty, sends, delivered, struck, faults>>
    BY <1>2 DEF ReadBatch
  <2> QED BY <1>a, <2>5, <2>6, <2>7, <2>8 DEF TypeOK, TypeInv
<1>3. ASSUME NEW t \in Tick, Send(t) \/ SendRejected(t) \/ SendMisreported(t) PROVE TypeInv'
  <2>1. pc[t] = "send" /\ At(t) \in Mail
    BY <1>a, <1>3, AtInBatch DEF Send, SendRejected, SendMisreported, CallMailer
  <2>2. PICK to \in {"accepted", "rejected"} : CallMailer(t, to)
    BY <1>3 DEF Send, SendRejected, SendMisreported
  <2>3. sends' \in [Mail -> Nat]
    BY <1>e, <2>1, <2>2 DEF CallMailer
  <2>4. /\ pc' \in [Tick -> {"idle", "send", "accepted", "rejected"}]
        /\ \A u \in Tick : pc'[u] = "idle" <=> todo'[u] = {}
    BY <1>b, <2>1, <2>2 DEF CallMailer, Goto
  <2>5. delivered' \in [Mail -> Nat] /\ struck' \subseteq Mail /\ faults' \in 0..MaxFaults
    <3>0. delivered \in [Mail -> Nat] /\ struck \subseteq Mail /\ faults \in 0..MaxFaults
      BY <1>a DEF TypeOK
    <3>1. CASE Send(t)
      BY <3>0, <3>1, <2>1 DEF Send
    <3>2. CASE SendRejected(t)
      BY <3>0, <3>2 DEF SendRejected
    <3>3. CASE SendMisreported(t)
      <4> HIDE DEF Mail
      <4>1. /\ faults < MaxFaults /\ faults' = faults + 1
            /\ delivered' = [delivered EXCEPT ![At(t)] = @ + 1]
            /\ struck' = struck \union {At(t)}
        BY <3>3 DEF SendMisreported
      <4>2. delivered' \in [Mail -> Nat] /\ struck' \subseteq Mail
        BY <3>0, <4>1, <2>1
      <4>3. faults' \in 0..MaxFaults
        BY <3>0, <4>1
      <4> QED BY <4>2, <4>3
    <3> QED BY <1>3, <3>1, <3>2, <3>3
  <2>6. UNCHANGED <<rowVars, todo, copy, dirty, shared>>
    BY <2>2 DEF CallMailer
  <2> QED BY <1>a, <2>3, <2>4, <2>5, <2>6 DEF TypeOK, TypeInv
<1>4. ASSUME NEW t \in Tick, MarkSent(t) PROVE TypeInv'
  <2>1. At(t) \in 1..queued /\ At(t) \in Mail /\ pc[t] # "idle" /\ Finish(t)
    BY <1>a, <1>4, AtInBatch DEF MarkSent
  <2>2. /\ status' \in [Mail -> {"none", "pending", "sent", "failed"}]
        /\ \A m \in Mail : status'[m] = "none" <=> m > queued
        /\ \A m \in Mail : status'[m] \in {"none", "pending"} => attempts[m] < MaxAttempts
    <3>1. /\ status \in [Mail -> {"none", "pending", "sent", "failed"}] /\ queued \in Nat
          /\ \A m \in Mail : status[m] = "none" <=> m > queued
      BY <1>a DEF TypeOK
    <3>2. status' = [status EXCEPT ![At(t)] = "sent"]
      BY <1>4 DEF MarkSent
    <3> HIDE DEF Mail
    <3>3. \A m \in Mail : status'[m] = IF m = At(t) THEN "sent" ELSE status[m]
      BY <3>1, <3>2, <2>1
    <3> QED BY <1>a, <2>1, <3>1, <3>2, <3>3
  <2>3. /\ pc' \in [Tick -> {"idle", "send", "accepted", "rejected"}]
        /\ todo' \in [Tick -> SUBSET (1..queued)]
        /\ \A u \in Tick : pc'[u] = "idle" <=> todo'[u] = {}
        /\ copy' = copy /\ dirty' \in [Tick -> BOOLEAN]
    BY <1>a, <2>1, FinishType
  <2>4. UNCHANGED <<queued, attempts, sends, delivered, shared, struck, faults>>
    BY <1>4 DEF MarkSent
  <2> QED BY <1>a, <2>2, <2>3, <2>4 DEF TypeOK, TypeInv
<1>5. ASSUME NEW t \in Tick, MarkFailed(t) PROVE TypeInv'
  <2>1. At(t) \in 1..queued /\ At(t) \in Mail /\ pc[t] # "idle" /\ Finish(t)
    BY <1>a, <1>5, AtInBatch DEF MarkFailed
  <2>2. Tries(t) \in 1..MaxAttempts
    <3>1. copy \in [Tick -> [Mail -> 0..(MaxAttempts - 1)]]
      BY <1>a DEF TypeOK
    <3>2. copy[t][At(t)] \in 0..(MaxAttempts - 1)
      BY <2>1, <3>1
    <3> QED BY <3>2 DEF Tries
  <2>3. StatusToWrite(t, Tries(t)) \in {"pending", "sent", "failed"}
    BY <1>c, <2>1 DEF StatusToWrite, Unfailed
  <2>4. Tries(t) < MaxAttempts \/ StatusToWrite(t, Tries(t)) = "failed"
    BY <2>2 DEF StatusToWrite
  <2>5. /\ status' \in [Mail -> {"none", "pending", "sent", "failed"}]
        /\ \A m \in Mail : status'[m] = "none" <=> m > queued
        /\ attempts' \in [Mail -> 0..MaxAttempts]
    <3>1. /\ status \in [Mail -> {"none", "pending", "sent", "failed"}] /\ queued \in Nat
          /\ \A m \in Mail : status[m] = "none" <=> m > queued
          /\ attempts \in [Mail -> 0..MaxAttempts]
      BY <1>a DEF TypeOK
    <3>2. /\ status' = [status EXCEPT ![At(t)] = StatusToWrite(t, Tries(t))]
          /\ attempts' = [attempts EXCEPT ![At(t)] = Tries(t)]
      BY <1>5 DEF MarkFailed
    <3>3. attempts' \in [Mail -> 0..MaxAttempts]
      BY <2>1, <2>2, <3>1, <3>2
    <3> HIDE DEF Mail
    <3>4. \A m \in Mail : status'[m] = IF m = At(t) THEN StatusToWrite(t, Tries(t)) ELSE status[m]
      BY <3>1, <3>2, <2>1
    <3> QED BY <2>1, <2>3, <3>1, <3>2, <3>3, <3>4
  <2>6. \A m \in Mail : status'[m] \in {"none", "pending"} => attempts'[m] < MaxAttempts
    BY <1>a, <1>c, <1>5, <2>1, <2>2, <2>4 DEF MarkFailed
  <2>7. /\ pc' \in [Tick -> {"idle", "send", "accepted", "rejected"}]
        /\ todo' \in [Tick -> SUBSET (1..queued)]
        /\ \A u \in Tick : pc'[u] = "idle" <=> todo'[u] = {}
        /\ copy' = copy /\ dirty' \in [Tick -> BOOLEAN]
    BY <1>a, <2>1, FinishType
  <2>8. UNCHANGED <<queued, sends, delivered, shared, struck, faults>>
    BY <1>5 DEF MarkFailed
  <2> QED BY <1>a, <2>5, <2>6, <2>7, <2>8 DEF TypeOK, TypeInv
<1>6. ASSUME NEW t \in Tick, MarkSentFails(t) PROVE TypeInv'
  <2>1. At(t) \in Mail
    BY <1>a, <1>6, AtInBatch DEF MarkSentFails
  <2>2. /\ struck' \subseteq Mail /\ faults' \in 0..MaxFaults
        /\ dirty' \in [Tick -> BOOLEAN]
    <3>1. struck \subseteq Mail /\ faults \in 0..MaxFaults /\ dirty \in [Tick -> BOOLEAN]
      BY <1>a DEF TypeOK
    <3>2. /\ faults < MaxFaults /\ faults' = faults + 1
          /\ struck' = struck \union {At(t)}
          /\ dirty' = [dirty EXCEPT ![t] = TRUE]
      BY <1>6 DEF MarkSentFails
    <3> HIDE DEF Mail
    <3>3. struck' \subseteq Mail /\ dirty' \in [Tick -> BOOLEAN]
      BY <2>1, <3>1, <3>2
    <3>4. faults' \in 0..MaxFaults
      BY <3>1, <3>2
    <3> QED BY <3>3, <3>4
  <2>3. /\ pc' \in [Tick -> {"idle", "send", "accepted", "rejected"}]
        /\ \A u \in Tick : pc'[u] = "idle" <=> todo'[u] = {}
    <3>1. /\ pc \in [Tick -> {"idle", "send", "accepted", "rejected"}]
          /\ \A u \in Tick : pc[u] = "idle" <=> todo[u] = {}
      BY <1>a DEF TypeOK
    <3>2. pc' = [pc EXCEPT ![t] = "rejected"] /\ todo' = todo /\ pc[t] = "accepted"
      BY <1>6 DEF MarkSentFails, Goto
    <3> QED BY <3>1, <3>2
  <2>4. UNCHANGED <<queued, status, attempts, todo, copy, sends, delivered, shared>>
    BY <1>6 DEF MarkSentFails
  <2> QED BY <1>a, <2>2, <2>3, <2>4 DEF TypeOK, TypeInv
<1>7. ASSUME NEW t \in Tick, AbortTick(t) PROVE TypeInv'
  <2>1. At(t) \in Mail
    BY <1>a, <1>7, AtInBatch DEF AbortTick
  <2>2. struck' \subseteq Mail
    BY <1>e, <1>7, <2>1 DEF AbortTick
  <2>3. /\ pc' \in [Tick -> {"idle", "send", "accepted", "rejected"}]
        /\ todo' \in [Tick -> SUBSET (1..queued)]
        /\ \A u \in Tick : pc'[u] = "idle" <=> todo'[u] = {}
        /\ dirty' \in [Tick -> BOOLEAN]
    <3>1. /\ pc \in [Tick -> {"idle", "send", "accepted", "rejected"}]
          /\ todo \in [Tick -> SUBSET (1..queued)] /\ dirty \in [Tick -> BOOLEAN]
          /\ \A u \in Tick : pc[u] = "idle" <=> todo[u] = {}
      BY <1>a DEF TypeOK
    <3>2. /\ pc' = [pc EXCEPT ![t] = "idle"] /\ todo' = [todo EXCEPT ![t] = {}]
          /\ dirty' = [dirty EXCEPT ![t] = FALSE]
      BY <1>7 DEF AbortTick, Goto
    <3> QED BY <3>1, <3>2
  <2>4. /\ faults' \in 0..MaxFaults
        /\ UNCHANGED <<queued, status, attempts, copy, sends, delivered, shared>>
    BY <1>e, <1>7 DEF AbortTick
  <2> QED BY <1>a, <2>2, <2>3, <2>4 DEF TypeOK, TypeInv
<1>8. CASE UNCHANGED vars
  BY <1>a, <1>8 DEF vars, TypeOK, TypeInv
<1> QED BY <1>1, <1>2, <1>3, <1>4, <1>5, <1>6, <1>7, <1>8 DEF Next, TickStep

(* Types, and no row pending without attempts to spare.                    *)
THEOREM OutboxTypes == Spec => []TypeOK
<1>1. Init => TypeInv
  BY DEF Init, TypeInv, TypeOK
<1>2. TypeInv => TypeOK
  BY DEF TypeInv
<1> QED BY <1>1, <1>2, TypeStep, PTL DEF Spec
-----------------------------------------------------------------------------
(* No step writes the status pending over one that is settled: only the    *)
(* insert of a new row writes it at all.                                   *)
LEMMA StatusWritten ==
  ASSUME TypeOK, Next, NEW m \in Mail, Settled(m)
  PROVE  status'[m] # "pending"
<1> USE DEF rowVars
<1>0. /\ status \in [Mail -> {"none", "pending", "sent", "failed"}] /\ queued \in Nat
      /\ status[m] = "none" <=> m > queued
  BY DEF TypeOK
<1>1. CASE Enqueue
  BY <1>0, <1>1 DEF Enqueue, Settled
<1>2. ASSUME NEW t \in Tick, MarkSent(t) PROVE status'[m] # "pending"
  BY <1>0, <1>2 DEF MarkSent, Settled
<1>3. ASSUME NEW t \in Tick, MarkFailed(t) PROVE status'[m] # "pending"
  <2>1. status' = [status EXCEPT ![At(t)] = StatusToWrite(t, Tries(t))]
    BY <1>3 DEF MarkFailed
  <2>2. m = At(t) => StatusToWrite(t, Tries(t)) # "pending"
    BY DEF StatusToWrite, Unfailed, Settled
  <2> QED BY <1>0, <2>1, <2>2 DEF Settled
<1>4. UNCHANGED status => status'[m] # "pending"
  BY DEF Settled
<1>5. ASSUME NEW t \in Tick,
             ReadBatch(t) \/ Send(t) \/ SendRejected(t) \/ SendMisreported(t)
               \/ MarkSentFails(t) \/ AbortTick(t)
      PROVE  UNCHANGED status
  BY <1>5 DEF ReadBatch, Send, SendRejected, SendMisreported, CallMailer, MarkSentFails, AbortTick
<1> QED BY <1>1, <1>2, <1>3, <1>4, <1>5 DEF Next, TickStep

(* A settled row is never pending again, whoever still holds a copy of it  *)
(* from when it was (markFailed flushes only what its copy has changed).   *)
THEOREM OutboxSettled == Spec => SettledStays
<1>1. TypeOK /\ [Next]_vars => [\A m \in Mail : Settled(m) => status'[m] # "pending"]_vars
  BY StatusWritten
<1> QED BY <1>1, OutboxTypes, PTL DEF Spec, SettledStays

-----------------------------------------------------------------------------
(* The outcome of a mail. Busy: a tick has sent m and not yet marked it.   *)
Busy(t, m) == pc[t] \in {"accepted", "rejected"} /\ At(t) = m

Calm(m) == m \notin shared \union struck

(* A mail no fault hit and no two ticks had is with one tick at most, whose *)
(* copy is exact, and the count of attempts is the count of failed sends.   *)
Clean(m) ==
    /\ \A t, u \in Tick : m \in todo[t] /\ m \in todo[u] => t = u
    /\ \A t \in Tick : m \in todo[t] => status[m] = "pending" /\ copy[t][m] = attempts[m]
    /\ (status[m] \in {"none", "pending"} /\ \A t \in Tick : ~ Busy(t, m)) =>
           sends[m] = attempts[m] /\ delivered[m] = 0
    /\ \A t \in Tick : Busy(t, m) =>
           /\ sends[m] = attempts[m] + 1
           /\ delivered[m] = IF pc[t] = "accepted" THEN 1 ELSE 0
    /\ status[m] = "sent" => delivered[m] = 1 /\ sends[m] <= MaxAttempts
    /\ status[m] = "failed" => delivered[m] = 0 /\ sends[m] = MaxAttempts

(* Whatever ticks share and faults hit, a status of sent rests on a call   *)
(* that the provider accepted.                                             *)
Told ==
    /\ \A m \in Mail : status[m] = "sent" => delivered[m] > 0
    /\ \A t \in Tick : pc[t] = "accepted" => delivered[At(t)] > 0
    /\ \A t \in Tick : dirty[t] =>
           pc[t] = "rejected" /\ At(t) \in struck /\ delivered[At(t)] > 0

OutcomeInv == TypeInv /\ Told /\ \A m \in Mail : Calm(m) => Clean(m)
LEMMA AtStays ==
  ASSUME NEW u \in Tick, todo'[u] = todo[u]
  PROVE  At(u)' = At(u)
BY DEF At

(* A step that leaves row m, its counts and those at it alone keeps it     *)
(* clean; a tick may let go of it before it sends.                         *)
LEMMA Untouched ==
  ASSUME NEW m \in Mail, Clean(m),
         \A u \in Tick : m \in todo'[u] => m \in todo[u] /\ copy'[u][m] = copy[u][m],
         \A u \in Tick : Busy(u, m)' <=> Busy(u, m),
         \A u \in Tick : Busy(u, m) => pc'[u] = pc[u],
         attempts'[m] = attempts[m], sends'[m] = sends[m], delivered'[m] = delivered[m],
         \/ status'[m] = status[m]
         \/ status[m] = "none" /\ status'[m] = "pending"
  PROVE  Clean(m)'
<1> HIDE DEF Mail
<1>1. \A t, u \in Tick : m \in todo'[t] /\ m \in todo'[u] => t = u
  BY DEF Clean
<1>2. \A t \in Tick : m \in todo'[t] => status'[m] = "pending" /\ copy'[t][m] = attempts'[m]
  BY DEF Clean
<1>3. (status'[m] \in {"none", "pending"} /\ \A t \in Tick : ~ Busy(t, m)') =>
          sends'[m] = attempts'[m] /\ delivered'[m] = 0
  BY DEF Clean
<1>4. \A t \in Tick : Busy(t, m)' =>
          /\ sends'[m] = attempts'[m] + 1
          /\ delivered'[m] = IF pc'[t] = "accepted" THEN 1 ELSE 0
  BY DEF Clean
<1>5. /\ status'[m] = "sent" => delivered'[m] = 1 /\ sends'[m] <= MaxAttempts
      /\ status'[m] = "failed" => delivered'[m] = 0 /\ sends'[m] = MaxAttempts
  BY DEF Clean
<1> QED BY <1>1, <1>2, <1>3, <1>4, <1>5 DEF Clean

(* A tick that is at a mail holds it, and no other tick is busy with a     *)
(* clean one.                                                              *)
LEMMA OneHolder ==
  ASSUME TypeOK, NEW m \in Mail, Clean(m), NEW t \in Tick, pc[t] # "idle", At(t) = m
  PROVE  /\ m \in todo[t] /\ status[m] = "pending" /\ copy[t][m] = attempts[m]
         /\ \A u \in Tick \ {t} : m \notin todo[u] /\ ~ Busy(u, m)
<1>1. m \in todo[t]
  BY AtInBatch
<1>2. \A u \in Tick : Busy(u, m) => m \in todo[u]
  BY AtInBatch DEF Busy
<1> QED BY <1>1, <1>2 DEF Clean

(* The tick ends with m, whose row then says what came of it.              *)
LEMMA Finished ==
  ASSUME TypeOK, NEW t \in Tick, pc[t] # "idle", Finish(t), NEW m \in Mail
  PROVE  /\ \A u \in Tick : m \in todo'[u] => m \in todo[u] /\ copy'[u][m] = copy[u][m]
         /\ At(t) = m => m \notin todo'[t]
         /\ ~ Busy(t, m)'
         /\ \A u \in Tick \ {t} : (Busy(u, m)' <=> Busy(u, m)) /\ pc'[u] = pc[u]
                                    /\ todo'[u] = todo[u]
<1> HIDE DEF Mail
<1>1. /\ copy' = copy /\ pc'[t] \in {"idle", "send"} /\ todo'[t] = todo[t] \ {At(t)}
      /\ \A u \in Tick \ {t} : pc'[u] = pc[u] /\ todo'[u] = todo[u]
  BY FinishType
<1>2. \A u \in Tick \ {t} : At(u)' = At(u)
  BY <1>1, AtStays
<1>3. ~ Busy(t, m)'
  BY <1>1 DEF Busy
<1>4. \A u \in Tick \ {t} : Busy(u, m)' <=> Busy(u, m)
  BY <1>1, <1>2 DEF Busy
<1> QED BY <1>1, <1>3, <1>4

LEMMA CleanMarkSent ==
  ASSUME TypeInv, NEW t \in Tick, MarkSent(t), NEW m \in Mail, Clean(m)
  PROVE  Clean(m)'
<1> USE DEF historyVars
<1>0. TypeOK /\ pc[t] = "accepted" /\ pc[t] # "idle" /\ Finish(t) /\ At(t) \in Mail
  BY AtInBatch DEF TypeInv, MarkSent
<1>1. /\ status \in [Mail -> {"none", "pending", "sent", "failed"}]
      /\ attempts[m] \in 0..MaxAttempts /\ sends[m] \in Nat
  BY <1>0 DEF TypeOK
<1>2. /\ status' = [status EXCEPT ![At(t)] = "sent"]
      /\ attempts' = attempts /\ sends' = sends /\ delivered' = delivered
  BY DEF MarkSent
<1>3. /\ \A u \in Tick : m \in todo'[u] => m \in todo[u] /\ copy'[u][m] = copy[u][m]
      /\ At(t) = m => m \notin todo'[t]
      /\ ~ Busy(t, m)'
      /\ \A u \in Tick \ {t} : (Busy(u, m)' <=> Busy(u, m)) /\ pc'[u] = pc[u]
                                 /\ todo'[u] = todo[u]
  BY <1>0, Finished
<1> HIDE DEF Mail
<1>4. CASE At(t) # m
  <2>1. \A u \in Tick : (Busy(u, m)' <=> Busy(u, m)) /\ (Busy(u, m) => pc'[u] = pc[u])
    BY <1>3, <1>4 DEF Busy
  <2>2. status'[m] = status[m]
    BY <1>0, <1>1, <1>2, <1>4
  <2> QED BY <1>2, <1>3, <2>1, <2>2, Untouched
<1>5. CASE At(t) = m
  <2>1. \A u \in Tick : m \notin todo'[u] /\ ~ Busy(u, m)'
    BY <1>0, <1>3, <1>5, OneHolder
  <2>2. sends[m] = attempts[m] + 1 /\ delivered[m] = 1 /\ status[m] = "pending"
    BY <1>0, <1>5, OneHolder DEF Clean, Busy
  <2>3. status'[m] = "sent"
    BY <1>0, <1>1, <1>2, <1>5
  <2>4. sends[m] <= MaxAttempts
    BY <1>1, <2>2 DEF TypeInv
  <2> QED BY <1>2, <2>1, <2>2, <2>3, <2>4 DEF Clean
<1> QED BY <1>4, <1>5

LEMMA CleanMarkFailed ==
  ASSUME TypeInv, Told, NEW t \in Tick, MarkFailed(t), NEW m \in Mail, Clean(m), Calm(m)
  PROVE  Clean(m)'
<1> USE DEF historyVars
<1>0. TypeOK /\ pc[t] = "rejected" /\ pc[t] # "idle" /\ Finish(t) /\ At(t) \in Mail
  BY AtInBatch DEF TypeInv, MarkFailed
<1>1. /\ status \in [Mail -> {"none", "pending", "sent", "failed"}]
      /\ attempts \in [Mail -> 0..MaxAttempts] /\ sends[m] \in Nat
  BY <1>0 DEF TypeOK
<1>2. /\ status' = [status EXCEPT ![At(t)] = StatusToWrite(t, Tries(t))]
      /\ attempts' = [attempts EXCEPT ![At(t)] = Tries(t)]
      /\ sends' = sends /\ delivered' = delivered
  BY DEF MarkFailed
<1>3. /\ \A u \in Tick : m \in todo'[u] => m \in todo[u] /\ copy'[u][m] = copy[u][m]
      /\ At(t) = m => m \notin todo'[t]
      /\ ~ Busy(t, m)'
      /\ \A u \in Tick \ {t} : (Busy(u, m)' <=> Busy(u, m)) /\ pc'[u] = pc[u]
                                 /\ todo'[u] = todo[u]
  BY <1>0, Finished
<1> HIDE DEF Mail
<1>4. CASE At(t) # m
  <2>1. \A u \in Tick : (Busy(u, m)' <=> Busy(u, m)) /\ (Busy(u, m) => pc'[u] = pc[u])
    BY <1>3, <1>4 DEF Busy
  <2>2. status'[m] = status[m] /\ attempts'[m] = attempts[m]
    BY <1>0, <1>1, <1>2, <1>4
  <2> QED BY <1>2, <1>3, <2>1, <2>2, Untouched
<1>5. CASE At(t) = m
  <2>1. \A u \in Tick : m \notin todo'[u] /\ ~ Busy(u, m)'
    BY <1>0, <1>3, <1>5, OneHolder
  <2>2. /\ sends[m] = attempts[m] + 1 /\ delivered[m] = 0 /\ status[m] = "pending"
        /\ copy[t][m] = attempts[m]
    BY <1>0, <1>5, OneHolder DEF Clean, Busy
  <2>3. ~ dirty[t]
    BY <1>5 DEF Told, Calm
  <2>4. Tries(t) = attempts[m] + 1
    BY <1>5, <2>2 DEF Tries
  <2>5. status'[m] = IF attempts[m] + 1 >= MaxAttempts THEN "failed" ELSE "pending"
    BY <1>0, <1>1, <1>2, <1>5, <2>2, <2>3, <2>4 DEF StatusToWrite, Unfailed
  <2>6. attempts'[m] = attempts[m] + 1
    BY <1>0, <1>1, <1>2, <1>5, <2>4
  <2>7. attempts[m] < MaxAttempts /\ attempts[m] \in Nat
    BY <1>1, <2>2 DEF TypeInv
  <2>8. status'[m] = "failed" => sends[m] = MaxAttempts
    BY <2>2, <2>5, <2>7
  <2> QED BY <1>2, <2>1, <2>2, <2>5, <2>6, <2>8 DEF Clean
<1> QED BY <1>4, <1>5
LEMMA CleanSend ==
  ASSUME TypeInv, NEW t \in Tick, Send(t) \/ SendRejected(t) \/ SendMisreported(t),
         NEW m \in Mail, Clean(m), Calm(m)'
  PROVE  Clean(m)'
<1> USE DEF rowVars
<1>0. TypeOK /\ pc[t] = "send" /\ pc[t] # "idle" /\ At(t) \in Mail
  BY AtInBatch DEF TypeInv, Send, SendRejected, SendMisreported, CallMailer
<1>1. /\ pc \in [Tick -> {"idle", "send", "accepted", "rejected"}]
      /\ sends \in [Mail -> Nat] /\ delivered \in [Mail -> Nat] /\ attempts[m] \in 0..MaxAttempts
  BY <1>0 DEF TypeOK
<1>2. PICK to \in {"accepted", "rejected"} :
        /\ CallMailer(t, to)
        /\ \/ to = "accepted" /\ delivered' = [delivered EXCEPT ![At(t)] = @ + 1]
           \/ to = "rejected" /\ delivered' = delivered
           \/ delivered' = [delivered EXCEPT ![At(t)] = @ + 1] /\ At(t) \in struck'
  BY DEF Send, SendRejected, SendMisreported
<1>3. /\ sends' = [sends EXCEPT ![At(t)] = @ + 1] /\ pc' = [pc EXCEPT ![t] = to]
      /\ status' = status /\ attempts' = attempts /\ todo' = todo /\ copy' = copy
  BY <1>2 DEF CallMailer, Goto
<1>4. /\ \A u \in Tick : At(u)' = At(u)
      /\ \A u \in Tick \ {t} : pc'[u] = pc[u]
      /\ pc'[t] = to
  BY <1>1, <1>3, AtStays
<1>5. \A u \in Tick \ {t} : Busy(u, m)' <=> Busy(u, m)
  BY <1>4 DEF Busy
<1> HIDE DEF Mail
<1>6. CASE At(t) # m
  <2>1. sends'[m] = sends[m] /\ delivered'[m] = delivered[m]
    BY <1>0, <1>1, <1>2, <1>3, <1>6
  <2>2. ~ Busy(t, m) /\ ~ Busy(t, m)'
    BY <1>4, <1>6 DEF Busy
  <2>3. \A u \in Tick : (Busy(u, m)' <=> Busy(u, m)) /\ (Busy(u, m) => pc'[u] = pc[u])
    BY <1>4, <1>5, <2>2
  <2> QED BY <1>3, <2>1, <2>3, Untouched
<1>7. CASE At(t) = m
  <2>1. /\ m \in todo[t] /\ status[m] = "pending"
        /\ \A u \in Tick \ {t} : m \notin todo[u] /\ ~ Busy(u, m)
    BY <1>0, <1>7, OneHolder
  <2>2. ~ Busy(t, m)
    BY <1>0 DEF Busy
  <2>3. sends[m] = attempts[m] /\ delivered[m] = 0
    BY <2>1, <2>2 DEF Clean
  <2>4. sends'[m] = attempts[m] + 1
    BY <1>0, <1>1, <1>3, <1>7, <2>3
  <2>5. delivered'[m] = IF to = "accepted" THEN 1 ELSE 0
    <3>1. At(t) \notin struck'
      BY <1>7 DEF Calm
    <3> QED BY <1>0, <1>1, <1>2, <1>7, <2>3, <3>1
  <2>6. Busy(t, m)' /\ \A u \in Tick : Busy(u, m)' => u = t
    BY <1>4, <1>5, <1>7, <2>1 DEF Busy
  <2>7. \A u \in Tick : m \in todo'[u] =>
           u = t /\ status'[m] = "pending" /\ copy'[u][m] = attempts'[m]
    BY <1>3, <2>1 DEF Clean
  <2> QED BY <1>3, <1>4, <2>1, <2>4, <2>5, <2>6, <2>7 DEF Clean
<1> QED BY <1>6, <1>7

(* A flush that fails or a tick that dies after the send strikes its mail. *)
LEMMA CleanFault ==
  ASSUME TypeInv, NEW t \in Tick, MarkSentFails(t) \/ AbortTick(t),
         NEW m \in Mail, Clean(m), Calm(m)'
  PROVE  Clean(m)'
<1> USE DEF rowVars
<1>0. /\ pc \in [Tick -> {"idle", "send", "accepted", "rejected"}]
      /\ todo \in [Tick -> SUBSET (1..queued)]
  BY DEF TypeInv, TypeOK
<1>1. /\ status' = status /\ attempts' = attempts /\ copy' = copy
      /\ sends' = sends /\ delivered' = delivered
  BY DEF MarkSentFails, AbortTick
<1>2. ~ Busy(t, m)
  BY DEF Busy, Calm, MarkSentFails, AbortTick
<1>3. \A u \in Tick \ {t} : pc'[u] = pc[u] /\ todo'[u] = todo[u]
  BY <1>0 DEF MarkSentFails, AbortTick, Goto
<1>4. todo'[t] \subseteq todo[t]
  BY <1>0 DEF MarkSentFails, AbortTick
<1>5. ~ Busy(t, m)'
  <2>1. CASE MarkSentFails(t)
    <3>1. At(t)' = At(t) /\ At(t) # m
      BY <2>1, AtStays DEF MarkSentFails, Calm
    <3> QED BY <3>1 DEF Busy
  <2>2. CASE AbortTick(t)
    <3>1. pc'[t] = "idle"
      BY <1>0, <2>2 DEF AbortTick, Goto
    <3> QED BY <3>1 DEF Busy
  <2> QED BY <2>1, <2>2
<1>6. \A u \in Tick \ {t} : At(u)' = At(u)
  BY <1>3, AtStays
<1>7. \A u \in Tick : (Busy(u, m)' <=> Busy(u, m)) /\ (Busy(u, m) => pc'[u] = pc[u])
  BY <1>2, <1>3, <1>5, <1>6 DEF Busy
<1>8. \A u \in Tick : m \in todo'[u] => m \in todo[u] /\ copy'[u][m] = copy[u][m]
  BY <1>1, <1>3, <1>4
<1> QED BY <1>1, <1>7, <1>8, Untouched

LEMMA CleanReadBatch ==
  ASSUME TypeInv, NEW t \in Tick, ReadBatch(t), NEW m \in Mail, Clean(m), Calm(m)'
  PROVE  Clean(m)'
<1> USE DEF rowVars
<1> DEFINE batch == Oldest(Pending)
<1>0. /\ pc \in [Tick -> {"idle", "send", "accepted", "rejected"}]
      /\ todo \in [Tick -> SUBSET (1..queued)]
      /\ copy \in [Tick -> [Mail -> 0..(MaxAttempts - 1)]]
  BY DEF TypeInv, TypeOK
<1>1. batch \subseteq Pending
  BY BatchNotEmpty DEF ReadBatch, Pending
<1> HIDE DEF batch
<1>2. /\ pc[t] = "idle" /\ pc' = [pc EXCEPT ![t] = "send"]
      /\ todo' = [todo EXCEPT ![t] = batch]
      /\ copy' = [copy EXCEPT ![t] = [n \in Mail |-> IF n \in batch THEN attempts[n] ELSE 0]]
      /\ shared' = shared \union (batch \cap UNION {todo[u] : u \in Tick \ {t}})
      /\ status' = status /\ attempts' = attempts /\ sends' = sends /\ delivered' = delivered
  BY DEF ReadBatch, Goto, batch
<1>3. /\ \A u \in Tick \ {t} : pc'[u] = pc[u] /\ todo'[u] = todo[u] /\ copy'[u] = copy[u]
      /\ pc'[t] = "send" /\ todo'[t] = batch
  BY <1>0, <1>2
<1>4. m \in batch => \A u \in Tick \ {t} : m \notin todo[u]
  BY <1>2 DEF Calm
<1>5. m \in batch => status[m] = "pending" /\ copy'[t][m] = attempts[m]
  <2>1. copy'[t] = [n \in Mail |-> IF n \in batch THEN attempts[n] ELSE 0]
    BY <1>0, <1>2
  <2> HIDE DEF Mail
  <2> QED BY <1>1, <2>1 DEF Pending
<1> HIDE DEF Mail
<1>6. \A u \in Tick : (Busy(u, m)' <=> Busy(u, m)) /\ (Busy(u, m) => pc'[u] = pc[u])
  <2>1. \A u \in Tick \ {t} : At(u)' = At(u)
    BY <1>3, AtStays
  <2>2. ~ Busy(t, m) /\ ~ Busy(t, m)'
    BY <1>2, <1>3 DEF Busy
  <2> QED BY <1>3, <2>1, <2>2 DEF Busy
<1>7. \A u, v \in Tick : m \in todo'[u] /\ m \in todo'[v] => u = v
  BY <1>3, <1>4 DEF Clean
<1>8. \A u \in Tick : m \in todo'[u] => status'[m] = "pending" /\ copy'[u][m] = attempts'[m]
  BY <1>2, <1>3, <1>5 DEF Clean
<1>9. (status'[m] \in {"none", "pending"} /\ \A u \in Tick : ~ Busy(u, m)') =>
          sends'[m] = attempts'[m] /\ delivered'[m] = 0
  BY <1>2, <1>6 DEF Clean
<1>10. \A u \in Tick : Busy(u, m)' =>
          /\ sends'[m] = attempts'[m] + 1
          /\ delivered'[m] = IF pc'[u] = "accepted" THEN 1 ELSE 0
  BY <1>2, <1>6 DEF Clean
<1>11. /\ status'[m] = "sent" => delivered'[m] = 1 /\ sends'[m] <= MaxAttempts
       /\ status'[m] = "failed" => delivered'[m] = 0 /\ sends'[m] = MaxAttempts
  BY <1>2 DEF Clean
<1> QED BY <1>7, <1>8, <1>9, <1>10, <1>11 DEF Clean

LEMMA CleanEnqueue ==
  ASSUME TypeInv, Enqueue, NEW m \in Mail, Clean(m)
  PROVE  Clean(m)'
<1> USE DEF tickVars, historyVars
<1>0. /\ status \in [Mail -> {"none", "pending", "sent", "failed"}]
      /\ queued \in Nat /\ \A n \in Mail : status[n] = "none" <=> n > queued
  BY DEF TypeInv, TypeOK
<1>1. /\ status' = [status EXCEPT ![queued + 1] = "pending"]
      /\ queued < MaxMails
      /\ UNCHANGED <<attempts, pc, todo, copy, sends, delivered>>
  BY DEF Enqueue
<1>2. queued + 1 \in Mail /\ status[queued + 1] = "none"
  BY <1>0, <1>1
<1> HIDE DEF Mail
<1>3. status'[m] = status[m] \/ (status[m] = "none" /\ status'[m] = "pending")
  BY <1>0, <1>1, <1>2
<1>4. \A u \in Tick : At(u)' = At(u)
  BY <1>1, AtStays
<1>5. \A u \in Tick : Busy(u, m)' <=> Busy(u, m)
  BY <1>1, <1>4 DEF Busy
<1> QED BY <1>1, <1>3, <1>5, Untouched
LEMMA ToldStep == TypeInv /\ Told /\ [Next]_vars => Told'
<1> SUFFICES ASSUME TypeInv, Told, [Next]_vars PROVE Told'
  OBVIOUS
<1> USE DEF rowVars, tickVars, historyVars
<1>0. /\ TypeOK
      /\ status \in [Mail -> {"none", "pending", "sent", "failed"}] /\ queued \in Nat
      /\ pc \in [Tick -> {"idle", "send", "accepted", "rejected"}]
      /\ dirty \in [Tick -> BOOLEAN] /\ delivered \in [Mail -> Nat]
      /\ \A u \in Tick : pc[u] # "idle" => At(u) \in Mail
  <2>1. TypeOK
    BY DEF TypeInv
  <2>2. \A u \in Tick : pc[u] # "idle" => At(u) \in Mail
    BY <2>1, AtInBatch
  <2>3. /\ status \in [Mail -> {"none", "pending", "sent", "failed"}] /\ queued \in 0..MaxMails
        /\ pc \in [Tick -> {"idle", "send", "accepted", "rejected"}]
        /\ dirty \in [Tick -> BOOLEAN] /\ delivered \in [Mail -> Nat]
    BY <2>1 DEF TypeOK
  <2> QED BY <2>1, <2>2, <2>3
<1>. HIDE DEF Mail
<1>t. /\ \A m \in Mail : status[m] = "sent" => delivered[m] > 0
      /\ \A u \in Tick : pc[u] = "accepted" => delivered[At(u)] > 0
      /\ \A u \in Tick : dirty[u] =>
             pc[u] = "rejected" /\ At(u) \in struck /\ delivered[At(u)] > 0
  BY DEF Told
(* Enough: no count of deliveries goes down, no other tick moves, and what *)
(* the tick itself has come to is borne out.                               *)
<1>w. ASSUME NEW t \in Tick,
             \A m \in Mail : delivered'[m] \in Nat /\ delivered'[m] >= delivered[m],
             struck \subseteq struck',
             \A u \in Tick \ {t} : pc'[u] = pc[u] /\ todo'[u] = todo[u] /\ dirty'[u] = dirty[u],
             \A m \in Mail : status'[m] = "sent" => delivered'[m] > 0,
             pc'[t] = "accepted" => delivered'[At(t)'] > 0,
             dirty'[t] => pc'[t] = "rejected" /\ At(t)' \in struck' /\ delivered'[At(t)'] > 0
      PROVE  Told'
  <2>1. \A u \in Tick \ {t} : At(u)' = At(u)
    BY <1>w, AtStays
  <2>2. \A u \in Tick \ {t} : pc[u] # "idle" => delivered'[At(u)] >= delivered[At(u)]
                                /\ delivered'[At(u)] \in Nat /\ delivered[At(u)] \in Nat
    BY <1>0, <1>w
  <2>3. \A u \in Tick \ {t} : pc'[u] = "accepted" => delivered'[At(u)'] > 0
    BY <1>t, <1>w, <2>1, <2>2
  <2>4. \A u \in Tick \ {t} : dirty'[u] =>
            pc'[u] = "rejected" /\ At(u)' \in struck' /\ delivered'[At(u)'] > 0
    BY <1>t, <1>w, <2>1, <2>2
  <2> QED BY <1>w, <2>3, <2>4 DEF Told
<1>1. CASE Enqueue
  <2>1. /\ status' = [status EXCEPT ![queued + 1] = "pending"]
        /\ UNCHANGED <<pc, todo, dirty, delivered, struck>>
    BY <1>1 DEF Enqueue
  <2>2. \A m \in Mail : status'[m] = "sent" => status[m] = "sent"
    BY <1>0, <2>1
  <2>3. \A u \in Tick : At(u)' = At(u)
    BY <2>1, AtStays
  <2> QED BY <1>t, <2>1, <2>2, <2>3 DEF Told
<1>2. ASSUME NEW t \in Tick, ReadBatch(t) PROVE Told'
  <2>1. /\ pc' = [pc EXCEPT ![t] = "send"] /\ pc[t] = "idle"
        /\ \A u \in Tick \ {t} : todo'[u] = todo[u]
        /\ UNCHANGED <<status, dirty, delivered, struck>>
    BY <1>2 DEF ReadBatch, Goto, TypeInv, TypeOK
  <2>2. /\ \A u \in Tick \ {t} : pc'[u] = pc[u]
        /\ pc'[t] = "send" /\ ~ dirty'[t]
    BY <1>0, <1>t, <2>1
  <2>3. \A m \in Mail : delivered'[m] \in Nat /\ delivered'[m] >= delivered[m]
    BY <1>0, <2>1
  <2> QED BY <1>t, <1>w, <2>1, <2>2, <2>3
<1>3. ASSUME NEW t \in Tick, Send(t) \/ SendRejected(t) \/ SendMisreported(t) PROVE Told'
  <2>1. PICK to \in {"accepted", "rejected"} :
          /\ CallMailer(t, to)
          /\ \/ delivered' = [delivered EXCEPT ![At(t)] = @ + 1]
             \/ to = "rejected" /\ delivered' = delivered
          /\ struck \subseteq struck'
    BY <1>3 DEF Send, SendRejected, SendMisreported
  <2>2. /\ pc[t] = "send" /\ pc' = [pc EXCEPT ![t] = to]
        /\ UNCHANGED <<status, todo, dirty>>
    BY <2>1 DEF CallMailer, Goto
  <2>3. /\ \A u \in Tick \ {t} : pc'[u] = pc[u]
        /\ pc'[t] = to /\ ~ dirty'[t] /\ At(t)' = At(t) /\ At(t) \in Mail
    BY <1>0, <1>t, <2>2, AtStays
  <2>4. \A m \in Mail : delivered'[m] \in Nat /\ delivered'[m] >= delivered[m]
    BY <1>0, <2>1, <2>3
  <2>5. pc'[t] = "accepted" => delivered'[At(t)'] > 0
    BY <1>0, <2>1, <2>3
  <2>6. \A m \in Mail : status'[m] = "sent" => delivered'[m] > 0
    BY <1>0, <1>t, <2>2, <2>4
  <2> QED BY <1>w, <2>1, <2>2, <2>3, <2>4, <2>5, <2>6
<1>4. ASSUME NEW t \in Tick, MarkSent(t) \/ MarkFailed(t) PROVE Told'
  <2>1. /\ pc[t] \in {"accepted", "rejected"} /\ pc[t] # "idle" /\ Finish(t) /\ At(t) \in Mail
        /\ UNCHANGED <<delivered, struck>>
    BY <1>0, <1>4 DEF MarkSent, MarkFailed
  <2>2. /\ \A u \in Tick \ {t} : pc'[u] = pc[u] /\ todo'[u] = todo[u] /\ dirty'[u] = dirty[u]
        /\ pc'[t] \in {"idle", "send"} /\ ~ dirty'[t]
    BY <1>0, <2>1, FinishType
  <2>3. \A m \in Mail : delivered'[m] \in Nat /\ delivered'[m] >= delivered[m]
    BY <1>0, <2>1
  <2>4. \A m \in Mail : m # At(t) => status'[m] = status[m]
    BY <1>0, <1>4, <2>1 DEF MarkSent, MarkFailed
  <2>5. status'[At(t)] = "sent" => delivered[At(t)] > 0
    <3>1. CASE MarkSent(t)
      BY <1>t, <3>1 DEF MarkSent
    <3>2. CASE MarkFailed(t)
      <4>1. status'[At(t)] = StatusToWrite(t, Tries(t))
        BY <1>0, <2>1, <3>2 DEF MarkFailed
      <4> QED BY <1>t, <2>1, <4>1 DEF StatusToWrite, Unfailed
    <3> QED BY <1>4, <3>1, <3>2
  <2>6. \A m \in Mail : status'[m] = "sent" => delivered'[m] > 0
    BY <1>t, <2>1, <2>4, <2>5
  <2> QED BY <1>w, <2>1, <2>2, <2>3, <2>6
<1>5. ASSUME NEW t \in Tick, MarkSentFails(t) PROVE Told'
  <2>1. /\ pc[t] = "accepted" /\ pc' = [pc EXCEPT ![t] = "rejected"]
        /\ dirty' = [dirty EXCEPT ![t] = TRUE]
        /\ struck' = struck \union {At(t)}
        /\ UNCHANGED <<status, todo, delivered>>
    BY <1>5 DEF MarkSentFails, Goto
  <2>2. /\ \A u \in Tick \ {t} : pc'[u] = pc[u] /\ dirty'[u] = dirty[u]
        /\ pc'[t] = "rejected" /\ At(t)' = At(t)
    BY <1>0, <2>1, AtStays
  <2>3. \A m \in Mail : delivered'[m] \in Nat /\ delivered'[m] >= delivered[m]
    BY <1>0, <2>1
  <2>4. delivered'[At(t)'] > 0 /\ At(t)' \in struck'
    BY <1>t, <2>1, <2>2
  <2> QED BY <1>t, <1>w, <2>1, <2>2, <2>3, <2>4
<1>6. ASSUME NEW t \in Tick, AbortTick(t) PROVE Told'
  <2>1. /\ pc' = [pc EXCEPT ![t] = "idle"]
        /\ dirty' = [dirty EXCEPT ![t] = FALSE]
        /\ struck \subseteq struck'
        /\ \A u \in Tick \ {t} : todo'[u] = todo[u]
        /\ UNCHANGED <<status, delivered>>
    BY <1>6 DEF AbortTick, Goto, TypeInv, TypeOK
  <2>2. /\ \A u \in Tick \ {t} : pc'[u] = pc[u] /\ dirty'[u] = dirty[u]
        /\ pc'[t] = "idle" /\ ~ dirty'[t]
    BY <1>0, <2>1
  <2>3. \A m \in Mail : delivered'[m] \in Nat /\ delivered'[m] >= delivered[m]
    BY <1>0, <2>1
  <2> QED BY <1>t, <1>w, <2>1, <2>2, <2>3
<1>7. CASE UNCHANGED vars
  <2>1. \A u \in Tick : At(u)' = At(u)
    BY <1>7, AtStays DEF vars
  <2> QED BY <1>t, <1>7, <2>1 DEF vars, Told
<1> QED BY <1>1, <1>2, <1>3, <1>4, <1>5, <1>6, <1>7 DEF Next, TickStep

LEMMA OutcomeStep == OutcomeInv /\ [Next]_vars => OutcomeInv'
<1> SUFFICES ASSUME OutcomeInv, [Next]_vars PROVE OutcomeInv'
  OBVIOUS
<1>1. TypeInv' /\ Told'
  BY TypeStep, ToldStep DEF OutcomeInv
<1>2. ASSUME NEW m \in Mail, Calm(m)' PROVE Clean(m)'
  <2>1. Calm(m)
    BY <1>2 DEF Calm, Next, TickStep, Enqueue, ReadBatch, Send, SendRejected, SendMisreported,
                CallMailer, MarkSent, MarkFailed, MarkSentFails, AbortTick, historyVars, vars
  <2>2. TypeInv /\ Told /\ Clean(m)
    BY <2>1 DEF OutcomeInv
  <2>3. CASE Enqueue
    BY <2>2, <2>3, CleanEnqueue
  <2>4. ASSUME NEW t \in Tick, ReadBatch(t) PROVE Clean(m)'
    BY <1>2, <2>2, <2>4, CleanReadBatch
  <2>5. ASSUME NEW t \in Tick, Send(t) \/ SendRejected(t) \/ SendMisreported(t) PROVE Clean(m)'
    BY <1>2, <2>2, <2>5, CleanSend
  <2>6. ASSUME NEW t \in Tick, MarkSent(t) PROVE Clean(m)'
    BY <2>2, <2>6, CleanMarkSent
  <2>7. ASSUME NEW t \in Tick, MarkFailed(t) PROVE Clean(m)'
    BY <2>1, <2>2, <2>7, CleanMarkFailed
  <2>8. ASSUME NEW t \in Tick, MarkSentFails(t) \/ AbortTick(t) PROVE Clean(m)'
    BY <1>2, <2>2, <2>8, CleanFault
  <2>9. CASE UNCHANGED vars
    <3>1. \A u \in Tick : At(u)' = At(u)
      BY <2>9, AtStays DEF vars, tickVars
    <3>2. /\ \A u \in Tick : Busy(u, m)' <=> Busy(u, m)
          /\ \A u \in Tick : m \in todo'[u] => m \in todo[u] /\ copy'[u][m] = copy[u][m]
          /\ \A u \in Tick : Busy(u, m) => pc'[u] = pc[u]
          /\ attempts'[m] = attempts[m] /\ sends'[m] = sends[m]
          /\ delivered'[m] = delivered[m] /\ status'[m] = status[m]
      BY <2>9, <3>1 DEF vars, rowVars, tickVars, historyVars, Busy
    <3> QED BY <2>2, <3>2, Untouched
  <2> QED BY <2>3, <2>4, <2>5, <2>6, <2>7, <2>8, <2>9 DEF Next, TickStep
<1> QED BY <1>1, <1>2 DEF OutcomeInv

LEMMA OutcomeInit == Init => OutcomeInv
<1> SUFFICES ASSUME Init PROVE OutcomeInv
  OBVIOUS
<1>1. TypeInv
  BY DEF Init, TypeInv, TypeOK
<1>2. Told
  BY DEF Init, Told
<1>3. \A m \in Mail : Clean(m)
  BY DEF Init, Clean, Busy
<1> QED BY <1>1, <1>2, <1>3 DEF OutcomeInv

(* A row that says sent went out; one that says failed was tried           *)
(* max_attempts times without going out, unless ticks shared it or a fault *)
(* hit (email-outbox.processor.ts's try and catch over one row).           *)
THEOREM OutboxOutcomes == Spec => []OutcomeTruthful
<1>1. OutcomeInv => OutcomeTruthful
  <2> SUFFICES ASSUME OutcomeInv, NEW m \in Mail
               PROVE  /\ status[m] = "sent" => delivered[m] > 0
                      /\ status[m] = "failed" /\ Calm(m) =>
                             delivered[m] = 0 /\ sends[m] = MaxAttempts
    BY DEF OutcomeTruthful, Calm
  <2>1. status[m] = "sent" => delivered[m] > 0
    BY DEF OutcomeInv, Told
  <2>2. Calm(m) => Clean(m)
    BY DEF OutcomeInv
  <2> QED BY <2>1, <2>2 DEF Clean
<1> QED BY <1>1, OutcomeInit, OutcomeStep, PTL DEF Spec

(* A mail that one tick at a time had, and that no fault hit, reaches its  *)
(* address at most once in at most max_attempts calls of sendMail.         *)
THEOREM OutboxDeliveredOnce == Spec => []DeliveredOnce
<1>1. OutcomeInv => DeliveredOnce
  <2> SUFFICES ASSUME OutcomeInv, NEW m \in Mail, Calm(m)
               PROVE  delivered[m] <= 1 /\ sends[m] <= MaxAttempts
    BY DEF DeliveredOnce, Calm
  <2>1. /\ Clean(m) /\ attempts[m] \in 0..MaxAttempts /\ sends[m] \in Nat
        /\ status[m] \in {"none", "pending", "sent", "failed"}
        /\ status[m] \in {"none", "pending"} => attempts[m] < MaxAttempts
    BY DEF OutcomeInv, TypeInv, TypeOK
  <2>2. CASE \E t \in Tick : Busy(t, m)
    <3>1. PICK t \in Tick : Busy(t, m)
      BY <2>2
    <3>2. status[m] = "pending"
      BY <2>1, <3>1, OneHolder DEF Busy, OutcomeInv, TypeInv
    <3> QED BY <2>1, <3>1, <3>2 DEF Clean
  <2>3. CASE ~ \E t \in Tick : Busy(t, m)
    BY <2>1, <2>3 DEF Clean
  <2> QED BY <2>2, <2>3
<1> QED BY <1>1, OutcomeInit, OutcomeStep, PTL DEF Spec
=============================================================================
