--------------------------- MODULE WebhookDelivery ---------------------------
(***************************************************************************)
(* Forwarding and retrying together: a webhook from its arrival to the end *)
(* of its retry. ForwardFailedEvent leads from the one to the other, and a *)
(* deletion reaches into both.                                             *)
(***************************************************************************)
EXTENDS RequestForwarding

CONSTANTS Worker, Handler, MaxRuns, MaxEdits, MaxFaults

ASSUME DeliveryAssumption == MaxRuns \in Nat /\ MaxEdits \in Nat /\ MaxFaults \in Nat

VARIABLES
    status, attempts, edits, queue, listener, handler, pc, job, base, seen,
    answer, alerted, sends, dropped, wasted, runs, faults,
    unheard     (* history: requests whose ForwardFailedEvent a fault ate  *)

(* RetryLifecycle starts with every request there is; of one that is yet   *)
(* to arrive it sees nothing.                                              *)
Retry == INSTANCE RetryLifecycle WITH stored <- Request \ Gone

retryVars == <<status, attempts, edits, queue, listener, handler, pc, job, base, seen,
               answer, alerted, sends, dropped, wasted, runs, faults>>

deliveryVars == <<forwardVars, retryVars, unheard>>

DeliveryInit == Init /\ Retry!Init /\ unheard = {}

(* An action of the one half alone.                                        *)
ForwardingAlone == ForwardingStep /\ UNCHANGED <<retryVars, unheard>>

RetryAlone(A) == UNCHANGED <<forwardVars, unheard>> /\ A

(* ForwardFailedListener hears of a request whose forward failed.          *)
Hear(r) ==
    /\ r \in announced \ unheard
    /\ RetryAlone(Retry!CreateRetry(r))

(* The process dies, or Postgres rejects the insert, before the row of the *)
(* retry is there. Nothing publishes the event a second time.              *)
LoseEvent(r) ==
    /\ r \in announced \ unheard
    /\ status[r] = "none"
    /\ unheard' = unheard \union {r}
    /\ UNCHANGED <<forwardVars, retryVars>>

RetryStep ==
    \/ \E r \in Request : RetryAlone(\/ Retry!ScheduleFirst(r)
                                     \/ Retry!UpdateRetryPayload(r)
                                     \/ Retry!LoseFirstSchedule(r))
    \/ \E h \in Handler : RetryAlone(Retry!HandlerStep(h))
    \/ \E w \in Worker : \/ \E j \in Retry!Job : RetryAlone(Retry!StartJob(w, j))
                         \/ RetryAlone(Retry!WorkerStep(w))
                         \/ RetryAlone(Retry!CrashWorker(w))
                         \/ RetryAlone(Retry!FailJob(w))

(* The foreign key carries a deletion from the requests to the retries; a  *)
(* key without the cascade would leave them behind.                        *)
DeleteWithoutCascade(gone) == DeleteRequests(gone) /\ UNCHANGED <<retryVars, unheard>>
Delete(gone) == DeleteRequests(gone) /\ Retry!DeleteRequests(gone) /\ UNCHANGED unheard

DeleteAll ==
    /\ DeleteEndpoint
    /\ \/ requests = {} /\ UNCHANGED retryVars
       \/ Retry!DeleteRequests(requests)
    /\ UNCHANGED unheard

DeliveryNext ==
    \/ ForwardingAlone
    \/ \E r \in Request : Hear(r) \/ LoseEvent(r)
    \/ RetryStep
    \/ \E gone \in SUBSET Request : Delete(gone)
    \/ DeleteAll

DeliverySpec == DeliveryInit /\ [][DeliveryNext]_deliveryVars

(* The fairness of both halves, and a listener that runs.                  *)
DeliveryFairness ==
    /\ \A r \in Request :
         /\ WF_deliveryVars(Continue(r) /\ UNCHANGED <<retryVars, unheard>>)
         /\ SF_deliveryVars(\E w \in Forwarder, j \in ForwardJob :
                j.req = r /\ StartForward(w, j) /\ UNCHANGED <<retryVars, unheard>>)
         /\ WF_deliveryVars(Hear(r))
         /\ WF_deliveryVars(RetryAlone(Retry!ScheduleFirst(r)))
         /\ SF_deliveryVars(\E w \in Worker, j \in Retry!Job :
                j.req = r /\ RetryAlone(Retry!StartJob(w, j)))
    /\ \A w \in Forwarder : WF_deliveryVars(ForwarderStep(w) /\ UNCHANGED <<retryVars, unheard>>)
    /\ \A h \in Handler : WF_deliveryVars(RetryAlone(Retry!ScheduleManualRun(h)))
    /\ \A w \in Worker : WF_deliveryVars(RetryAlone(Retry!WorkerStep(w)))

FairDeliverySpec == DeliverySpec /\ DeliveryFairness

-----------------------------------------------------------------------------
(* Properties.                                                             *)

(* With one worker of the retries, and any number of forwarders: over its  *)
(* whole life a webhook reaches its target at most six times, the forward  *)
(* and five retries, plus once for every fault that hit after a request    *)
(* was sent.                                                               *)
DeliveriesBounded ==
    \A r \in Request : status[r] # "none" =>
        forwards[r] + sends[r] <= 1 + struck[r] + Retry!MaxAttempts + wasted[r]

(* The forwarding half only ever asks of the retries what RetryLifecycle   *)
(* expects: whatever is shown of that module holds here.                   *)
ImplementsRetry == Retry!Spec

(* How the story of a request ends: accepted by the target, given up after *)
(* five failures or at a 4xx, deleted, or taken by a fault.                *)
Settled(r) ==
    \/ r \notin requests
    \/ r \in accepted
    \/ status[r] \in {"success", "failed"}
    \/ dropped[r] # "no"
    \/ r \in lost \union unheard

(* Every stored request with a target settles.                             *)
RequestSettles ==
    \A r \in Request : target /\ r \in requests ~> Settled(r)
=============================================================================
