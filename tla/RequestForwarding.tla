-------------------------- MODULE RequestForwarding --------------------------
(***************************************************************************)
(* A webhook from its arrival to the result of its forward: the public     *)
(* controller and the command it runs, the rows of requests and endpoints, *)
(* the BullMQ queue 'forward' and its workers, the command line clients    *)
(* that report a forward of their own, and the deletions.                  *)
(*                                                                         *)
(* All webhooks come to one endpoint within one billing period of its      *)
(* owner. A webhook becomes at most one row and is named by it.            *)
(***************************************************************************)
EXTENDS Integers, FiniteSets

CONSTANTS
    Request,        (* the webhooks that arrive                            *)
    Forwarder,      (* the processes' workers of the queue 'forward'       *)
    Quota,          (* requestsPerMonth of the owner's packet              *)
    MaxConcurrent,  (* bound: webhooks in the controller at the same time  *)
    MaxReports,     (* bound: reports of command line clients              *)
    MaxOutages      (* bound: crashes and failing calls over a behaviour   *)

ASSUME ForwardingAssumption ==
    /\ IsFiniteSet(Request)
    /\ Quota \in Nat
    /\ MaxConcurrent \in Nat \ {0}
    /\ MaxReports \in Nat
    /\ MaxOutages \in Nat

(* BullMQ's default maxStalledCount.                                       *)
MaxForwardStalls == 1

MayStallOnceMore(j) == j.stalls <= MaxForwardStalls
MayStall(j) == j.stalls < MaxForwardStalls

ForwardJob == [req: Request, stalls: 0..MaxForwardStalls]
NoForwardJob == [req |-> "none", stalls |-> 0]

(* One status code for each way the code tells answers apart; HttpClient   *)
(* turns a transport failure into the status 0.                            *)
ForwardResult == {"unreachable", "ok", "client_error", "server_error"}

VARIABLES
    target,         (* the endpoint has an https target                    *)
    endpoint,       (* the endpoint's row exists                           *)
    requests,       (* the rows of the requests table                      *)
    overlimit,      (* requests found to be over the quota                 *)
    forwardStatus,  (* requests.forward_status                             *)
    requestCount,   (* endpoints.request_count                             *)
    arrival,        (* where each webhook stands in its HTTP handler       *)
    countRead,      (* requestCount as the handler's identity map holds it *)
    forwardQueue,   (* the jobs that wait in the queue                     *)
    fpc,            (* where each worker stands in its processor           *)
    fjob,           (* the job it holds                                    *)
    snapshot,       (* forward_status as it was loaded                     *)
    result,         (* the status it is about to record                    *)
    announced,      (* requests whose ForwardFailedEvent was published     *)
    concluded,      (* history: requests whose result was published        *)
    accepted,       (* history: forwards the target answered below 500     *)
    forwards,       (* history: requests sent to the target                *)
    struck,         (* history: faults that hit a forward once it was sent *)
    lost,           (* history: requests whose forward a fault ended       *)
    reports,        (* reports so far                                      *)
    outages         (* faults so far                                       *)

intake == <<endpoint, requests, overlimit, requestCount, arrival, countRead>>
worker == <<fpc, fjob, snapshot, result>>
outcome == <<announced, concluded, accepted, forwards, struck, lost>>
forwardVars == <<target, intake, forwardStatus, forwardQueue, worker, outcome, reports, outages>>

InController(r) == arrival[r] \in {"found", "decided", "saved", "counted"}
Counted == {r \in Request : arrival[r] \in {"counted", "done"}}

(* Rows that were there and have been deleted.                             *)
Gone == {r \in Request : arrival[r] \in {"saved", "counted", "done", "failed"}} \ requests

(* The quota counts the rows the owner still has, and one over it.         *)
OverQuotaLate(n) == n > Quota
OverQuota(n) == n >= Quota

(* The write of incrementRequestCount, and one that forgets to increment.  *)
CountAfterFlat(n) == n
CountAfter(n) == n + 1

(* A request is forwarded whether or not it is over the quota.             *)
ForwardableWithinQuota(r) == target /\ r \notin overlimit
Forwardable(r) == target

(* What updateForwardResult leaves in a row whose status was s when it was *)
(* loaded and is t now: the column is written when it changes. A test for  *)
(* a truthy status would never write the 0.                                *)
WrittenIfTruthy(a, s, t) == IF a # s /\ a # "unreachable" THEN a ELSE t
Written(a, s, t) == IF a # s THEN a ELSE t

(* RequestForwardedListener's test, without the 0 and with the 4xx.        *)
NeedsRetryOnAnswer(a) == a = "server_error"
NeedsRetryOnError(a) == a \in {"unreachable", "client_error", "server_error"}
NeedsRetry(a) == a \in {"unreachable", "server_error"}

-----------------------------------------------------------------------------
Init ==
    /\ target \in BOOLEAN
    /\ endpoint = TRUE
    /\ requests = {}
    /\ overlimit = {}
    /\ forwardStatus = [r \in Request |-> "none"]
    /\ requestCount = 0
    /\ arrival = [r \in Request |-> "awaited"]
    /\ countRead = [r \in Request |-> 0]
    /\ forwardQueue = {}
    /\ fpc = [w \in Forwarder |-> "idle"]
    /\ fjob = [w \in Forwarder |-> NoForwardJob]
    /\ snapshot = [w \in Forwarder |-> "none"]
    /\ result = [w \in Forwarder |-> "none"]
    /\ announced = {}
    /\ concluded = {}
    /\ accepted = {}
    /\ forwards = [r \in Request |-> 0]
    /\ struck = [r \in Request |-> 0]
    /\ lost = {}
    /\ reports = 0
    /\ outages = 0

-----------------------------------------------------------------------------
(* The HTTP handler: HooksController.receive and ReceiveRequestHandler,    *)
(* one action per query. The sender is told "received" whatever happens.   *)

(* The endpoint is looked up by its token; what is read of it, the count   *)
(* included, serves the whole handler.                                     *)
FindEndpoint(r) ==
    /\ arrival[r] = "awaited"
    /\ Cardinality({q \in Request : InController(q)}) < MaxConcurrent
    /\ arrival' = [arrival EXCEPT ![r] = IF endpoint THEN "found" ELSE "rejected"]
    /\ countRead' = [countRead EXCEPT ![r] = requestCount]
    /\ UNCHANGED <<target, endpoint, requests, overlimit, forwardStatus, requestCount, forwardQueue, worker, outcome, reports, outages>>

CheckQuota(r) ==
    /\ arrival[r] = "found"
    /\ arrival' = [arrival EXCEPT ![r] = "decided"]
    /\ overlimit' = IF OverQuota(Cardinality(requests)) THEN overlimit \union {r} ELSE overlimit
    /\ UNCHANGED <<target, endpoint, requests, forwardStatus, requestCount, countRead, forwardQueue, worker, outcome, reports, outages>>

(* The insert dies on the foreign key when the endpoint is gone.           *)
SaveRequest(r) ==
    /\ arrival[r] = "decided"
    /\ arrival' = [arrival EXCEPT ![r] = IF endpoint THEN "saved" ELSE "rejected"]
    /\ requests' = IF endpoint THEN requests \union {r} ELSE requests
    /\ UNCHANGED <<target, endpoint, overlimit, forwardStatus, requestCount, countRead, forwardQueue, worker, outcome, reports, outages>>

(* incrementRequestCount, and the RequestReceivedEvent right after it.     *)
CountRequest(r) ==
    /\ arrival[r] = "saved"
    /\ arrival' = [arrival EXCEPT ![r] = "counted"]
    /\ requestCount' = IF endpoint THEN CountAfter(countRead[r]) ELSE requestCount
    /\ UNCHANGED <<target, endpoint, requests, overlimit, forwardStatus, countRead, forwardQueue, worker, outcome, reports, outages>>

EnqueueForward(r) ==
    /\ arrival[r] = "counted"
    /\ arrival' = [arrival EXCEPT ![r] = "done"]
    /\ forwardQueue' = IF Forwardable(r)
                       THEN forwardQueue \union {[req |-> r, stalls |-> 0]}
                       ELSE forwardQueue
    /\ UNCHANGED <<target, endpoint, requests, overlimit, forwardStatus, requestCount, countRead, worker, outcome, reports, outages>>

-----------------------------------------------------------------------------
(* ForwardRequestQueueProcessor.process, one action per external call.     *)

SkipForward(w, j) ==
    /\ fpc[w] = "idle"
    /\ j \in forwardQueue
    /\ j.req \notin requests
    /\ forwardQueue' = forwardQueue \ {j}
    /\ UNCHANGED <<target, intake, forwardStatus, worker, outcome, reports, outages>>

LoadForward(w, j) ==
    /\ fpc[w] = "idle"
    /\ j \in forwardQueue
    /\ j.req \in requests
    /\ forwardQueue' = forwardQueue \ {j}
    /\ fpc' = [fpc EXCEPT ![w] = "loaded"]
    /\ fjob' = [fjob EXCEPT ![w] = j]
    /\ snapshot' = [snapshot EXCEPT ![w] = forwardStatus[j.req]]
    /\ UNCHANGED <<target, intake, forwardStatus, result, outcome, reports, outages>>

SendForward(w) ==
    /\ fpc[w] = "loaded"
    /\ \E a \in ForwardResult :
         /\ result' = [result EXCEPT ![w] = a]
         /\ accepted' = IF a \in {"ok", "client_error"} THEN accepted \union {fjob[w].req} ELSE accepted
    /\ fpc' = [fpc EXCEPT ![w] = "answered"]
    /\ forwards' = [forwards EXCEPT ![fjob[w].req] = @ + 1]
    /\ UNCHANGED <<target, intake, forwardStatus, forwardQueue, fjob, snapshot, announced, concluded, struck, lost, reports, outages>>

(* updateForwardResult, with the answer or, from the catch, with 0.        *)
RecordForward(w) ==
    /\ fpc[w] \in {"answered", "caught"}
    /\ LET r == fjob[w].req IN
       forwardStatus' = [forwardStatus EXCEPT ![r] =
           IF r \in requests THEN Written(result[w], snapshot[w], @) ELSE @]
    /\ fpc' = [fpc EXCEPT ![w] = "recorded"]
    /\ UNCHANGED <<target, intake, forwardQueue, fjob, snapshot, result, outcome, reports, outages>>

(* forward.updated, to the sockets in the room of the endpoint.            *)
TellRoom(r) == concluded' = concluded \union {r}

(* RequestForwardedEvent, and the ForwardFailedEvent its listener derives. *)
PublishResult(w) ==
    /\ fpc[w] = "recorded"
    /\ LET r == fjob[w].req IN
       /\ TellRoom(r)
       /\ announced' = IF NeedsRetry(result[w]) THEN announced \union {r} ELSE announced
    /\ fpc' = [fpc EXCEPT ![w] = "published"]
    /\ UNCHANGED <<target, intake, forwardStatus, forwardQueue, fjob, snapshot, result, accepted, forwards, struck, lost, reports, outages>>

ReleaseForward(w) ==
    /\ fpc' = [fpc EXCEPT ![w] = "idle"]
    /\ fjob' = [fjob EXCEPT ![w] = NoForwardJob]
    /\ snapshot' = [snapshot EXCEPT ![w] = "none"]
    /\ result' = [result EXCEPT ![w] = "none"]

FinishForward(w) ==
    /\ fpc[w] = "published"
    /\ ReleaseForward(w)
    /\ UNCHANGED <<target, intake, forwardStatus, forwardQueue, outcome, reports, outages>>

-----------------------------------------------------------------------------
(* The others who write the same rows.                                     *)

(* A command line client reports the status of a forward of its own, as    *)
(* often as it likes; nothing compares it with the worker's.               *)
CliReport(r) ==
    /\ arrival[r] \in {"counted", "done"}
    /\ r \in requests
    /\ reports < MaxReports
    /\ reports' = reports + 1
    /\ \E a \in ForwardResult : forwardStatus' = [forwardStatus EXCEPT ![r] = a]
    /\ UNCHANGED <<target, intake, forwardQueue, worker, outcome, outages>>

(* One request by its owner, or a batch of old ones by the clean-up.       *)
DeleteRequests(gone) ==
    /\ gone # {}
    /\ gone \subseteq requests
    /\ requests' = requests \ gone
    /\ forwardStatus' = [r \in Request |-> IF r \in gone THEN "none" ELSE forwardStatus[r]]
    /\ UNCHANGED <<target, endpoint, overlimit, requestCount, arrival, countRead, forwardQueue, worker, outcome, reports, outages>>

(* The endpoint's requests go with it.                                     *)
DeleteEndpoint ==
    /\ endpoint
    /\ endpoint' = FALSE
    /\ requests' = {}
    /\ forwardStatus' = [r \in Request |-> "none"]
    /\ UNCHANGED <<target, overlimit, requestCount, arrival, countRead, forwardQueue, worker, outcome, reports, outages>>

-----------------------------------------------------------------------------
(* Faults.                                                                 *)

Outage == outages < MaxOutages /\ outages' = outages + 1

(* A call of the handler is rejected, or its process dies: before the      *)
(* insert nothing is left of the webhook, after it nothing is forwarded.   *)
FailHandler(r) ==
    /\ InController(r)
    /\ Outage
    /\ arrival' = [arrival EXCEPT ![r] = CASE @ \in {"found", "decided"} -> "rejected"
                                           [] @ = "saved" -> "failed"
                                           [] @ = "counted" -> "done"]
    /\ lost' = IF arrival[r] \in {"saved", "counted"} THEN lost \union {r} ELSE lost
    /\ UNCHANGED <<target, endpoint, requests, overlimit, forwardStatus, requestCount, countRead, forwardQueue, worker, announced, concluded, accepted, forwards, struck, reports>>

Strike(w) ==
    struck' = [struck EXCEPT ![fjob[w].req] = IF fpc[w] = "loaded" THEN @ ELSE @ + 1]

(* The update is rejected after an answer came: the catch records a 0.     *)
FailRecord(w) ==
    /\ fpc[w] = "answered"
    /\ Outage
    /\ Strike(w)
    /\ result' = [result EXCEPT ![w] = "unreachable"]
    /\ fpc' = [fpc EXCEPT ![w] = "caught"]
    /\ UNCHANGED <<target, intake, forwardStatus, forwardQueue, fjob, snapshot, announced, concluded, accepted, forwards, lost, reports>>

(* A call outside the try, or the update in the catch, is rejected: the    *)
(* job fails, and the queue's jobs have a single attempt.                  *)
FailForward(w) ==
    /\ fpc[w] \in {"loaded", "caught"}
    /\ Outage
    /\ Strike(w)
    /\ lost' = lost \union {fjob[w].req}
    /\ ReleaseForward(w)
    /\ UNCHANGED <<target, intake, forwardStatus, forwardQueue, announced, concluded, accepted, forwards, reports>>

(* The process dies; the job comes back unless it has stalled before.      *)
CrashForwarder(w) ==
    /\ fpc[w] # "idle"
    /\ Outage
    /\ Strike(w)
    /\ IF MayStall(fjob[w])
       THEN /\ forwardQueue' = forwardQueue \union {[fjob[w] EXCEPT !.stalls = @ + 1]}
            /\ UNCHANGED lost
       ELSE /\ lost' = lost \union {fjob[w].req}
            /\ UNCHANGED forwardQueue
    /\ ReleaseForward(w)
    /\ UNCHANGED <<target, intake, forwardStatus, announced, concluded, accepted, forwards, reports>>

-----------------------------------------------------------------------------
Continue(r) == CheckQuota(r) \/ SaveRequest(r) \/ CountRequest(r) \/ EnqueueForward(r)

StartForward(w, j) == SkipForward(w, j) \/ LoadForward(w, j)

ForwarderStep(w) == SendForward(w) \/ RecordForward(w) \/ PublishResult(w) \/ FinishForward(w)

(* Everything but the deletions.                                           *)
ForwardingStep ==
    \/ \E r \in Request : FindEndpoint(r) \/ Continue(r) \/ CliReport(r) \/ FailHandler(r)
    \/ \E w \in Forwarder : \/ \E j \in ForwardJob : StartForward(w, j)
                            \/ ForwarderStep(w)
                            \/ FailRecord(w)
                            \/ FailForward(w)
                            \/ CrashForwarder(w)

Next ==
    \/ ForwardingStep
    \/ \E gone \in SUBSET Request : DeleteRequests(gone)
    \/ DeleteEndpoint

Spec == Init /\ [][Next]_forwardVars

-----------------------------------------------------------------------------
(* Properties.                                                             *)

(* The type invariant. *)
TypeOK ==
    /\ target \in BOOLEAN
    /\ endpoint \in BOOLEAN
    /\ requests \subseteq Request
    /\ overlimit \subseteq Request
    /\ forwardStatus \in [Request -> ForwardResult \union {"none"}]
    /\ requestCount \in Nat
    /\ arrival \in [Request -> {"awaited", "found", "decided", "saved", "counted", "done", "failed", "rejected"}]
    /\ countRead \in [Request -> Nat]
    /\ forwardQueue \subseteq ForwardJob
    /\ fpc \in [Forwarder -> {"idle", "loaded", "answered", "caught", "recorded", "published"}]
    /\ fjob \in [Forwarder -> ForwardJob \union {NoForwardJob}]
    /\ \A w \in Forwarder : fpc[w] # "idle" => fjob[w] \in ForwardJob
    /\ snapshot \in [Forwarder -> ForwardResult \union {"none"}]
    /\ result \in [Forwarder -> ForwardResult \union {"none"}]
    /\ announced \subseteq Request
    /\ concluded \subseteq Request
    /\ accepted \subseteq Request
    /\ forwards \in [Request -> Nat]
    /\ struck \in [Request -> Nat]
    /\ lost \subseteq Request
    /\ reports \in 0..MaxReports
    /\ outages \in 0..MaxOutages

(* The quota is checked and used in two steps, by handlers that run side   *)
(* by side: it is overshot by less than the number of these handlers.      *)
QuotaOvershootBounded ==
    Cardinality(requests \ overlimit) < Quota + MaxConcurrent

(* Handlers that run side by side write over each other's count: an        *)
(* endpoint with traffic shows at least one request and never more than    *)
(* were counted, but not necessarily all of them.                          *)
CountWithinArrivals ==
    endpoint /\ Counted # {} => requestCount \in 1..Cardinality(Counted)

(* A request with a target is never forgotten between the handler, the     *)
(* queue and the worker: it is on its way, its result was published, or a  *)
(* fault took it.                                                          *)
ForwardNotForgotten ==
    \A r \in requests : target /\ arrival[r] = "done" =>
        \/ \E j \in forwardQueue : j.req = r
        \/ \E w \in Forwarder : fpc[w] # "idle" /\ fjob[w].req = r
        \/ r \in concluded \union lost

(* A forward that no fault has touched is handed to the retries exactly    *)
(* when the target did not accept it.                                      *)
RetriedIffFailed ==
    \A r \in concluded : struck[r] = 0 => (r \in announced <=> r \notin accepted)

(* A published result can be seen on the row, although workers and command *)
(* line clients write over each other and a worker writes only the columns *)
(* that changed since it loaded them.                                      *)
ResultVisible ==
    \A r \in concluded : r \in requests => forwardStatus[r] # "none"
=============================================================================
