--------------------------- MODULE ForwardingProofs ---------------------------
(***************************************************************************)
(* Proofs about RequestForwarding and WebhookDelivery for every finite set *)
(* of webhooks, every set of workers and every quota and bound.            *)
(***************************************************************************)
EXTENDS WebhookDelivery, FiniteSetTheorems, TLAPS

(* A job for every request, whatever it has outlived, and its next stall.  *)
LEMMA JobFields ==
  ASSUME NEW j \in ForwardJob
  PROVE  j.req \in Request /\ j.stalls \in 0..MaxForwardStalls
BY DEF ForwardJob

LEMMA NewJobIsJob ==
  ASSUME NEW r \in Request
  PROVE  [req |-> r, stalls |-> 0] \in ForwardJob
BY DEF ForwardJob, MaxForwardStalls

LEMMA StalledJobIsJob ==
  ASSUME NEW j \in ForwardJob, MayStall(j)
  PROVE  /\ [j EXCEPT !.stalls = @ + 1] \in ForwardJob
         /\ [j EXCEPT !.stalls = @ + 1].req = j.req
BY DEF ForwardJob, MayStall, MaxForwardStalls

(* A job that comes back once its worker died.                             *)
LEMMA StalledJob ==
  ASSUME TypeOK, NEW w \in Forwarder, CrashForwarder(w), MayStall(fjob[w])
  PROVE  \E j \in ForwardJob : j.req = fjob[w].req /\ forwardQueue' = forwardQueue \union {j}
<1>1. fjob[w] \in ForwardJob
  BY DEF CrashForwarder, TypeOK
<1>2. forwardQueue' = forwardQueue \union {[fjob[w] EXCEPT !.stalls = @ + 1]}
  BY DEF CrashForwarder
<1>3. /\ [fjob[w] EXCEPT !.stalls = @ + 1] \in ForwardJob
      /\ [fjob[w] EXCEPT !.stalls = @ + 1].req = fjob[w].req
  BY <1>1, StalledJobIsJob
<1> QED BY <1>2, <1>3, Zenon

(* What the end of a job leaves of a worker.                               *)
LEMMA ReleaseType ==
  ASSUME TypeOK, NEW w \in Forwarder, ReleaseForward(w)
  PROVE  /\ fpc' \in [Forwarder -> {"idle", "loaded", "answered", "caught", "recorded", "published"}]
         /\ fjob' \in [Forwarder -> ForwardJob \union {NoForwardJob}]
         /\ \A v \in Forwarder : fpc'[v] # "idle" => fjob'[v] \in ForwardJob
         /\ snapshot' \in [Forwarder -> ForwardResult \union {"none"}]
         /\ result' \in [Forwarder -> ForwardResult \union {"none"}]
BY DEF TypeOK, ReleaseForward

LEMMA ForwardTypeStep == TypeOK /\ [Next]_forwardVars => TypeOK'
<1> SUFFICES ASSUME TypeOK, [Next]_forwardVars PROVE TypeOK'
  OBVIOUS
<1>. USE ForwardingAssumption DEF TypeOK, intake, worker, outcome
<1>1. ASSUME NEW r \in Request, FindEndpoint(r) PROVE TypeOK'
  BY <1>1 DEF FindEndpoint
<1>2. ASSUME NEW r \in Request, CheckQuota(r) PROVE TypeOK'
  BY <1>2 DEF CheckQuota
<1>3. ASSUME NEW r \in Request, SaveRequest(r) PROVE TypeOK'
  BY <1>3 DEF SaveRequest
<1>4. ASSUME NEW r \in Request, CountRequest(r) PROVE TypeOK'
  BY <1>4 DEF CountRequest, CountAfter
<1>5. ASSUME NEW r \in Request, EnqueueForward(r) PROVE TypeOK'
  BY <1>5, NewJobIsJob DEF EnqueueForward
<1>6. ASSUME NEW r \in Request, CliReport(r) PROVE TypeOK'
  BY <1>6 DEF CliReport
<1>7. ASSUME NEW r \in Request, FailHandler(r) PROVE TypeOK'
  BY <1>7 DEF FailHandler, InController, Outage
<1>8. ASSUME NEW w \in Forwarder, NEW j \in ForwardJob, StartForward(w, j) PROVE TypeOK'
  BY <1>8, JobFields DEF StartForward, SkipForward, LoadForward
<1>9. ASSUME NEW w \in Forwarder, fpc[w] # "idle" PROVE fjob[w] \in ForwardJob /\ fjob[w].req \in Request
  BY <1>9, JobFields
<1>10. ASSUME NEW w \in Forwarder, ForwarderStep(w) PROVE TypeOK'
  <2>1. CASE SendForward(w)
    BY <2>1, <1>9 DEF SendForward
  <2>2. CASE RecordForward(w)
    BY <2>2, <1>9 DEF RecordForward, Written
  <2>3. CASE PublishResult(w)
    BY <2>3, <1>9 DEF PublishResult, TellRoom
  <2>4. CASE FinishForward(w)
    BY <2>4, ReleaseType DEF FinishForward
  <2> QED BY <1>10, <2>1, <2>2, <2>3, <2>4 DEF ForwarderStep
<1>11. ASSUME NEW w \in Forwarder, FailRecord(w) PROVE TypeOK'
  BY <1>11, <1>9 DEF FailRecord, Outage, Strike, ForwardResult
<1>12. ASSUME NEW w \in Forwarder, FailForward(w) PROVE TypeOK'
  BY <1>12, <1>9, ReleaseType DEF FailForward, Outage, Strike
<1>13. ASSUME NEW w \in Forwarder, CrashForwarder(w) PROVE TypeOK'
  <2>1. forwardQueue' \subseteq ForwardJob /\ lost' \subseteq Request
    BY <1>13, <1>9, StalledJobIsJob DEF CrashForwarder
  <2> QED BY <1>13, <1>9, <2>1, ReleaseType DEF CrashForwarder, Outage, Strike
<1>14. ASSUME NEW gone \in SUBSET Request, DeleteRequests(gone) PROVE TypeOK'
  BY <1>14 DEF DeleteRequests
<1>15. CASE DeleteEndpoint
  BY <1>15 DEF DeleteEndpoint
<1>16. CASE UNCHANGED forwardVars
  BY <1>16 DEF forwardVars
<1> QED BY <1>1, <1>2, <1>3, <1>4, <1>5, <1>6, <1>7, <1>8, <1>10, <1>11, <1>12, <1>13, <1>14, <1>15, <1>16
        DEF Next, ForwardingStep, Continue

(* The types of the handler, the queue and the workers.                    *)
THEOREM ForwardingTypes == Spec => []TypeOK
<1>1. Init => TypeOK
  BY ForwardingAssumption DEF Init, TypeOK
<1> QED BY <1>1, ForwardTypeStep, PTL DEF Spec

-----------------------------------------------------------------------------
(* One forward for each webhook.                                           *)

Held(w, r) == fpc[w] # "idle" /\ fjob[w].req = r
Waiting(r) == \E j \in forwardQueue : j.req = r

(* A row is there once its insert returned, a job once it was queued; and  *)
(* a request has at most one job, in the queue or in one worker's hands.   *)
RowsArrived == \A r \in requests : arrival[r] \in {"saved", "counted", "done", "failed"}

JobsEnqueued ==
    /\ \A j \in forwardQueue : arrival[j.req] = "done"
    /\ \A w \in Forwarder : fpc[w] # "idle" => arrival[fjob[w].req] = "done"

OneJob ==
    /\ \A i, j \in forwardQueue : i.req = j.req => i = j
    /\ \A j \in forwardQueue, w \in Forwarder : ~ Held(w, j.req)
    /\ \A v, w \in Forwarder, r \in Request : Held(v, r) /\ Held(w, r) => v = w

JobInv == RowsArrived /\ JobsEnqueued /\ OneJob

(* Steps that leave the jobs alone and move no webhook back.               *)
LEMMA JobFrame ==
  ASSUME JobInv, UNCHANGED <<forwardQueue, fjob>>,
         \A w \in Forwarder : fpc'[w] # "idle" <=> fpc[w] # "idle",
         requests' \subseteq requests,
         \A r \in Request : arrival[r] = "done" => arrival'[r] = "done",
         \A r \in requests' : arrival'[r] \in {"saved", "counted", "done", "failed"},
         TypeOK
  PROVE  JobInv'
BY JobFields DEF JobInv, RowsArrived, JobsEnqueued, OneJob, Held, TypeOK

LEMMA JobStep == TypeOK /\ JobInv /\ [Next]_forwardVars => JobInv'
<1> SUFFICES ASSUME TypeOK, JobInv, [Next]_forwardVars PROVE JobInv'
  OBVIOUS
<1>. USE DEF intake, worker, outcome
<1>1. ASSUME NEW r \in Request, FindEndpoint(r) \/ CheckQuota(r) \/ CountRequest(r) PROVE JobInv'
  BY <1>1, JobFrame DEF FindEndpoint, CheckQuota, CountRequest, JobInv, RowsArrived, TypeOK
<1>2. ASSUME NEW r \in Request, SaveRequest(r) PROVE JobInv'
  BY <1>2, JobFields DEF SaveRequest, JobInv, RowsArrived, JobsEnqueued, OneJob, Held, TypeOK
<1>3. ASSUME NEW r \in Request, EnqueueForward(r) PROVE JobInv'
  BY <1>3, JobFields DEF EnqueueForward, JobInv, RowsArrived, JobsEnqueued, OneJob, Held, TypeOK
<1>4. ASSUME NEW r \in Request, CliReport(r) PROVE JobInv'
  BY <1>4, JobFrame DEF CliReport, JobInv, RowsArrived
<1>5. ASSUME NEW r \in Request, FailHandler(r) PROVE JobInv'
  BY <1>5, JobFrame DEF FailHandler, InController, JobInv, RowsArrived, TypeOK
<1>6. ASSUME NEW w \in Forwarder, NEW j \in ForwardJob, SkipForward(w, j) PROVE JobInv'
  BY <1>6 DEF SkipForward, JobInv, RowsArrived, JobsEnqueued, OneJob, Held
<1>7. ASSUME NEW w \in Forwarder, NEW j \in ForwardJob, LoadForward(w, j) PROVE JobInv'
  BY <1>7, JobFields DEF LoadForward, JobInv, RowsArrived, JobsEnqueued, OneJob, Held, TypeOK
<1>8. ASSUME NEW w \in Forwarder, SendForward(w) \/ RecordForward(w) \/ PublishResult(w) \/ FailRecord(w)
      PROVE  JobInv'
  BY <1>8, JobFrame DEF SendForward, RecordForward, PublishResult, FailRecord, JobInv, RowsArrived, TypeOK
<1>9. ASSUME NEW w \in Forwarder, FinishForward(w) \/ FailForward(w) PROVE JobInv'
  BY <1>9 DEF FinishForward, FailForward, ReleaseForward, JobInv, RowsArrived, JobsEnqueued, OneJob, Held, TypeOK
<1>10. ASSUME NEW w \in Forwarder, CrashForwarder(w) PROVE JobInv'
  <2>1. fpc[w] # "idle" /\ ReleaseForward(w) /\ UNCHANGED <<requests, arrival>>
    BY <1>10 DEF CrashForwarder
  <2>. USE <2>1 DEF ReleaseForward, JobInv, RowsArrived, JobsEnqueued, OneJob, Held, TypeOK
  <2>2. CASE MayStall(fjob[w])
    <3>1. PICK j \in ForwardJob : j.req = fjob[w].req /\ forwardQueue' = forwardQueue \union {j}
      BY <1>10, <2>2, StalledJob
    <3>2. /\ fjob[w].req \in Request
          /\ \A i \in forwardQueue : i.req # fjob[w].req
          /\ \A v \in Forwarder : Held(v, fjob[w].req) => v = w
      BY <3>1, JobFields
    <3>3. fpc' = [fpc EXCEPT ![w] = "idle"] /\ \A v \in Forwarder : v # w => fjob'[v] = fjob[v]
      OBVIOUS
    <3>4. RowsArrived'
      OBVIOUS
    <3>5. JobsEnqueued'
      BY <3>1, <3>2, <3>3
    <3>6. OneJob'
      BY <3>1, <3>2, <3>3
    <3> QED BY <3>4, <3>5, <3>6
  <2>3. CASE ~ MayStall(fjob[w])
    <3>1. forwardQueue' = forwardQueue
      BY <1>10, <2>3 DEF CrashForwarder
    <3> QED BY <3>1
  <2> QED BY <2>2, <2>3
<1>11. ASSUME NEW gone \in SUBSET Request, DeleteRequests(gone) PROVE JobInv'
  BY <1>11, JobFrame DEF DeleteRequests, JobInv, RowsArrived
<1>12. CASE DeleteEndpoint
  BY <1>12, JobFrame DEF DeleteEndpoint, JobInv, RowsArrived
<1>13. CASE UNCHANGED forwardVars
  BY <1>13, JobFrame DEF forwardVars, JobInv, RowsArrived
<1> QED BY <1>1, <1>2, <1>3, <1>4, <1>5, <1>6, <1>7, <1>8, <1>9, <1>10, <1>11, <1>12, <1>13
        DEF Next, ForwardingStep, Continue, StartForward, ForwarderStep

-----------------------------------------------------------------------------
(* What was sent, what was answered and what was told of it.               *)

(* While a request may yet be sent, each of its sends was struck; at any   *)
(* time all of them but one were.                                          *)
Unsent(r) ==
    \/ arrival[r] # "done"
    \/ Waiting(r)
    \/ \E w \in Forwarder : Held(w, r) /\ fpc[w] = "loaded"

SendsCounted ==
    \A r \in Request : /\ forwards[r] <= 1 + struck[r]
                       /\ Unsent(r) => forwards[r] <= struck[r]

(* Nothing is told of a request before it was sent.                        *)
NothingBeforeSend ==
    \A r \in Request : forwards[r] = 0 => r \notin announced \union concluded \union accepted

(* What a worker has in hand once it was answered.                         *)
AnswerInHand ==
    \A w \in Forwarder :
        /\ fpc[w] \in {"answered", "caught", "recorded", "published"} =>
             result[w] \in ForwardResult /\ forwards[fjob[w].req] > 0
        /\ fpc[w] = "caught" => struck[fjob[w].req] > 0
        /\ fpc[w] = "published" => fjob[w].req \in concluded

(* An answer no fault has touched is the target's, and is yet to be told.  *)
AnswerUntold ==
    \A w \in Forwarder : fpc[w] \in {"answered", "recorded"} /\ struck[fjob[w].req] = 0 =>
        /\ fjob[w].req \notin announced \union concluded
        /\ fjob[w].req \in accepted <=> result[w] \in {"ok", "client_error"}

SendInv == SendsCounted /\ NothingBeforeSend /\ AnswerInHand /\ AnswerUntold /\ RetriedIffFailed

(* Steps of the handlers and deletions.                                    *)
LEMMA SendFrame ==
  ASSUME SendInv, UNCHANGED <<worker, announced, concluded, accepted, forwards, struck>>,
         \A r \in Request : Unsent(r)' => Unsent(r)
  PROVE  SendInv'
BY DEF SendInv, SendsCounted, NothingBeforeSend, AnswerInHand, AnswerUntold, RetriedIffFailed, worker

(* The worker's three steps; the workers that hold other requests and the  *)
(* requests that other workers hold stay as they are.                      *)
LEMMA OnlyOneHolds ==
  ASSUME TypeOK, JobInv, NEW w \in Forwarder, fpc[w] # "idle"
  PROVE  /\ fjob[w] \in ForwardJob
         /\ fjob[w].req \in Request
         /\ arrival[fjob[w].req] = "done"
         /\ ~ Waiting(fjob[w].req)
         /\ \A v \in Forwarder : fpc[v] # "idle" /\ v # w => fjob[v].req # fjob[w].req
BY JobFields DEF TypeOK, JobInv, JobsEnqueued, OneJob, Held, Waiting

LEMMA SendForwardSends ==
  ASSUME TypeOK, JobInv, SendInv, NEW w \in Forwarder, SendForward(w)
  PROVE  SendInv'
<1>. DEFINE q == fjob[w].req
<1>. USE DEF SendForward, TypeOK
<1>1. fpc[w] = "loaded" /\ q \in Request
  BY OnlyOneHolds
<1>2. \A v \in Forwarder : v # w /\ fpc[v] # "idle" => fjob[v].req # q /\ fjob[v].req \in Request
  BY OnlyOneHolds
<1>3. forwards[q] <= struck[q]
  BY <1>1 DEF SendInv, SendsCounted, Unsent, Held
<1>4. ~ Unsent(q)'
  BY <1>1, <1>2, OnlyOneHolds DEF Unsent, Waiting, Held, intake
<1>5. \A r \in Request : r # q /\ Unsent(r)' => Unsent(r)
  BY DEF Unsent, Waiting, Held, intake
<1>6. SendsCounted'
  BY <1>1, <1>3, <1>4, <1>5 DEF SendInv, SendsCounted
<1>7. NothingBeforeSend'
  BY <1>1 DEF SendInv, NothingBeforeSend
<1>8. AnswerInHand'
  BY <1>1, <1>2 DEF SendInv, AnswerInHand
<1>9. struck[q] = 0 => q \notin announced \union concluded \union accepted
  BY <1>1, <1>3 DEF SendInv, NothingBeforeSend
<1>10. AnswerUntold'
  BY <1>1, <1>2, <1>9 DEF SendInv, AnswerUntold
<1>11. RetriedIffFailed'
  BY <1>1, <1>9 DEF SendInv, RetriedIffFailed
<1> QED BY <1>6, <1>7, <1>8, <1>10, <1>11 DEF SendInv

LEMMA RecordForwardSends ==
  ASSUME TypeOK, JobInv, SendInv, NEW w \in Forwarder, RecordForward(w)
  PROVE  SendInv'
<1>. USE DEF RecordForward, TypeOK, outcome, intake
<1>1. \A r \in Request : Unsent(r)' => Unsent(r)
  BY DEF Unsent, Waiting, Held
<1>2. SendsCounted' /\ NothingBeforeSend' /\ RetriedIffFailed'
  BY <1>1 DEF SendInv, SendsCounted, NothingBeforeSend, RetriedIffFailed
<1>3. AnswerInHand' /\ AnswerUntold'
  BY DEF SendInv, AnswerInHand, AnswerUntold
<1> QED BY <1>2, <1>3 DEF SendInv

LEMMA PublishResultSends ==
  ASSUME TypeOK, JobInv, SendInv, NEW w \in Forwarder, PublishResult(w)
  PROVE  SendInv'
<1>. DEFINE q == fjob[w].req
<1>. USE DEF PublishResult, TellRoom, TypeOK, intake
<1>1. fpc[w] = "recorded" /\ q \in Request /\ forwards[q] > 0
  BY OnlyOneHolds DEF SendInv, AnswerInHand
<1>2. \A v \in Forwarder : v # w /\ fpc[v] # "idle" => fjob[v].req # q /\ fjob[v].req \in Request
  BY OnlyOneHolds
<1>3. \A r \in Request : Unsent(r)' => Unsent(r)
  BY DEF Unsent, Waiting, Held
<1>4. SendsCounted' /\ NothingBeforeSend'
  BY <1>1, <1>3 DEF SendInv, SendsCounted, NothingBeforeSend
<1>5. AnswerInHand'
  BY <1>1 DEF SendInv, AnswerInHand
<1>6. AnswerUntold'
  BY <1>1, <1>2 DEF SendInv, AnswerUntold
<1>7. ASSUME struck[q] = 0 PROVE q \in announced' <=> q \notin accepted
  BY <1>1, <1>7 DEF SendInv, AnswerUntold, AnswerInHand, NeedsRetry, ForwardResult
<1>8. RetriedIffFailed'
  BY <1>1, <1>7 DEF SendInv, RetriedIffFailed
<1> QED BY <1>4, <1>5, <1>6, <1>8 DEF SendInv

(* A fault that strikes a forward after it was sent leaves nothing to be   *)
(* shown of it.                                                            *)
LEMMA StrikeCounts ==
  ASSUME TypeOK, JobInv, SendInv, NEW w \in Forwarder, fpc[w] # "idle", Strike(w),
         UNCHANGED <<announced, concluded, accepted, forwards>>,
         \A r \in Request : r # fjob[w].req /\ Unsent(r)' => Unsent(r)
  PROVE  /\ struck' \in [Request -> Nat]
         /\ \A r \in Request : struck[r] <= struck'[r]
         /\ fpc[w] # "loaded" => struck'[fjob[w].req] = struck[fjob[w].req] + 1
         /\ SendsCounted' /\ NothingBeforeSend' /\ RetriedIffFailed'
<1>. DEFINE q == fjob[w].req
<1>1. q \in Request
  BY OnlyOneHolds
<1>2. /\ struck' \in [Request -> Nat]
      /\ \A r \in Request : struck'[r] = IF r = q /\ fpc[w] # "loaded" THEN struck[r] + 1 ELSE struck[r]
  BY <1>1 DEF Strike, TypeOK
<1>3. fpc[w] = "loaded" => Unsent(q)
  BY DEF Unsent, Held
<1>4. SendsCounted'
  BY <1>1, <1>2, <1>3 DEF SendInv, SendsCounted, TypeOK
<1>5. NothingBeforeSend' /\ RetriedIffFailed'
  BY <1>2 DEF SendInv, NothingBeforeSend, RetriedIffFailed, TypeOK
<1> QED BY <1>1, <1>2, <1>4, <1>5 DEF TypeOK

LEMMA FailRecordSends ==
  ASSUME TypeOK, JobInv, SendInv, NEW w \in Forwarder, FailRecord(w)
  PROVE  SendInv'
<1>. DEFINE q == fjob[w].req
<1>1. fpc[w] = "answered" /\ q \in Request
  BY OnlyOneHolds DEF FailRecord
<1>2. \A v \in Forwarder : v # w /\ fpc[v] # "idle" => fjob[v].req # q /\ fjob[v].req \in Request
  BY <1>1, OnlyOneHolds
<1>3. \A r \in Request : Unsent(r)' => Unsent(r)
  BY DEF FailRecord, Unsent, Waiting, Held, intake, TypeOK
<1>4. /\ struck' \in [Request -> Nat]
      /\ \A r \in Request : struck[r] <= struck'[r]
      /\ struck'[q] = struck[q] + 1
      /\ SendsCounted' /\ NothingBeforeSend' /\ RetriedIffFailed'
  BY <1>1, <1>3, StrikeCounts DEF FailRecord
<1>5. AnswerInHand'
  BY <1>1, <1>2, <1>4 DEF FailRecord, SendInv, AnswerInHand, TypeOK, ForwardResult
<1>6. AnswerUntold'
  BY <1>1, <1>2, <1>4 DEF FailRecord, SendInv, AnswerUntold, TypeOK
<1> QED BY <1>4, <1>5, <1>6 DEF SendInv

(* The end of a job, however it came.                                      *)
LEMMA ReleaseSends ==
  ASSUME TypeOK, JobInv, SendInv, NEW w \in Forwarder, fpc[w] # "idle", ReleaseForward(w),
         UNCHANGED <<announced, concluded, accepted, forwards>>,
         struck' \in [Request -> Nat],
         \A r \in Request : struck[r] <= struck'[r]
  PROVE  AnswerInHand' /\ AnswerUntold'
<1>1. \A v \in Forwarder : fpc'[v] # "idle" =>
        v # w /\ fpc'[v] = fpc[v] /\ fjob'[v] = fjob[v] /\ result'[v] = result[v] /\ fjob[v].req \in Request
  BY OnlyOneHolds DEF ReleaseForward, TypeOK
<1>2. \A v \in Forwarder : fpc'[v] # "idle" => struck[fjob[v].req] \in Nat /\ struck[fjob[v].req] <= struck'[fjob[v].req]
  BY <1>1 DEF TypeOK
<1>3. \A v \in Forwarder : fpc'[v] \in {"idle", "loaded", "answered", "caught", "recorded", "published"}
  BY ReleaseType
<1>4. AnswerInHand'
  BY <1>1, <1>2, <1>3 DEF SendInv, AnswerInHand
<1>5. AnswerUntold'
  BY <1>1, <1>2, <1>3 DEF SendInv, AnswerUntold
<1> QED BY <1>4, <1>5

LEMMA CrashSends ==
  ASSUME TypeOK, JobInv, SendInv, NEW w \in Forwarder, CrashForwarder(w) \/ FailForward(w)
  PROVE  SendInv'
<1>. DEFINE q == fjob[w].req
<1>1. /\ fpc[w] # "idle" /\ Strike(w) /\ ReleaseForward(w)
      /\ UNCHANGED <<arrival, announced, concluded, accepted, forwards>>
  BY DEF CrashForwarder, FailForward, intake
<1>2. forwardQueue' = forwardQueue \/ \E j \in ForwardJob : j.req = q /\ forwardQueue' = forwardQueue \union {j}
  <2>1. CASE CrashForwarder(w) /\ MayStall(fjob[w])
    BY <2>1, StalledJob
  <2>2. CASE CrashForwarder(w) /\ ~ MayStall(fjob[w])
    BY <2>2 DEF CrashForwarder
  <2>3. CASE FailForward(w)
    BY <2>3 DEF FailForward
  <2> QED BY <2>1, <2>2, <2>3
<1>3. \A r \in Request : r # q /\ Unsent(r)' => Unsent(r)
  BY <1>1, <1>2 DEF Unsent, Waiting, Held, ReleaseForward, TypeOK
<1>4. /\ struck' \in [Request -> Nat]
      /\ \A r \in Request : struck[r] <= struck'[r]
      /\ SendsCounted' /\ NothingBeforeSend' /\ RetriedIffFailed'
  BY <1>1, <1>3, StrikeCounts
<1>5. AnswerInHand' /\ AnswerUntold'
  BY <1>1, <1>4, ReleaseSends
<1> QED BY <1>4, <1>5 DEF SendInv

LEMMA SendStep == TypeOK /\ JobInv /\ SendInv /\ [Next]_forwardVars => SendInv'
<1> SUFFICES ASSUME TypeOK, JobInv, SendInv, [Next]_forwardVars PROVE SendInv'
  OBVIOUS
<1>. USE DEF intake, worker, outcome
<1>1. ASSUME NEW r \in Request,
             FindEndpoint(r) \/ CheckQuota(r) \/ SaveRequest(r) \/ CountRequest(r) \/ CliReport(r) \/ FailHandler(r)
      PROVE  SendInv'
  <2>1. /\ UNCHANGED <<worker, forwardQueue, announced, concluded, accepted, forwards, struck>>
        /\ \A q \in Request : arrival[q] = "done" => arrival'[q] = "done"
    BY <1>1 DEF FindEndpoint, CheckQuota, SaveRequest, CountRequest, CliReport, FailHandler, InController, TypeOK
  <2> QED BY <2>1, SendFrame DEF Unsent, Waiting, Held
<1>2. ASSUME NEW r \in Request, EnqueueForward(r) PROVE SendInv'
  <2>1. \A q \in Request : Unsent(q)' => Unsent(q)
    BY <1>2, JobFields DEF EnqueueForward, Unsent, Waiting, Held, TypeOK
  <2> QED BY <1>2, <2>1, SendFrame DEF EnqueueForward
<1>3. ASSUME NEW w \in Forwarder, NEW j \in ForwardJob, SkipForward(w, j) PROVE SendInv'
  BY <1>3, SendFrame DEF SkipForward, Unsent, Waiting, Held
<1>4. ASSUME NEW w \in Forwarder, NEW j \in ForwardJob, LoadForward(w, j) PROVE SendInv'
  <2>1. \A q \in Request : Unsent(q)' => Unsent(q)
    BY <1>4 DEF LoadForward, Unsent, Waiting, Held, TypeOK
  <2>2. SendsCounted' /\ NothingBeforeSend' /\ RetriedIffFailed'
    BY <1>4, <2>1 DEF LoadForward, SendInv, SendsCounted, NothingBeforeSend, RetriedIffFailed
  <2>3. AnswerInHand' /\ AnswerUntold'
    BY <1>4 DEF LoadForward, SendInv, AnswerInHand, AnswerUntold, TypeOK
  <2> QED BY <2>2, <2>3 DEF SendInv
<1>5. ASSUME NEW w \in Forwarder, ForwarderStep(w) PROVE SendInv'
  <2>1. CASE FinishForward(w)
    <3>1. SendsCounted' /\ NothingBeforeSend' /\ RetriedIffFailed'
      BY <2>1 DEF FinishForward, ReleaseForward, SendInv, SendsCounted, NothingBeforeSend, RetriedIffFailed,
                  Unsent, Waiting, Held, TypeOK
    <3>2. AnswerInHand' /\ AnswerUntold'
      BY <2>1, ReleaseSends DEF FinishForward, TypeOK
    <3> QED BY <3>1, <3>2 DEF SendInv
  <2> QED BY <1>5, <2>1, SendForwardSends, RecordForwardSends, PublishResultSends DEF ForwarderStep
<1>6. ASSUME NEW w \in Forwarder, FailRecord(w) \/ FailForward(w) \/ CrashForwarder(w) PROVE SendInv'
  BY <1>6, FailRecordSends, CrashSends
<1>7. ASSUME NEW gone \in SUBSET Request, DeleteRequests(gone) PROVE SendInv'
  BY <1>7, SendFrame DEF DeleteRequests, Unsent, Waiting, Held
<1>8. CASE DeleteEndpoint
  BY <1>8, SendFrame DEF DeleteEndpoint, Unsent, Waiting, Held
<1>9. CASE UNCHANGED forwardVars
  BY <1>9, SendFrame DEF forwardVars, Unsent, Waiting, Held
<1> QED BY <1>1, <1>2, <1>3, <1>4, <1>5, <1>6, <1>7, <1>8, <1>9
        DEF Next, ForwardingStep, Continue, StartForward

LEMMA ForwardInitially == Init => TypeOK /\ JobInv /\ SendInv
<1> SUFFICES ASSUME Init PROVE TypeOK /\ JobInv /\ SendInv
  OBVIOUS
<1>1. TypeOK
  BY ForwardingAssumption DEF Init, TypeOK
<1>2. JobInv
  BY DEF Init, JobInv, RowsArrived, JobsEnqueued, OneJob, Held
<1>3. SendInv
  BY DEF Init, SendInv, SendsCounted, NothingBeforeSend, AnswerInHand, AnswerUntold, RetriedIffFailed
<1> QED BY <1>1, <1>2, <1>3

LEMMA ForwardInvariant == Spec => [](TypeOK /\ JobInv /\ SendInv)
BY ForwardInitially, ForwardTypeStep, JobStep, SendStep, PTL DEF Spec

(* A forward no fault has touched is handed to the retries exactly when    *)
(* the target did not accept it: at the time it is published a worker      *)
(* still holds the answer of its only send.                                *)
THEOREM FailuresAreRetried == Spec => []RetriedIffFailed
<1>1. SendInv => RetriedIffFailed
  BY DEF SendInv
<1> QED BY <1>1, ForwardInvariant, PTL

(* A webhook reaches its target at most once more than faults struck its   *)
(* forward, however many workers serve the queue.                          *)
ForwardedOnce == \A r \in Request : forwards[r] <= 1 + struck[r]

THEOREM ForwardsBounded == Spec => []ForwardedOnce
<1>1. SendInv => ForwardedOnce
  BY DEF SendInv, SendsCounted, ForwardedOnce
<1> QED BY <1>1, ForwardInvariant, PTL

-----------------------------------------------------------------------------
(* What the row shows.                                                     *)

(* A row has a status once its worker has seen one or recorded one: what   *)
(* is on the row is cleared only with the row, which never comes back.     *)
RowShows ==
    \A w \in Forwarder : fpc[w] # "idle" /\ fjob[w].req \in requests =>
        /\ snapshot[w] # "none" => forwardStatus[fjob[w].req] # "none"
        /\ fpc[w] \in {"recorded", "published"} => forwardStatus[fjob[w].req] # "none"

ShownInv == RowShows /\ ResultVisible

(* A step that loads, records and publishes nothing may only take rows     *)
(* away and add one of a webhook that has no job and no result yet.        *)
LEMMA ShownFrame ==
  ASSUME TypeOK, JobInv, SendInv, ShownInv, UNCHANGED <<worker, concluded>>,
         \A r \in requests' : /\ r \in Request
                              /\ arrival[r] = "done" => r \in requests
                              /\ forwardStatus'[r] = "none" => forwardStatus[r] = "none",
         \A r \in concluded : r \in requests' => r \in requests
  PROVE  ShownInv'
<1>1. \A w \in Forwarder : fpc[w] # "idle" => arrival[fjob[w].req] = "done"
  BY OnlyOneHolds
<1> QED BY <1>1 DEF ShownInv, RowShows, ResultVisible, worker

(* A result was published only of a webhook whose handler was through.     *)
ConcludedArrived == \A r \in concluded : arrival[r] = "done"

(* A webhook whose handler is through stays so.                            *)
LEMMA DoneStays ==
  ASSUME TypeOK, [Next]_forwardVars
  PROVE  \A q \in Request : arrival[q] = "done" => arrival'[q] = "done"
<1>. USE DEF intake
<1>1. ASSUME NEW r \in Request, FindEndpoint(r) \/ Continue(r) \/ FailHandler(r)
      PROVE  \A q \in Request : arrival[q] = "done" => arrival'[q] = "done"
  BY <1>1 DEF FindEndpoint, Continue, CheckQuota, SaveRequest, CountRequest, EnqueueForward, FailHandler,
              InController, TypeOK
<1>2. ASSUME NEW w \in Forwarder, CrashForwarder(w) PROVE arrival' = arrival
  BY <1>2 DEF CrashForwarder
<1> QED BY <1>1, <1>2
        DEF Next, ForwardingStep, CliReport, StartForward, SkipForward, LoadForward, ForwarderStep, SendForward,
            RecordForward, PublishResult, FinishForward, FailRecord, FailForward, DeleteRequests, DeleteEndpoint,
            forwardVars

LEMMA ConcludedStep == TypeOK /\ JobInv /\ ConcludedArrived /\ [Next]_forwardVars => ConcludedArrived'
<1> SUFFICES ASSUME TypeOK, JobInv, ConcludedArrived, [Next]_forwardVars PROVE ConcludedArrived'
  OBVIOUS
<1>. USE DEF intake, outcome
<1>1. \A q \in Request : arrival[q] = "done" => arrival'[q] = "done"
  BY DoneStays
<1>2. \A q \in concluded' : q \in concluded \/ arrival[q] = "done"
  <2>1. ASSUME NEW w \in Forwarder, PublishResult(w) PROVE \A q \in concluded' : q \in concluded \/ arrival[q] = "done"
    BY <2>1, OnlyOneHolds DEF PublishResult, TellRoom
  <2> QED BY <2>1 DEF Next, ForwardingStep, Continue, FindEndpoint, CheckQuota, SaveRequest, CountRequest,
         EnqueueForward, CliReport, FailHandler, StartForward, SkipForward, LoadForward, ForwarderStep, SendForward,
         RecordForward, FinishForward, FailRecord, FailForward, CrashForwarder, DeleteRequests,
         DeleteEndpoint, forwardVars
<1>3. concluded' \subseteq Request
  BY ForwardTypeStep DEF TypeOK
<1> QED BY <1>1, <1>2, <1>3 DEF ConcludedArrived

LEMMA ShownStep ==
  TypeOK /\ JobInv /\ SendInv /\ ConcludedArrived /\ ShownInv /\ [Next]_forwardVars => ShownInv'
<1> SUFFICES ASSUME TypeOK, JobInv, SendInv, ConcludedArrived, ShownInv, [Next]_forwardVars PROVE ShownInv'
  OBVIOUS
<1>. USE DEF intake, worker, outcome
<1>1. ASSUME NEW r \in Request,
             FindEndpoint(r) \/ CheckQuota(r) \/ CountRequest(r) \/ EnqueueForward(r) \/ FailHandler(r)
      PROVE  ShownInv'
  BY <1>1, ShownFrame DEF FindEndpoint, CheckQuota, CountRequest, EnqueueForward, FailHandler, TypeOK
<1>2. ASSUME NEW r \in Request, SaveRequest(r) PROVE ShownInv'
  BY <1>2, ShownFrame DEF SaveRequest, TypeOK, ConcludedArrived
<1>3. ASSUME NEW r \in Request, CliReport(r) PROVE ShownInv'
  BY <1>3, ShownFrame DEF CliReport, TypeOK, ForwardResult
<1>4. ASSUME NEW w \in Forwarder, NEW j \in ForwardJob, SkipForward(w, j) PROVE ShownInv'
  BY <1>4, ShownFrame DEF SkipForward, TypeOK
<1>5. ASSUME NEW w \in Forwarder, NEW j \in ForwardJob, LoadForward(w, j) PROVE ShownInv'
  BY <1>5 DEF LoadForward, ShownInv, RowShows, ResultVisible, TypeOK
<1>6. ASSUME NEW w \in Forwarder, SendForward(w) PROVE ShownInv'
  BY <1>6 DEF SendForward, ShownInv, RowShows, ResultVisible, TypeOK
<1>7. ASSUME NEW w \in Forwarder, RecordForward(w) PROVE ShownInv'
  <2>. DEFINE q == fjob[w].req
  <2>1. q \in Request /\ result[w] \in ForwardResult /\ fpc[w] \in {"answered", "caught"}
    BY <1>7, OnlyOneHolds DEF RecordForward, SendInv, AnswerInHand
  <2>2. \A r \in Request : r # q => forwardStatus'[r] = forwardStatus[r]
    BY <1>7, <2>1 DEF RecordForward, TypeOK
  <2>3. q \in requests => forwardStatus'[q] # "none"
    BY <1>7, <2>1 DEF RecordForward, Written, ShownInv, RowShows, ForwardResult, TypeOK
  <2>4. RowShows'
    BY <1>7, <2>1, <2>2, <2>3, OnlyOneHolds DEF RecordForward, ShownInv, RowShows, TypeOK
  <2>5. ResultVisible'
    BY <1>7, <2>1, <2>2, <2>3 DEF RecordForward, ShownInv, ResultVisible, TypeOK
  <2> QED BY <2>4, <2>5 DEF ShownInv
<1>8. ASSUME NEW w \in Forwarder, PublishResult(w) PROVE ShownInv'
  BY <1>8, OnlyOneHolds DEF PublishResult, TellRoom, ShownInv, RowShows, ResultVisible, TypeOK
<1>9. ASSUME NEW w \in Forwarder, FinishForward(w) \/ FailForward(w) PROVE ShownInv'
  BY <1>9 DEF FinishForward, FailForward, ReleaseForward, ShownInv, RowShows, ResultVisible, TypeOK
<1>10. ASSUME NEW w \in Forwarder, CrashForwarder(w) PROVE ShownInv'
  <2>1. ReleaseForward(w) /\ UNCHANGED <<requests, forwardStatus, concluded>>
    BY <1>10 DEF CrashForwarder
  <2> QED BY <2>1 DEF ReleaseForward, ShownInv, RowShows, ResultVisible, TypeOK
<1>11. ASSUME NEW w \in Forwarder, FailRecord(w) PROVE ShownInv'
  BY <1>11 DEF FailRecord, ShownInv, RowShows, ResultVisible, TypeOK
<1>12. ASSUME NEW gone \in SUBSET Request, DeleteRequests(gone) PROVE ShownInv'
  BY <1>12, ShownFrame DEF DeleteRequests, TypeOK
<1>13. CASE DeleteEndpoint
  BY <1>13, ShownFrame DEF DeleteEndpoint
<1>14. CASE UNCHANGED forwardVars
  BY <1>14, ShownFrame DEF forwardVars, TypeOK
<1> QED BY <1>1, <1>2, <1>3, <1>4, <1>5, <1>6, <1>7, <1>8, <1>9, <1>10, <1>11, <1>12, <1>13, <1>14
        DEF Next, ForwardingStep, Continue, StartForward, ForwarderStep

(* A published result can be seen on the row for as long as the row is     *)
(* there, although a worker writes only what changed since it loaded it.   *)
THEOREM ResultsShow == Spec => []ResultVisible
<1>1. Init => ConcludedArrived /\ ShownInv
  BY DEF Init, ConcludedArrived, ShownInv, RowShows, ResultVisible
<1>2. ShownInv => ResultVisible
  BY DEF ShownInv
<1> QED BY <1>1, <1>2, ForwardInvariant, ConcludedStep, ShownStep, PTL DEF Spec

-----------------------------------------------------------------------------
(* Nothing is forgotten between the handler, the queue and the worker.     *)

OnItsWay(r) == Waiting(r) \/ \E w \in Forwarder : Held(w, r)

(* A step keeps a forward that is on its way, lets it end in a result or a *)
(* fault, or was told that its row is gone.                                *)
LEMMA NotForgottenFrame ==
  ASSUME ForwardNotForgotten, target' = target,
         \A r \in requests' : arrival'[r] = "done" =>
             \/ r \in requests /\ arrival[r] = "done"
                /\ (OnItsWay(r) => OnItsWay(r)' \/ r \in concluded' \union lost')
             \/ target => OnItsWay(r)' \/ r \in lost',
         concluded \subseteq concluded', lost \subseteq lost'
  PROVE  ForwardNotForgotten'
BY DEF ForwardNotForgotten, OnItsWay, Waiting, Held

LEMMA NotForgottenStep ==
  TypeOK /\ JobInv /\ SendInv /\ ForwardNotForgotten /\ [Next]_forwardVars => ForwardNotForgotten'
<1> SUFFICES ASSUME TypeOK, JobInv, SendInv, ForwardNotForgotten, [Next]_forwardVars
             PROVE  ForwardNotForgotten'
  OBVIOUS
<1>. USE DEF intake, worker, outcome
<1>0. \A w \in Forwarder : fpc[w] # "idle" => fjob[w].req \in Request
  BY OnlyOneHolds
<1>1. ASSUME NEW r \in Request, FindEndpoint(r) \/ CheckQuota(r) \/ SaveRequest(r) \/ CountRequest(r) \/ CliReport(r)
      PROVE  ForwardNotForgotten'
  BY <1>1, NotForgottenFrame
     DEF FindEndpoint, CheckQuota, SaveRequest, CountRequest, CliReport, OnItsWay, Waiting, Held, TypeOK
<1>2. ASSUME NEW r \in Request, EnqueueForward(r) PROVE ForwardNotForgotten'
  <2>1. target => Waiting(r)'
    <3>1. target => [req |-> r, stalls |-> 0] \in forwardQueue'
      BY <1>2 DEF EnqueueForward, Forwardable
    <3>2. [req |-> r, stalls |-> 0].req = r
      OBVIOUS
    <3> QED BY <3>1, <3>2, Zenon DEF Waiting
  <2>2. \A q \in Request : OnItsWay(q) => OnItsWay(q)'
    BY <1>2 DEF EnqueueForward, OnItsWay, Waiting, Held
  <2> QED BY <1>2, <2>1, <2>2, NotForgottenFrame DEF EnqueueForward, OnItsWay, TypeOK
<1>3. ASSUME NEW r \in Request, FailHandler(r) PROVE ForwardNotForgotten'
  BY <1>3, NotForgottenFrame DEF FailHandler, InController, OnItsWay, Waiting, Held, TypeOK
<1>4. ASSUME NEW w \in Forwarder, NEW j \in ForwardJob, SkipForward(w, j) PROVE ForwardNotForgotten'
  BY <1>4 DEF SkipForward, ForwardNotForgotten, TypeOK
<1>5. ASSUME NEW w \in Forwarder, NEW j \in ForwardJob, LoadForward(w, j) PROVE ForwardNotForgotten'
  BY <1>5, NotForgottenFrame DEF LoadForward, OnItsWay, Waiting, Held, TypeOK
<1>6. ASSUME NEW w \in Forwarder,
             SendForward(w) \/ RecordForward(w) \/ PublishResult(w) \/ FailRecord(w)
      PROVE  ForwardNotForgotten'
  <2>1. /\ \A q \in Request : OnItsWay(q) => OnItsWay(q)'
        /\ UNCHANGED <<target, requests, arrival, lost>>
        /\ concluded \subseteq concluded'
    BY <1>6 DEF SendForward, RecordForward, PublishResult, TellRoom, FailRecord, OnItsWay, Waiting, Held, TypeOK
  <2> QED BY <2>1, NotForgottenFrame DEF TypeOK
<1>7. ASSUME NEW w \in Forwarder, FinishForward(w) \/ FailForward(w) PROVE ForwardNotForgotten'
  <2>1. \A q \in Request : OnItsWay(q) => OnItsWay(q)' \/ q \in concluded' \union lost'
    BY <1>7 DEF FinishForward, FailForward, ReleaseForward, OnItsWay, Waiting, Held, SendInv, AnswerInHand, TypeOK
  <2> QED BY <1>7, <2>1, NotForgottenFrame DEF FinishForward, FailForward, TypeOK
<1>8. ASSUME NEW w \in Forwarder, CrashForwarder(w) PROVE ForwardNotForgotten'
  <2>1. ReleaseForward(w) /\ UNCHANGED <<target, requests, arrival, concluded>>
    BY <1>8 DEF CrashForwarder
  <2>2. /\ forwardQueue \subseteq forwardQueue' /\ lost \subseteq lost'
        /\ \A q \in Request : q = fjob[w].req => Waiting(q)' \/ q \in lost'
    <3>1. CASE MayStall(fjob[w])
      <4>1. PICK j \in ForwardJob : j.req = fjob[w].req /\ forwardQueue' = forwardQueue \union {j}
        BY <1>8, <3>1, StalledJob
      <4>2. lost' = lost
        BY <1>8, <3>1 DEF CrashForwarder
      <4> QED BY <4>1, <4>2 DEF Waiting
    <3>2. CASE ~ MayStall(fjob[w])
      BY <1>8, <3>2 DEF CrashForwarder
    <3> QED BY <3>1, <3>2
  <2>3. \A q \in Request : OnItsWay(q) => OnItsWay(q)' \/ q \in lost'
    BY <2>1, <2>2 DEF ReleaseForward, OnItsWay, Waiting, Held, TypeOK
  <2> QED BY <2>1, <2>2, <2>3, NotForgottenFrame DEF TypeOK
<1>9. ASSUME NEW gone \in SUBSET Request, DeleteRequests(gone) PROVE ForwardNotForgotten'
  BY <1>9 DEF DeleteRequests, ForwardNotForgotten
<1>10. CASE DeleteEndpoint
  BY <1>10 DEF DeleteEndpoint, ForwardNotForgotten
<1>11. CASE UNCHANGED forwardVars
  BY <1>11 DEF forwardVars, ForwardNotForgotten
<1> QED BY <1>1, <1>2, <1>3, <1>4, <1>5, <1>6, <1>7, <1>8, <1>9, <1>10, <1>11
        DEF Next, ForwardingStep, Continue, StartForward, ForwarderStep

(* A request with a target is on its way, has a published result, or was   *)
(* taken by a fault: no hand-over between handler, queue and worker drops  *)
(* it, and only a request whose row is gone is skipped.                    *)
THEOREM ForwardsKept == Spec => []ForwardNotForgotten
<1>1. Init => ForwardNotForgotten
  BY DEF Init, ForwardNotForgotten
<1> QED BY <1>1, ForwardInvariant, NotForgottenStep, PTL DEF Spec

-----------------------------------------------------------------------------
(* The endpoint's count.                                                   *)

(* What a handler has read is no more than was counted until it writes.    *)
CountBound ==
    /\ requestCount <= Cardinality(Counted)
    /\ \A r \in Request : arrival[r] \in {"found", "decided", "saved"} => countRead[r] <= Cardinality(Counted)
    /\ endpoint /\ Counted # {} => requestCount > 0

LEMMA CountedFinite ==
  /\ IsFiniteSet(Counted) /\ Cardinality(Counted) \in Nat
  /\ IsFiniteSet(Counted)' /\ Cardinality(Counted)' \in Nat
<1>1. Counted \subseteq Request /\ Counted' \subseteq Request
  BY DEF Counted
<1>2. \A S : S \subseteq Request => IsFiniteSet(S) /\ Cardinality(S) \in Nat
  BY ForwardingAssumption, FS_Subset, FS_CardinalityType
<1> QED BY <1>1, <1>2

LEMMA CountStep == TypeOK /\ CountBound /\ [Next]_forwardVars => CountBound'
<1> SUFFICES ASSUME TypeOK, CountBound, [Next]_forwardVars PROVE CountBound'
  OBVIOUS
<1>. USE DEF intake
<1>1. ASSUME NEW r \in Request, FindEndpoint(r) PROVE CountBound'
  <2>1. Counted' = Counted
    BY <1>1 DEF FindEndpoint, Counted, TypeOK
  <2> QED BY <1>1, <2>1, CountedFinite DEF FindEndpoint, CountBound, TypeOK
<1>2. ASSUME NEW r \in Request, CheckQuota(r) \/ SaveRequest(r) PROVE CountBound'
  <2>1. Counted' = Counted
    BY <1>2 DEF CheckQuota, SaveRequest, Counted, TypeOK
  <2> QED BY <1>2, <2>1 DEF CheckQuota, SaveRequest, CountBound, TypeOK
<1>3. ASSUME NEW r \in Request, CountRequest(r) PROVE CountBound'
  <2>1. Counted' = Counted \union {r} /\ r \notin Counted
    BY <1>3 DEF CountRequest, Counted, TypeOK
  <2>2. Cardinality(Counted)' = Cardinality(Counted) + 1
    BY <2>1, CountedFinite, FS_AddElement
  <2>3. countRead[r] <= Cardinality(Counted) /\ countRead[r] \in Nat
    BY <1>3 DEF CountRequest, CountBound, TypeOK
  <2>4. requestCount' <= Cardinality(Counted)' /\ (endpoint' => requestCount' > 0)
    BY <1>3, <2>2, <2>3, CountedFinite DEF CountRequest, CountAfter, CountBound, TypeOK
  <2>5. \A q \in Request : arrival'[q] \in {"found", "decided", "saved"} => countRead'[q] <= Cardinality(Counted)'
    BY <1>3, <2>2, CountedFinite DEF CountRequest, CountBound, TypeOK
  <2> QED BY <2>4, <2>5 DEF CountBound
<1>4. ASSUME NEW r \in Request, EnqueueForward(r) \/ FailHandler(r) PROVE CountBound'
  <2>1. Counted' = Counted
    BY <1>4 DEF EnqueueForward, FailHandler, InController, Counted, TypeOK
  <2>2. /\ UNCHANGED <<endpoint, requestCount, countRead>>
        /\ \A q \in Request : arrival'[q] \in {"found", "decided", "saved"} => arrival[q] = arrival'[q]
    BY <1>4 DEF EnqueueForward, FailHandler, InController, TypeOK
  <2> QED BY <2>1, <2>2 DEF CountBound
<1>5. ASSUME UNCHANGED <<requestCount, arrival, countRead>>, endpoint' => endpoint PROVE CountBound'
  BY <1>5 DEF CountBound, Counted
<1>6. ASSUME NEW w \in Forwarder, CrashForwarder(w) PROVE CountBound'
  BY <1>5, <1>6 DEF CrashForwarder
<1> QED BY <1>1, <1>2, <1>3, <1>4, <1>5, <1>6
        DEF Next, ForwardingStep, Continue, CliReport, StartForward, SkipForward, LoadForward, ForwarderStep,
            SendForward, RecordForward, PublishResult, FinishForward, FailRecord, FailForward, DeleteRequests,
            DeleteEndpoint, forwardVars

LEMMA CountInitially == Init => CountBound
<1> SUFFICES ASSUME Init PROVE CountBound
  OBVIOUS
<1>1. Counted = {}
  BY DEF Init, Counted
<1> QED BY <1>1, FS_EmptySet DEF Init, CountBound

(* Handlers write over each other's count, but no write exceeds the number *)
(* of webhooks counted by then, and none puts a visited endpoint at zero.  *)
THEOREM CountsPlausible == Spec => []CountWithinArrivals
<1>1. TypeOK /\ CountBound => CountWithinArrivals
  BY CountedFinite DEF TypeOK, CountBound, CountWithinArrivals
<1> QED BY <1>1, CountInitially, CountStep, ForwardingTypes, PTL DEF Spec

-----------------------------------------------------------------------------
(* The quota.                                                              *)

Handling == {r \in Request : InController(r)}

(* Requests within the quota that have their row, or are about to.         *)
Claimed == {r \in Request \ overlimit : r \in requests \/ arrival[r] = "decided"}

QuotaInv ==
    /\ Cardinality(Handling) <= MaxConcurrent
    /\ Cardinality(Claimed) < Quota + MaxConcurrent

(* Of two sets of webhooks the smaller has no more members.                *)
LEMMA SubsetSmaller ==
  ASSUME NEW S, NEW T, S \subseteq T, T \subseteq Request
  PROVE  /\ IsFiniteSet(S) /\ IsFiniteSet(T)
         /\ Cardinality(S) \in Nat /\ Cardinality(T) \in Nat
         /\ Cardinality(S) <= Cardinality(T)
<1>1. IsFiniteSet(T)
  BY ForwardingAssumption, FS_Subset
<1>2. IsFiniteSet(S) /\ Cardinality(S) <= Cardinality(T)
  BY <1>1, FS_Subset
<1> QED BY <1>1, <1>2, FS_CardinalityType

LEMMA QuotaFrame ==
  ASSUME QuotaInv, Handling' \subseteq Handling, Claimed' \subseteq Claimed
  PROVE  QuotaInv'
<1>1. Handling \subseteq Request /\ Claimed \subseteq Request
  BY DEF Handling, Claimed
<1>2. Cardinality(Handling') <= Cardinality(Handling) /\ Cardinality(Handling') \in Nat /\ Cardinality(Handling) \in Nat
  BY <1>1, SubsetSmaller
<1>3. Cardinality(Claimed') <= Cardinality(Claimed) /\ Cardinality(Claimed') \in Nat /\ Cardinality(Claimed) \in Nat
  BY <1>1, SubsetSmaller
<1> QED BY <1>2, <1>3, ForwardingAssumption DEF QuotaInv

LEMMA QuotaStep == TypeOK /\ QuotaInv /\ [Next]_forwardVars => QuotaInv'
<1> SUFFICES ASSUME TypeOK, QuotaInv, [Next]_forwardVars PROVE QuotaInv'
  OBVIOUS
<1>. USE DEF intake
<1>1. ASSUME NEW r \in Request, FindEndpoint(r) PROVE QuotaInv'
  <2>1. Handling' \subseteq Handling \union {r} /\ Claimed' \subseteq Claimed
    BY <1>1 DEF FindEndpoint, Handling, InController, Claimed, TypeOK
  <2>2. Cardinality(Handling) < MaxConcurrent
    BY <1>1 DEF FindEndpoint, Handling
  <2>3. Handling \subseteq Request /\ Handling \union {r} \subseteq Request /\ Claimed \subseteq Request
    BY DEF Handling, Claimed
  <2>4. IsFiniteSet(Handling) /\ Cardinality(Handling) \in Nat
    BY <2>3, SubsetSmaller
  <2>5. Cardinality(Handling \union {r}) <= MaxConcurrent
    <3>1. Cardinality(Handling \union {r}) \in {Cardinality(Handling), Cardinality(Handling) + 1}
      BY <2>4, FS_AddElement
    <3> QED BY <2>2, <2>4, <3>1, ForwardingAssumption
  <2>6. Cardinality(Handling') <= MaxConcurrent
    BY <2>1, <2>3, <2>5, SubsetSmaller, ForwardingAssumption
  <2>7. Cardinality(Claimed') < Quota + MaxConcurrent
    BY <2>1, <2>3, SubsetSmaller, ForwardingAssumption DEF QuotaInv
  <2> QED BY <2>6, <2>7 DEF QuotaInv
<1>2. ASSUME NEW r \in Request, CheckQuota(r) PROVE QuotaInv'
  <2>1. Handling' = Handling
    BY <1>2 DEF CheckQuota, Handling, InController, TypeOK
  <2>2. CASE OverQuota(Cardinality(requests))
    <3>1. Claimed' \subseteq Claimed
      BY <1>2, <2>2 DEF CheckQuota, Claimed, TypeOK
    <3> QED BY <2>1, <3>1, QuotaFrame
  <2>3. CASE ~ OverQuota(Cardinality(requests))
    <3>1. Claimed' \subseteq requests \union Handling
      BY <1>2, <2>3 DEF CheckQuota, Claimed, Handling, InController, TypeOK
    <3>2. requests \subseteq Request /\ Handling \subseteq Request /\ requests \union Handling \subseteq Request
      BY DEF TypeOK, Handling
    <3>3. /\ IsFiniteSet(requests) /\ Cardinality(requests) \in Nat
          /\ IsFiniteSet(Handling) /\ Cardinality(Handling) \in Nat
          /\ Cardinality(requests \cap Handling) \in Nat
      BY <3>2, SubsetSmaller
    <3>4. Cardinality(requests) < Quota
      BY <2>3, <3>3, ForwardingAssumption DEF OverQuota
    <3>5. Cardinality(requests \union Handling) < Quota + MaxConcurrent
      BY <3>3, <3>4, FS_Union, ForwardingAssumption DEF QuotaInv
    <3>6. Cardinality(Claimed') < Quota + MaxConcurrent
      BY <3>1, <3>2, <3>5, SubsetSmaller, ForwardingAssumption
    <3> QED BY <2>1, <3>6 DEF QuotaInv
  <2> QED BY <2>2, <2>3
<1>3. ASSUME NEW r \in Request, SaveRequest(r) \/ CountRequest(r) \/ EnqueueForward(r) \/ FailHandler(r)
      PROVE  QuotaInv'
  <2>1. Handling' \subseteq Handling /\ Claimed' \subseteq Claimed
    BY <1>3 DEF SaveRequest, CountRequest, EnqueueForward, FailHandler, InController, Handling, Claimed, TypeOK
  <2> QED BY <2>1, QuotaFrame
<1>4. ASSUME UNCHANGED <<overlimit, arrival>>, requests' \subseteq requests PROVE QuotaInv'
  <2>1. Handling' \subseteq Handling /\ Claimed' \subseteq Claimed
    BY <1>4 DEF Handling, InController, Claimed
  <2> QED BY <2>1, QuotaFrame
<1>5. ASSUME NEW w \in Forwarder, CrashForwarder(w) PROVE QuotaInv'
  BY <1>4, <1>5 DEF CrashForwarder
<1> QED BY <1>1, <1>2, <1>3, <1>4, <1>5
        DEF Next, ForwardingStep, Continue, CliReport, StartForward, SkipForward, LoadForward, ForwarderStep,
            SendForward, RecordForward, PublishResult, FinishForward, FailRecord, FailForward, DeleteRequests,
            DeleteEndpoint, forwardVars

LEMMA QuotaInitially == Init => QuotaInv
<1> SUFFICES ASSUME Init PROVE QuotaInv
  OBVIOUS
<1>1. Handling = {} /\ Claimed = {}
  BY DEF Init, Handling, InController, Claimed
<1> QED BY <1>1, FS_EmptySet, ForwardingAssumption DEF QuotaInv

(* The quota is checked in one step and used in a later one: it is         *)
(* overshot by less than the number of handlers that run side by side.     *)
THEOREM QuotaOvershoot == Spec => []QuotaOvershootBounded
<1>1. ASSUME TypeOK, QuotaInv PROVE QuotaOvershootBounded
  <2>1. requests \ overlimit \subseteq Claimed /\ Claimed \subseteq Request
    BY <1>1 DEF Claimed, TypeOK
  <2> QED BY <1>1, <2>1, SubsetSmaller, ForwardingAssumption DEF QuotaInv, QuotaOvershootBounded
<1> QED BY <1>1, QuotaInitially, QuotaStep, ForwardingTypes, PTL DEF Spec

-----------------------------------------------------------------------------
(* Forwarding and retrying together.                                       *)

(* The retries leave the forwarding half alone, so that whatever holds of  *)
(* it alone holds of it in the whole delivery.                             *)
THEOREM DeliveryForwards == DeliverySpec => Spec
<1>1. DeliveryInit => Init
  BY DEF DeliveryInit
<1>2. [DeliveryNext]_deliveryVars => [Next]_forwardVars
  <2>1. DeliveryNext => Next \/ UNCHANGED forwardVars
    BY DEF DeliveryNext, ForwardingAlone, Hear, LoseEvent, RetryStep, RetryAlone, Delete, DeleteAll, Next
  <2>2. UNCHANGED deliveryVars => UNCHANGED forwardVars
    BY DEF deliveryVars
  <2> QED BY <2>1, <2>2
<1> QED BY <1>1, <1>2, PTL DEF DeliverySpec, Spec

LEMMA DeliveryInvariant == DeliverySpec => [](TypeOK /\ JobInv /\ SendInv)
BY DeliveryForwards, ForwardInvariant, PTL

(* The forwarding half alone takes no row from the retries' view.          *)
LEMMA GoneKept ==
  ASSUME TypeOK, ForwardingStep \/ UNCHANGED forwardVars
  PROVE  Gone' = Gone
<1>. USE DEF intake
<1>1. ASSUME NEW r \in Request, FindEndpoint(r) \/ Continue(r) \/ FailHandler(r) PROVE Gone' = Gone
  BY <1>1 DEF FindEndpoint, Continue, CheckQuota, SaveRequest, CountRequest, EnqueueForward, FailHandler,
              InController, Gone, TypeOK
<1>2. ASSUME UNCHANGED <<requests, arrival>> PROVE Gone' = Gone
  BY <1>2 DEF Gone
<1>3. ASSUME NEW w \in Forwarder, CrashForwarder(w) PROVE Gone' = Gone
  BY <1>2, <1>3 DEF CrashForwarder
<1> QED BY <1>1, <1>2, <1>3
        DEF ForwardingStep, CliReport, StartForward, SkipForward, LoadForward, ForwarderStep, SendForward,
            RecordForward, PublishResult, FinishForward, FailRecord, FailForward, forwardVars

(* A deletion of rows is, to the retries, the deletion of just these: the  *)
(* cascade never stands in the way of a deletion.                          *)
LEMMA CascadeFits ==
  ASSUME TypeOK, JobInv, NEW gone \in SUBSET requests, requests' = requests \ gone, arrival' = arrival
  PROVE  /\ gone \subseteq Request \ Gone
         /\ (Request \ Gone)' = (Request \ Gone) \ gone
BY DEF JobInv, RowsArrived, Gone, TypeOK

LEMMA RetryMapped ==
  ASSUME TypeOK, [DeliveryNext]_deliveryVars
  PROVE  [Retry!Next]_(Retry!vars)
<1>1. ASSUME UNCHANGED retryVars, Gone' = Gone PROVE UNCHANGED Retry!vars
  BY <1>1 DEF retryVars, Retry!vars, Retry!rows, Retry!local, Retry!history
<1>2. CASE ForwardingAlone
  BY <1>1, <1>2, GoneKept DEF ForwardingAlone
<1>3. ASSUME NEW r \in Request, Hear(r) PROVE Retry!Next
  BY <1>3 DEF Hear, RetryAlone, Retry!Next, Retry!RequestStep
<1>4. ASSUME NEW r \in Request, LoseEvent(r) PROVE UNCHANGED Retry!vars
  BY <1>1, <1>4, GoneKept DEF LoseEvent
<1>5. CASE RetryStep
  BY <1>5 DEF RetryStep, RetryAlone, Retry!Next, Retry!RequestStep
<1>6. ASSUME NEW gone \in SUBSET Request, Delete(gone) PROVE Retry!Next
  BY <1>6 DEF Delete, Retry!Next
<1>7. CASE DeleteAll
  <2>1. CASE requests = {} /\ UNCHANGED retryVars
    BY <1>1, <1>7, <2>1 DEF DeleteAll, DeleteEndpoint, Gone
  <2>2. CASE Retry!DeleteRequests(requests)
    BY <2>2 DEF Retry!Next, TypeOK
  <2> QED BY <1>7, <2>1, <2>2 DEF DeleteAll
<1>8. CASE UNCHANGED deliveryVars
  BY <1>1, <1>8, GoneKept DEF deliveryVars
<1> QED BY <1>2, <1>3, <1>4, <1>5, <1>6, <1>7, <1>8 DEF DeliveryNext

(* The forwarding half asks of the retries only what RetryLifecycle allows *)
(* and shows them its deletions: the whole delivery refines that module.   *)
THEOREM DeliveryRefinesRetry == DeliverySpec => ImplementsRetry
<1>1. DeliveryInit => Retry!Init
  BY DEF DeliveryInit
<1>2. TypeOK /\ [DeliveryNext]_deliveryVars => [Retry!Next]_(Retry!vars)
  BY RetryMapped
<1> QED BY <1>1, <1>2, DeliveryInvariant, PTL DEF DeliverySpec, ImplementsRetry, Retry!Spec

-----------------------------------------------------------------------------
(* What RetryProofs shows of the retries, here.                            *)
Proved == INSTANCE RetryProofs WITH stored <- Request \ Gone

LEMMA RetryBounds == Retry!RetryAssumption
BY DeliveryAssumption DEF Retry!RetryAssumption

(* The two instances of RetryLifecycle say the same.                       *)
LEMMA SameRetry == Retry!Spec => Proved!Spec
<1>1. Retry!Init => Proved!Init
  BY Zenon DEF Retry!Init, Proved!Init, Retry!Job, Proved!Job, Retry!Edits, Proved!Edits,
     Retry!MaxStalls, Proved!MaxStalls, Retry!NoRun, Proved!NoRun, Retry!NoJob, Proved!NoJob
<1>2. Retry!Next => Proved!Next
  BY Zenon
     DEF Retry!Next, Proved!Next, Retry!CreateRetry, Proved!CreateRetry, Retry!ScheduleFirst,
         Proved!ScheduleFirst, Retry!DeleteRequests, Proved!DeleteRequests,
         Retry!UpdateRetryPayload, Proved!UpdateRetryPayload, Retry!RunRetryManually,
         Proved!RunRetryManually, Retry!ScheduleManualRun, Proved!ScheduleManualRun, Retry!SkipJob,
         Proved!SkipJob, Retry!LoadJob, Proved!LoadJob, Retry!SendRequest, Proved!SendRequest,
         Retry!Reschedule, Proved!Reschedule, Retry!SaveFailure, Proved!SaveFailure,
         Retry!SaveSuccess, Proved!SaveSuccess, Retry!FinishJob, Proved!FinishJob,
         Retry!CrashWorker, Proved!CrashWorker, Retry!FailJob, Proved!FailJob,
         Retry!LoseFirstSchedule, Proved!LoseFirstSchedule, Retry!LoseManualRun,
         Proved!LoseManualRun, Retry!RequestStep, Proved!RequestStep, Retry!HandlerStep,
         Proved!HandlerStep, Retry!StartJob, Proved!StartJob, Retry!WorkerStep, Proved!WorkerStep,
         Retry!Job, Proved!Job, Retry!Edits, Proved!Edits, Retry!MaxStalls, Proved!MaxStalls,
         Retry!NoRun, Proved!NoRun, Retry!NoJob, Proved!NoJob, Retry!NewJob, Proved!NewJob,
         Retry!Enqueue, Proved!Enqueue, Retry!Dequeue, Proved!Dequeue, Retry!Eligible,
         Proved!Eligible, Retry!DelayKey, Proved!DelayKey, Retry!DelayKeys, Proved!DelayKeys,
         Retry!StatusAfterFailure, Proved!StatusAfterFailure, Retry!PayloadRead, Proved!PayloadRead,
         Retry!Holds, Proved!Holds, Retry!Answer, Proved!Answer, Retry!MaxAttempts,
         Proved!MaxAttempts, Retry!rows, Proved!rows, Retry!local, Proved!local, Retry!history,
         Proved!history, Retry!EditPayload, Proved!EditPayload, Retry!Forget, Proved!Forget,
         Retry!Release, Proved!Release, Retry!Fault, Proved!Fault, Retry!Waste, Proved!Waste,
         Retry!Drop, Proved!Drop
<1>3. UNCHANGED Retry!vars => UNCHANGED Proved!vars
  BY Zenon DEF Retry!vars, Proved!vars, Retry!rows, Proved!rows, Retry!local, Proved!local, Retry!history, Proved!history
<1>4. [Retry!Next]_(Retry!vars) => [Proved!Next]_(Proved!vars)
  BY <1>2, <1>3
<1> QED BY <1>1, <1>4, PTL DEF Retry!Spec, Proved!Spec

LEMMA DeliveryRetries == DeliverySpec => Proved!Spec
BY DeliveryRefinesRetry, SameRetry, PTL DEF ImplementsRetry

(* In the whole delivery too no pending retry is forgotten, none is left   *)
(* pending at its limit, and none sends a payload older than its author's. *)
THEOREM DeliveryKeepsRetries ==
  DeliverySpec => [](Retry!PendingBelowLimit /\ Retry!NoSilentStop /\ Retry!FreshPayload)
<1>1. Proved!Spec => [](Proved!TypeOK /\ Proved!PendingBelowLimit)
  BY RetryBounds, Proved!TypeCorrect
<1>2. Proved!Spec => []Proved!NoSilentStop
  BY RetryBounds, Proved!ChainKept
<1>3. Proved!Spec => []Proved!FreshPayload
  BY RetryBounds, Proved!PayloadFresh
<1>4. Proved!PendingBelowLimit /\ Proved!NoSilentStop /\ Proved!FreshPayload =>
        Retry!PendingBelowLimit /\ Retry!NoSilentStop /\ Retry!FreshPayload
  BY Zenon
     DEF Proved!PendingBelowLimit, Retry!PendingBelowLimit, Proved!MaxAttempts, Retry!MaxAttempts,
         Proved!NoSilentStop, Retry!NoSilentStop, Proved!Alive, Retry!Alive, Proved!Queued, Retry!Queued,
         Proved!InHand, Retry!InHand, Proved!Holds, Retry!Holds, Proved!Job, Retry!Job, Proved!Edits, Retry!Edits,
         Proved!MaxStalls, Retry!MaxStalls, Proved!FreshPayload, Retry!FreshPayload
<1> QED BY <1>1, <1>2, <1>3, <1>4, DeliveryRetries, PTL

SoleRetryWorker == \A v, w \in Worker : v = w

(* Over its whole life a webhook reaches its target at most six times,     *)
(* plus once for every fault that hit after a send: with one worker of the *)
(* retries, and with any number of workers of the forwards.                *)
THEOREM DeliveriesAreBounded ==
  ASSUME SoleRetryWorker
  PROVE  DeliverySpec => []DeliveriesBounded
<1>1. Proved!SingleWorker
  BY DEF SoleRetryWorker, Proved!SingleWorker
<1>2. Proved!Spec => []Proved!SendsBounded
  BY <1>1, RetryBounds, Proved!SendsAreBounded
<1>3. Proved!Spec => [](Proved!TypeOK /\ Proved!PendingBelowLimit)
  BY RetryBounds, Proved!TypeCorrect
<1>4. ASSUME TypeOK, ForwardedOnce, Proved!TypeOK, Proved!SendsBounded PROVE DeliveriesBounded
  <2> SUFFICES ASSUME NEW r \in Request, status[r] # "none"
               PROVE  forwards[r] + sends[r] <= 1 + struck[r] + Retry!MaxAttempts + wasted[r]
    BY DEF DeliveriesBounded
  <2>1. sends[r] <= Retry!MaxAttempts + wasted[r]
    BY <1>4 DEF Proved!SendsBounded, Proved!MaxAttempts, Retry!MaxAttempts
  <2>2. sends[r] \in Nat /\ wasted[r] \in Nat
    BY <1>4 DEF Proved!TypeOK
  <2>3. forwards[r] <= 1 + struck[r] /\ forwards[r] \in Nat /\ struck[r] \in Nat
    BY <1>4 DEF ForwardedOnce, TypeOK
  <2> QED BY <2>1, <2>2, <2>3 DEF Retry!MaxAttempts
<1> QED BY <1>2, <1>3, <1>4, DeliveryRetries, DeliveryForwards, ForwardingTypes, ForwardsBounded, PTL

(* So the delivery as a whole keeps what the retries promise the owner of  *)
(* an endpoint, through two refinements: of the retries by the delivery    *)
(* and of the contract by the retries.                                     *)
THEOREM DeliveryHonoursContract ==
  ASSUME SoleRetryWorker
  PROVE  DeliverySpec => Proved!ImplementsContract
<1>1. Proved!SingleWorker
  BY DEF SoleRetryWorker, Proved!SingleWorker
<1>2. Proved!Spec => Proved!ImplementsContract
  BY <1>1, RetryBounds, Proved!LifecycleImplementsContract
<1> QED BY <1>2, DeliveryRetries, PTL
=============================================================================
