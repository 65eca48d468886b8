---------------------------- MODULE RetryLifecycle ----------------------------
(***************************************************************************)
(* The automatic retry of a webhook whose forward failed: the row of the   *)
(* retries table, the BullMQ queue 'retry' with its delayed jobs, the      *)
(* workers that process them, the listener that opens a retry, and the     *)
(* user's handlers that edit or run one by hand.                           *)
(*                                                                         *)
(* A request has at most one retry (retries.request_id is unique and its   *)
(* foreign key cascades), so a retry is named by its request.              *)
(*                                                                         *)
(* Time is abstracted: a delayed job may start at any moment after it was  *)
(* queued, which covers every ratio between the delays of RETRY_DELAY_MAP  *)
(* and the time a worker is kept busy.                                     *)
(***************************************************************************)
EXTENDS Integers, FiniteSets

CONSTANTS
    Request,    (* the requests whose forward failed                       *)
    Worker,     (* the processes' workers of the queue 'retry': one each   *)
    Handler,    (* the HTTP handlers that may run a retry at the same time *)
    MaxRuns,    (* bound: manual runs over a behaviour                     *)
    MaxEdits,   (* bound: payload edits of one retry                       *)
    MaxFaults   (* bound: crashes and failing calls over a behaviour       *)

ASSUME RetryAssumption ==
    /\ MaxRuns \in Nat
    /\ MaxEdits \in Nat
    /\ MaxFaults \in Nat

(* Retry.onFail gives up at the fifth failure; the delays have keys 1..5.  *)
MaxAttempts == 5
DelayKeys == 1..5

(* BullMQ's default maxStalledCount: a job survives one lost worker.       *)
MaxStalls == 1

Edits == 0..MaxEdits

(* What a job of the queue stands for: the retry it names, the payload     *)
(* edit its author had saved (0 for the automatic jobs), and how many      *)
(* workers it has already outlived.                                        *)
Job == [req: Request, edit: Edits, stalls: 0..MaxStalls]

(* "none" is the absence of a row; "cancelled" is never written: nothing   *)
(* calls RetryRepository.cancel.                                           *)
Status == {"none", "pending", "success", "failed"}

(* HttpClient never throws: a transport failure is the status 0.           *)
Answer == {"unreachable", "ok", "client_error", "server_error"}

VARIABLES
    stored,     (* the rows of the requests table                          *)
    status,     (* retries.status                                          *)
    attempts,   (* retries.attempt_count                                   *)
    edits,      (* retries.custom_body/custom_headers, as an edit number   *)
    queue,      (* how many jobs of each kind wait in the queue            *)
    listener,   (* ForwardFailedListener, one instance per request         *)
    handler,    (* RunRetryManuallyHandler: the run it has saved           *)
    pc,         (* where each worker stands in RetryQueueProcessor         *)
    job,        (* the job it holds                                        *)
    base,       (* attempt_count as it read it                             *)
    seen,       (* the payload edit it read                                *)
    answer,     (* what the target answered                                *)
    alerted,    (* history: retries whose exhaustion raised an alert       *)
    sends,      (* history: requests sent to the target for each retry     *)
    dropped,    (* history: why the last chain of jobs ended without one   *)
    wasted,     (* history: sends whose outcome a fault kept off the row   *)
    runs,       (* manual runs so far                                      *)
    faults      (* faults so far                                           *)

rows == <<stored, status, attempts, edits>>
local == <<pc, job, base, seen, answer>>
history == <<alerted, sends, dropped, wasted>>
vars == <<rows, queue, listener, handler, local, history, runs, faults>>

NoRun == [saved |-> FALSE, req |-> "none", edit |-> 0]
Run == [saved: {TRUE}, req: Request, edit: Edits]

NoJob == [req |-> "none", edit |-> 0, stalls |-> 0]
NewJob(r, e) == [req |-> r, edit |-> e, stalls |-> 0]

Enqueue(j) == queue' = [queue EXCEPT ![j] = @ + 1]
Dequeue(j) == queue' = [queue EXCEPT ![j] = @ - 1]

(* What RetryQueueProcessor asks of a retry before it sends anything. *)
EligibleUnlessGone(r) == status[r] # "none"
Eligible(r) == status[r] = "pending"

(* The key under which a retry with n failures looks its next delay up.    *)
DelayKeyOfCurrent(n) == n
DelayKey(n) == n + 1

(* Retry.onFail's verdict at the n-th failure, and two off by one.         *)
StatusAfterFailureLate(n, s) == IF n > MaxAttempts THEN "failed" ELSE s
StatusAfterFailureEarly(n, s) == IF n >= MaxAttempts - 1 THEN "failed" ELSE s
StatusAfterFailure(n, s) == IF n >= MaxAttempts THEN "failed" ELSE s

(* The payload a job finds: every job has an identity map of its own. A    *)
(* map shared by the jobs would keep what the first of them read.          *)
PayloadOfSharedMap(r) == 0
PayloadRead(r) == edits[r]

Holds(w, r) == pc[w] # "idle" /\ job[w].req = r

-----------------------------------------------------------------------------
Init ==
    /\ stored = Request
    /\ status = [r \in Request |-> "none"]
    /\ attempts = [r \in Request |-> 0]
    /\ edits = [r \in Request |-> 0]
    /\ queue = [j \in Job |-> 0]
    /\ listener = [r \in Request |-> "idle"]
    /\ handler = [h \in Handler |-> NoRun]
    /\ pc = [w \in Worker |-> "idle"]
    /\ job = [w \in Worker |-> NoJob]
    /\ base = [w \in Worker |-> 0]
    /\ seen = [w \in Worker |-> 0]
    /\ answer = [w \in Worker |-> "none"]
    /\ alerted = {}
    /\ sends = [r \in Request |-> 0]
    /\ dropped = [r \in Request |-> "no"]
    /\ wasted = [r \in Request |-> 0]
    /\ runs = 0
    /\ faults = 0

-----------------------------------------------------------------------------
(* The row appears and disappears.                                         *)

(* ForwardFailedListener.handle up to the insert. A second event for the   *)
(* same request dies on the unique index, one for a deleted request on the *)
(* foreign key: neither changes anything.                                  *)
CreateRetry(r) ==
    /\ r \in stored
    /\ status[r] = "none"
    /\ listener[r] = "idle"
    /\ status' = [status EXCEPT ![r] = "pending"]
    /\ listener' = [listener EXCEPT ![r] = "saved"]
    /\ UNCHANGED <<stored, attempts, edits, queue, handler, local, history, runs, faults>>

(* ... and its second half, once the insert has returned.                  *)
ScheduleFirst(r) ==
    /\ listener[r] = "saved"
    /\ listener' = [listener EXCEPT ![r] = "idle"]
    /\ Enqueue(NewJob(r, 0))
    /\ UNCHANGED <<rows, handler, local, history, runs, faults>>

(* The user removes a request, the clean-up a batch of them, the deletion  *)
(* of an endpoint all of its requests; the foreign key takes their retries. *)
DeleteRequests(gone) ==
    /\ gone # {}
    /\ gone \subseteq stored
    /\ stored' = stored \ gone
    /\ status' = [r \in Request |-> IF r \in gone THEN "none" ELSE status[r]]
    /\ attempts' = [r \in Request |-> IF r \in gone THEN 0 ELSE attempts[r]]
    /\ UNCHANGED <<edits, queue, listener, handler, local, history, runs, faults>>

-----------------------------------------------------------------------------
(* The user's handlers. Each reads the row, sets the payload and flushes   *)
(* the columns it changed: status and attempt_count are not among them.    *)

EditPayload(r) ==
    /\ status[r] # "none"
    /\ edits[r] < MaxEdits
    /\ edits' = [edits EXCEPT ![r] = @ + 1]

UpdateRetryPayload(r) ==
    /\ EditPayload(r)
    /\ UNCHANGED <<stored, status, attempts, queue, listener, handler, local, history, runs, faults>>

(* RunRetryManuallyHandler.execute up to the save, with a new payload or   *)
(* without one. It does not look at the status.                            *)
RunRetryManually(h, r) ==
    /\ ~ handler[h].saved
    /\ status[r] # "none"
    /\ runs < MaxRuns
    /\ runs' = runs + 1
    /\ EditPayload(r) \/ UNCHANGED edits
    /\ handler' = [handler EXCEPT ![h] = [saved |-> TRUE, req |-> r, edit |-> edits'[r]]]
    /\ UNCHANGED <<stored, status, attempts, queue, listener, local, history, faults>>

(* ... and its scheduleRetry(retry.id, 0).                                 *)
ScheduleManualRun(h) ==
    /\ handler[h].saved
    /\ LET r == handler[h].req IN
       /\ Enqueue(NewJob(r, handler[h].edit))
       /\ dropped' = [dropped EXCEPT ![r] = "no"]
    /\ handler' = [handler EXCEPT ![h] = NoRun]
    /\ UNCHANGED <<rows, listener, local, alerted, sends, wasted, runs, faults>>

-----------------------------------------------------------------------------
(* RetryQueueProcessor.process, one action per external call.              *)

(* What the worker read and was told is of no use once the row is saved.   *)
Forget(w) ==
    /\ base' = [base EXCEPT ![w] = 0]
    /\ seen' = [seen EXCEPT ![w] = 0]
    /\ answer' = [answer EXCEPT ![w] = "none"]

Release(w) ==
    /\ pc' = [pc EXCEPT ![w] = "idle"]
    /\ job' = [job EXCEPT ![w] = NoJob]
    /\ Forget(w)

(* No such retry, or one that is not pending: the job ends at once.        *)
SkipJob(w, j) ==
    /\ pc[w] = "idle"
    /\ queue[j] > 0
    /\ ~ Eligible(j.req)
    /\ Dequeue(j)
    /\ UNCHANGED <<rows, listener, handler, local, history, runs, faults>>

(* findById reads the retry and, in the same query, its request.           *)
LoadJob(w, j) ==
    /\ pc[w] = "idle"
    /\ queue[j] > 0
    /\ Eligible(j.req)
    /\ Dequeue(j)
    /\ pc' = [pc EXCEPT ![w] = "loaded"]
    /\ job' = [job EXCEPT ![w] = j]
    /\ base' = [base EXCEPT ![w] = attempts[j.req]]
    /\ seen' = [seen EXCEPT ![w] = PayloadRead(j.req)]
    /\ UNCHANGED <<rows, listener, handler, answer, history, runs, faults>>

(* httpService.send to the target; nothing bounds how long it takes.       *)
SendRequest(w) ==
    /\ pc[w] = "loaded"
    /\ \E a \in Answer : answer' = [answer EXCEPT ![w] = a]
    /\ pc' = [pc EXCEPT ![w] = "answered"]
    /\ sends' = [sends EXCEPT ![job[w].req] = @ + 1]
    /\ UNCHANGED <<rows, queue, listener, handler, job, base, seen, alerted, dropped, wasted, runs, faults>>

(* A 5xx: the next job is queued BEFORE the row is saved. Without a delay  *)
(* for the next attempt the code raises an alert instead.                  *)
Reschedule(w) ==
    /\ pc[w] = "answered"
    /\ answer[w] = "server_error"
    /\ LET r == job[w].req IN
       IF DelayKey(base[w]) \in DelayKeys
       THEN Enqueue(NewJob(r, 0)) /\ UNCHANGED alerted
       ELSE alerted' = alerted \union {r} /\ UNCHANGED queue
    /\ pc' = [pc EXCEPT ![w] = "scheduled"]
    /\ UNCHANGED <<rows, listener, handler, job, base, seen, answer, sends, dropped, wasted, runs, faults>>

(* onFail and save: MikroORM writes the columns that differ from the row   *)
(* as it was loaded, so attempt_count always and status only when the      *)
(* fifth failure turned it to failed. On a row deleted meanwhile the       *)
(* UPDATE matches nothing.                                                 *)
SaveFailure(w) ==
    /\ \/ pc[w] = "answered" /\ answer[w] = "client_error"
       \/ pc[w] = "scheduled"
    /\ LET r == job[w].req
           n == base[w] + 1
       IN /\ IF status[r] = "none"
             THEN UNCHANGED <<status, attempts>>
             ELSE /\ attempts' = [attempts EXCEPT ![r] = n]
                  /\ status' = [status EXCEPT ![r] = StatusAfterFailure(n, @)]
          /\ dropped' = [dropped EXCEPT ![r] = IF pc[w] = "answered" THEN "client_error" ELSE @]
    /\ pc' = [pc EXCEPT ![w] = "saved"]
    /\ Forget(w)
    /\ UNCHANGED <<stored, edits, queue, listener, handler, job, alerted, sends, wasted, runs, faults>>

(* onSuccess and save: everything below 400, the status 0 included.        *)
SaveSuccess(w) ==
    /\ pc[w] = "answered"
    /\ answer[w] \in {"ok", "unreachable"}
    /\ LET r == job[w].req IN
       status' = [status EXCEPT ![r] = IF @ = "none" THEN @ ELSE "success"]
    /\ pc' = [pc EXCEPT ![w] = "saved"]
    /\ Forget(w)
    /\ UNCHANGED <<stored, attempts, edits, queue, listener, handler, job, history, runs, faults>>

(* process returns and BullMQ takes the job off its active list.           *)
FinishJob(w) ==
    /\ pc[w] = "saved"
    /\ Release(w)
    /\ UNCHANGED <<rows, queue, listener, handler, history, runs, faults>>

-----------------------------------------------------------------------------
(* Faults.                                                                 *)

Fault == faults < MaxFaults /\ faults' = faults + 1

Waste(w) ==
    wasted' = [wasted EXCEPT ![job[w].req] = IF pc[w] \in {"answered", "scheduled"} THEN @ + 1 ELSE @]

(* The chain of jobs ends here unless the turn has already been passed on. *)
Drop(w) ==
    dropped' = [dropped EXCEPT ![job[w].req] = IF pc[w] \in {"loaded", "answered"} THEN "fault" ELSE @]

(* The process dies: BullMQ finds the job stalled and puts it back, unless *)
(* that has already happened to it MaxStalls times. A job whose row was    *)
(* saved but that was not yet taken off the list comes back as well.       *)
CrashWorker(w) ==
    /\ pc[w] # "idle"
    /\ Fault
    /\ Waste(w)
    /\ IF job[w].stalls < MaxStalls
       THEN Enqueue([job[w] EXCEPT !.stalls = @ + 1]) /\ UNCHANGED dropped
       ELSE Drop(w) /\ UNCHANGED queue
    /\ Release(w)
    /\ UNCHANGED <<rows, listener, handler, alerted, sends, runs>>

(* Postgres or Redis rejects a call: the job fails, and the queue's jobs   *)
(* have a single attempt.                                                  *)
FailJob(w) ==
    /\ pc[w] \in {"loaded", "answered", "scheduled"}
    /\ Fault
    /\ Waste(w)
    /\ Drop(w)
    /\ Release(w)
    /\ UNCHANGED <<rows, queue, listener, handler, alerted, sends, runs>>

(* The listener dies, or its scheduleRetry is rejected, after the insert.  *)
LoseFirstSchedule(r) ==
    /\ listener[r] = "saved"
    /\ Fault
    /\ listener' = [listener EXCEPT ![r] = "idle"]
    /\ dropped' = [dropped EXCEPT ![r] = "fault"]
    /\ UNCHANGED <<rows, queue, handler, local, alerted, sends, wasted, runs>>

(* The same for a manual run: its edit stays, its job never comes.         *)
LoseManualRun(h) ==
    /\ handler[h].saved
    /\ Fault
    /\ handler' = [handler EXCEPT ![h] = NoRun]
    /\ UNCHANGED <<rows, queue, listener, local, history, runs>>

-----------------------------------------------------------------------------
StartJob(w, j) == SkipJob(w, j) \/ LoadJob(w, j)

WorkerStep(w) == SendRequest(w) \/ Reschedule(w) \/ SaveFailure(w) \/ SaveSuccess(w) \/ FinishJob(w)

RequestStep(r) ==
    \/ CreateRetry(r)
    \/ ScheduleFirst(r)
    \/ UpdateRetryPayload(r)
    \/ LoseFirstSchedule(r)

HandlerStep(h) ==
    \/ \E r \in Request : RunRetryManually(h, r)
    \/ ScheduleManualRun(h)
    \/ LoseManualRun(h)

Next ==
    \/ \E r \in Request : RequestStep(r)
    \/ \E gone \in SUBSET Request : DeleteRequests(gone)
    \/ \E h \in Handler : HandlerStep(h)
    \/ \E w \in Worker : \/ \E j \in Job : StartJob(w, j)
                         \/ WorkerStep(w)
                         \/ CrashWorker(w)
                         \/ FailJob(w)

Spec == Init /\ [][Next]_vars

(* What the runtime owes: Node runs every continuation, a live worker      *)
(* takes the jobs that are due (Redis hands them out in order, so none is  *)
(* passed over for ever), and the target's connection answers or breaks.   *)
(* Users and faults owe nothing.                                           *)
Fairness ==
    /\ \A r \in Request : /\ WF_vars(ScheduleFirst(r))
                          /\ SF_vars(\E w \in Worker, j \in Job : j.req = r /\ StartJob(w, j))
    /\ \A h \in Handler : WF_vars(ScheduleManualRun(h))
    /\ \A w \in Worker : WF_vars(WorkerStep(w))

FairSpec == Spec /\ Fairness

-----------------------------------------------------------------------------
(* Properties.                                                             *)

(* The type invariant. *)
TypeOK ==
    /\ stored \subseteq Request
    /\ status \in [Request -> Status]
    /\ attempts \in [Request -> 0..MaxAttempts]
    /\ edits \in [Request -> Edits]
    /\ queue \in [Job -> Nat]
    /\ listener \in [Request -> {"idle", "saved"}]
    /\ handler \in [Handler -> Run \union {NoRun}]
    /\ pc \in [Worker -> {"idle", "loaded", "answered", "scheduled", "saved"}]
    /\ job \in [Worker -> Job \union {NoJob}]
    /\ \A w \in Worker : pc[w] # "idle" => job[w] \in Job
    /\ base \in [Worker -> 0..(MaxAttempts - 1)]
    /\ seen \in [Worker -> Edits]
    /\ answer \in [Worker -> Answer \union {"none"}]
    /\ alerted \subseteq Request
    /\ sends \in [Request -> Nat]
    /\ dropped \in [Request -> {"no", "client_error", "fault"}]
    /\ wasted \in [Request -> Nat]
    /\ runs \in 0..MaxRuns
    /\ faults \in 0..MaxFaults

(* Who will still touch a retry: a queued job, a worker that has not yet   *)
(* handed its turn to a next job, or the listener that will queue one.     *)
Queued(r) == \E j \in Job : j.req = r /\ queue[j] > 0
InHand(r) == \E w \in Worker : Holds(w, r) /\ pc[w] \in {"loaded", "answered"}
Alive(r) == Queued(r) \/ InHand(r) \/ listener[r] = "saved"

(* A pending retry is never forgotten: as long as its row says pending,    *)
(* something will pick it up, unless a 4xx answer stopped it or a fault    *)
(* took its last job. No sweep of the table (RetryRepository.findPending   *)
(* has no caller) would ever find it otherwise.                            *)
NoSilentStop ==
    \A r \in Request : status[r] = "pending" => Alive(r) \/ dropped[r] # "no"

(* The fifth failure is the last: a row with five attempts is never left   *)
(* pending, however many workers save over one another.                    *)
PendingBelowLimit ==
    \A r \in Request : status[r] = "pending" => attempts[r] < MaxAttempts

(* A job sends a payload at least as recent as the edit its author had     *)
(* saved when he queued it (save before scheduleRetry in the handler, a    *)
(* fresh identity map for every job).                                      *)
FreshPayload ==
    \A w \in Worker : pc[w] \notin {"idle", "saved"} => seen[w] >= job[w].edit

InFlight(r) ==
    IF \E w \in Worker : Holds(w, r) /\ pc[w] \in {"answered", "scheduled"} THEN 1 ELSE 0
Delivered(r) == IF status[r] = "success" THEN 1 ELSE 0

(* With one worker: every request sent for a retry is on its row, in the   *)
(* worker's hands, or was lost to a fault. Duplicate jobs (a manual run    *)
(* beside the automatic chain, a redelivered job) are all counted.         *)
SendsAccounted ==
    \A r \in Request : status[r] # "none" =>
        sends[r] = attempts[r] + Delivered(r) + InFlight(r) + wasted[r]

(* With one worker: a target gets at most five requests for a retry, plus  *)
(* one for each fault that hit after a request was sent.                   *)
SendsBounded ==
    \A r \in Request : status[r] # "none" => sends[r] <= MaxAttempts + wasted[r]

(* With one worker: failed means exactly five counted failures.            *)
FailedIsExhausted ==
    \A r \in Request : status[r] # "none" => (status[r] = "failed" <=> attempts[r] = MaxAttempts)

Contract == INSTANCE RetryContract WITH
    Limit <- MaxAttempts, state <- status, failures <- attempts

(* With one worker the queue, the workers and the faults implement the     *)
(* promise made to the endpoint's owner.                                   *)
ImplementsContract == Contract!Spec

(* What http.client.ts:32 says: only transport-level failures are errors.  *)
(* The processor saves SUCCESS for the status 0 such a failure returns.    *)
SuccessMeansAnswered ==
    [][\A w \in Worker, r \in Request :
         Holds(w, r) /\ pc[w] = "answered" /\ status[r] = "pending" /\ status'[r] = "success" => answer[w] = "ok"]_vars

(* What retry.queue.processor.ts:161-181 sets out to do: the last 5xx of a *)
(* retry raises an endpoint_error alert. RETRY_DELAY_MAP has a key for the *)
(* fifth failure too, so the branch is never taken.                        *)
ExhaustionAlerts ==
    \A w \in Worker : pc[w] = "scheduled" /\ base[w] + 1 >= MaxAttempts => job[w].req \in alerted

(* A pending retry comes to an end: to success, to failed, to its removal, *)
(* or to one of the two ways a chain of jobs stops early.                  *)
PendingResolves ==
    \A r \in Request : status[r] = "pending" ~> (status[r] # "pending" \/ dropped[r] # "no")
=============================================================================
