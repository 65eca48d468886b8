----------------------------- MODULE RetryProofs -----------------------------
(***************************************************************************)
(* Proofs about RetryLifecycle for every set of requests, workers and      *)
(* handlers and every bound on runs, edits and faults.                     *)
(***************************************************************************)
EXTENDS RetryLifecycle, TLAPS

USE RetryAssumption DEF MaxAttempts, DelayKeys, MaxStalls, Edits

(* The types are inductive only with the limit, since base is read from the *)
(* attempts of a pending row, and the limit only if a new row starts at 0.  *)
NoRowNoAttempts == \A r \in Request : status[r] = "none" => attempts[r] = 0

TypeInv == TypeOK /\ PendingBelowLimit /\ NoRowNoAttempts

(* A job built from a request and an edit is a job; so is one that a stall *)
(* sends round once more.                                                  *)
LEMMA NewJobIsJob ==
  ASSUME NEW r \in Request, NEW e \in Edits
  PROVE  NewJob(r, e) \in Job
BY DEF NewJob, Job

LEMMA StalledJobIsJob ==
  ASSUME NEW j \in Job, j.stalls < MaxStalls
  PROVE  [j EXCEPT !.stalls = @ + 1] \in Job
BY DEF Job

LEMMA JobFields ==
  ASSUME NEW j \in Job
  PROVE  j.req \in Request /\ j.edit \in Edits
BY DEF Job

(* The queue stays a bag of jobs. *)
LEMMA EnqueueType ==
  ASSUME queue \in [Job -> Nat], NEW j \in Job, Enqueue(j)
  PROVE  queue' \in [Job -> Nat]
BY DEF Enqueue

LEMMA DequeueType ==
  ASSUME queue \in [Job -> Nat], NEW j \in Job, queue[j] > 0, Dequeue(j)
  PROVE  queue' \in [Job -> Nat]
BY DEF Dequeue

LEMMA TypeStep == TypeInv /\ [Next]_vars => TypeInv'
<1> SUFFICES ASSUME TypeInv, [Next]_vars PROVE TypeInv'
  OBVIOUS
<1>. USE DEF TypeInv, TypeOK, PendingBelowLimit, NoRowNoAttempts, Status, Answer, rows, local, history
<1>1. ASSUME NEW r \in Request, RequestStep(r) PROVE TypeInv'
  <2>1. CASE CreateRetry(r)
    BY <2>1 DEF CreateRetry
  <2>2. CASE ScheduleFirst(r)
    <3>1. queue' \in [Job -> Nat]
      BY <2>2, NewJobIsJob, EnqueueType DEF ScheduleFirst
    <3> QED BY <2>2, <3>1 DEF ScheduleFirst
  <2>3. CASE UpdateRetryPayload(r)
    BY <2>3 DEF UpdateRetryPayload, EditPayload
  <2>4. CASE LoseFirstSchedule(r)
    BY <2>4 DEF LoseFirstSchedule, Fault
  <2> QED BY <1>1, <2>1, <2>2, <2>3, <2>4 DEF RequestStep
<1>2. ASSUME NEW h \in Handler, HandlerStep(h) PROVE TypeInv'
  <2>1. ASSUME NEW r \in Request, RunRetryManually(h, r) PROVE TypeInv'
    <3>1. edits' \in [Request -> Edits]
      BY <2>1 DEF RunRetryManually, EditPayload
    <3>2. handler' \in [Handler -> Run \union {NoRun}]
      BY <2>1, <3>1 DEF RunRetryManually, Run
    <3> QED BY <2>1, <3>1, <3>2 DEF RunRetryManually
  <2>2. CASE ScheduleManualRun(h)
    <3>1. handler[h] \in Run
      BY <2>2 DEF ScheduleManualRun, NoRun
    <3>2. handler[h].req \in Request /\ handler[h].edit \in Edits
      BY <3>1 DEF Run
    <3>3. queue' \in [Job -> Nat]
      BY <2>2, <3>2, NewJobIsJob, EnqueueType DEF ScheduleManualRun
    <3> QED BY <2>2, <3>2, <3>3 DEF ScheduleManualRun
  <2>3. CASE LoseManualRun(h)
    BY <2>3 DEF LoseManualRun, Fault
  <2> QED BY <1>2, <2>1, <2>2, <2>3 DEF HandlerStep
<1>3. ASSUME NEW w \in Worker, NEW j \in Job, StartJob(w, j) PROVE TypeInv'
  <2>1. CASE SkipJob(w, j)
    BY <2>1, DequeueType DEF SkipJob
  <2>2. CASE LoadJob(w, j)
    <3>1. queue' \in [Job -> Nat]
      BY <2>2, DequeueType DEF LoadJob
    <3>2. base' \in [Worker -> 0..(MaxAttempts - 1)] /\ seen' \in [Worker -> Edits]
      BY <2>2, JobFields DEF LoadJob, Eligible, PayloadRead
    <3> QED BY <2>2, <3>1, <3>2 DEF LoadJob
  <2> QED BY <1>3, <2>1, <2>2 DEF StartJob
<1>4. ASSUME NEW w \in Worker, pc[w] # "idle" PROVE job[w] \in Job /\ job[w].req \in Request
  BY <1>4, JobFields
<1>5. ASSUME NEW w \in Worker, Release(w)
      PROVE  /\ pc' \in [Worker -> {"idle", "loaded", "answered", "scheduled", "saved"}]
             /\ job' \in [Worker -> Job \union {NoJob}]
             /\ \A v \in Worker : pc'[v] # "idle" => job'[v] \in Job
             /\ base' \in [Worker -> 0..(MaxAttempts - 1)]
             /\ seen' \in [Worker -> Edits]
             /\ answer' \in [Worker -> Answer \union {"none"}]
  BY <1>5 DEF Release, Forget
<1>6. ASSUME NEW w \in Worker, WorkerStep(w) PROVE TypeInv'
  <2>1. CASE SendRequest(w)
    BY <2>1, <1>4 DEF SendRequest
  <2>2. CASE Reschedule(w)
    <3>1. queue' \in [Job -> Nat] /\ alerted' \subseteq Request
      BY <2>2, <1>4, NewJobIsJob, EnqueueType DEF Reschedule
    <3> QED BY <2>2, <3>1 DEF Reschedule
  <2>3. CASE SaveFailure(w)
    BY <2>3, <1>4 DEF SaveFailure, StatusAfterFailure, Forget
  <2>4. CASE SaveSuccess(w)
    BY <2>4, <1>4 DEF SaveSuccess, Forget
  <2>5. CASE FinishJob(w)
    BY <2>5, <1>5 DEF FinishJob
  <2> QED BY <1>6, <2>1, <2>2, <2>3, <2>4, <2>5 DEF WorkerStep
<1>7. ASSUME NEW w \in Worker, CrashWorker(w) PROVE TypeInv'
  <2>1. queue' \in [Job -> Nat]
    BY <1>7, <1>4, StalledJobIsJob, EnqueueType DEF CrashWorker
  <2> QED BY <1>7, <2>1, <1>4, <1>5 DEF CrashWorker, Fault, Waste, Drop
<1>8. ASSUME NEW w \in Worker, FailJob(w) PROVE TypeInv'
  BY <1>8, <1>4, <1>5 DEF FailJob, Fault, Waste, Drop
<1>9. ASSUME NEW gone \in SUBSET Request, DeleteRequests(gone) PROVE TypeInv'
  BY <1>9 DEF DeleteRequests
<1>10. CASE UNCHANGED vars
  BY <1>10 DEF vars
<1> QED BY <1>1, <1>2, <1>3, <1>6, <1>7, <1>8, <1>9, <1>10 DEF Next

(* Types are preserved, and no row with five attempts is left pending.     *)
THEOREM TypeCorrect == Spec => [](TypeOK /\ PendingBelowLimit)
<1>1. Init => TypeInv
  BY DEF Init, TypeInv, TypeOK, PendingBelowLimit, NoRowNoAttempts, Status, NoRun
<1> QED BY <1>1, TypeStep, PTL DEF Spec, TypeInv

-----------------------------------------------------------------------------
NobodyAlerted == alerted = {}

(* The branch of the processor that would alert the owner of an exhausted  *)
(* retry is dead: a worker has at most four failures in hand, so the delay *)
(* map, which goes up to five, always has the next delay. No retry raises  *)
(* that alert, whatever the workers and the faults do.                     *)
THEOREM ExhaustionIsSilent == Spec => []NobodyAlerted
<1>1. Init => NobodyAlerted
  BY DEF Init, NobodyAlerted
<1>2. TypeOK /\ NobodyAlerted /\ [Next]_vars => NobodyAlerted'
  <2> SUFFICES ASSUME TypeOK, alerted = {}, [Next]_vars PROVE alerted' = {}
    BY DEF NobodyAlerted
  <2>. USE DEF history
  <2>1. ASSUME NEW w \in Worker, Reschedule(w) PROVE alerted' = {}
    <3>1. base[w] \in 0..4
      BY DEF TypeOK
    <3>2. DelayKey(base[w]) \in DelayKeys
      BY <3>1 DEF DelayKey
    <3> QED BY <2>1, <3>2 DEF Reschedule
  <2>2. ASSUME NEW w \in Worker, WorkerStep(w) PROVE alerted' = {}
    BY <2>1, <2>2 DEF WorkerStep, SendRequest, SaveFailure, SaveSuccess, FinishJob
  <2>3. ASSUME NEW w \in Worker, CrashWorker(w) \/ FailJob(w) PROVE alerted' = {}
    BY <2>3 DEF CrashWorker, FailJob
  <2>4. ASSUME NEW r \in Request, RequestStep(r) PROVE alerted' = {}
    BY <2>4 DEF RequestStep, CreateRetry, ScheduleFirst, UpdateRetryPayload, LoseFirstSchedule
  <2>5. ASSUME NEW h \in Handler, HandlerStep(h) PROVE alerted' = {}
    BY <2>5 DEF HandlerStep, RunRetryManually, ScheduleManualRun, LoseManualRun
  <2>6. ASSUME NEW w \in Worker, NEW j \in Job, StartJob(w, j) PROVE alerted' = {}
    BY <2>6 DEF StartJob, SkipJob, LoadJob
  <2>7. ASSUME NEW gone \in SUBSET Request, DeleteRequests(gone) PROVE alerted' = {}
    BY <2>7 DEF DeleteRequests
  <2>8. CASE UNCHANGED vars
    BY <2>8 DEF vars
  <2> QED BY <2>2, <2>3, <2>4, <2>5, <2>6, <2>7, <2>8 DEF Next
<1> QED BY <1>1, <1>2, TypeCorrect, PTL DEF Spec

-----------------------------------------------------------------------------
(* A chain of jobs passes a turn from the listener to a job, from the job  *)
(* to a worker, from the worker to the next job. The lemmas say that a     *)
(* step which does not concern a request leaves its turn where it was.     *)

LEMMA EnqueueKeeps ==
  ASSUME queue \in [Job -> Nat], NEW j \in Job, Enqueue(j)
  PROVE  \A r \in Request : Queued(r) \/ r = j.req => Queued(r)'
<1>1. \A i \in Job : queue[i] > 0 => queue'[i] > 0
  BY DEF Enqueue
<1>2. queue'[j] > 0
  BY DEF Enqueue
<1> SUFFICES ASSUME NEW r \in Request, Queued(r) \/ r = j.req
             PROVE  \E i \in Job : i.req = r /\ queue'[i] > 0
  BY DEF Queued
<1> QED BY <1>1, <1>2 DEF Queued

LEMMA DequeueKeepsOthers ==
  ASSUME queue \in [Job -> Nat], NEW j \in Job, Dequeue(j),
         NEW r \in Request, r # j.req, Queued(r)
  PROVE  Queued(r)'
<1>1. PICK i \in Job : i.req = r /\ queue[i] > 0
  BY DEF Queued
<1>2. queue'[i] = queue[i]
  BY <1>1 DEF Dequeue
<1> QED BY <1>1, <1>2 DEF Queued

LEMMA HandsKeep ==
  ASSUME NEW w \in Worker,
         \A v \in Worker \ {w} : pc'[v] = pc[v] /\ job'[v] = job[v],
         NEW r \in Request, InHand(r),
         Holds(w, r) => pc[w] \in {"scheduled", "saved"}
  PROVE  InHand(r)'
<1>1. PICK v \in Worker : Holds(v, r) /\ pc[v] \in {"loaded", "answered"}
  BY DEF InHand
<1>2. v # w
  BY <1>1
<1> QED BY <1>1, <1>2 DEF InHand, Holds

LEMMA ChainStep == TypeInv /\ NoSilentStop /\ [Next]_vars => NoSilentStop'
<1> SUFFICES ASSUME TypeInv, NoSilentStop, [Next]_vars,
                    NEW r \in Request, status'[r] = "pending"
             PROVE  Alive(r)' \/ dropped'[r] # "no"
  BY DEF NoSilentStop
<1>. USE DEF TypeInv, TypeOK, Alive
<1>1. status[r] = "pending" => Alive(r) \/ dropped[r] # "no"
  BY DEF NoSilentStop
<1>2. ASSUME NEW q \in Request, RequestStep(q) PROVE Alive(r)' \/ dropped'[r] # "no"
  <2>1. CASE CreateRetry(q)
    BY <2>1, <1>1 DEF CreateRetry, Queued, InHand, Holds, local, history
  <2>2. CASE ScheduleFirst(q)
    <3>1. PICK j \in Job : j = NewJob(q, 0)
      BY NewJobIsJob
    <3>2. Queued(r) \/ r = q => Queued(r)'
      BY <2>2, <3>1, EnqueueKeeps DEF ScheduleFirst, NewJob
    <3> QED BY <2>2, <3>2, <1>1 DEF ScheduleFirst, InHand, Holds, rows, local, history
  <2>3. CASE UpdateRetryPayload(q)
    BY <2>3, <1>1 DEF UpdateRetryPayload, Queued, InHand, Holds, local, history
  <2>4. CASE LoseFirstSchedule(q)
    BY <2>4, <1>1 DEF LoseFirstSchedule, Queued, InHand, Holds, rows, local
  <2> QED BY <1>2, <2>1, <2>2, <2>3, <2>4 DEF RequestStep
<1>3. ASSUME NEW h \in Handler, HandlerStep(h) PROVE Alive(r)' \/ dropped'[r] # "no"
  <2>1. ASSUME NEW q \in Request, RunRetryManually(h, q) PROVE Alive(r)' \/ dropped'[r] # "no"
    BY <2>1, <1>1 DEF RunRetryManually, Queued, InHand, Holds, local, history
  <2>2. CASE ScheduleManualRun(h)
    <3>0. handler[h] \in Run
      BY <2>2 DEF ScheduleManualRun, NoRun
    <3>1. handler[h].req \in Request /\ handler[h].edit \in Edits
      BY <3>0 DEF Run
    <3>2. PICK j \in Job : j = NewJob(handler[h].req, handler[h].edit)
      BY <3>1, NewJobIsJob
    <3>3. Queued(r) \/ r = handler[h].req => Queued(r)'
      BY <2>2, <3>2, EnqueueKeeps DEF ScheduleManualRun, NewJob
    <3> QED BY <2>2, <3>1, <3>3, <1>1 DEF ScheduleManualRun, InHand, Holds, rows, local
  <2>3. CASE LoseManualRun(h)
    BY <2>3, <1>1 DEF LoseManualRun, Queued, InHand, Holds, rows, local, history
  <2> QED BY <1>3, <2>1, <2>2, <2>3 DEF HandlerStep
<1>4. ASSUME NEW w \in Worker, NEW j \in Job, StartJob(w, j) PROVE Alive(r)' \/ dropped'[r] # "no"
  <2>1. CASE SkipJob(w, j)
    <3>1. status[r] = "pending" /\ r # j.req
      BY <2>1 DEF SkipJob, Eligible, rows
    <3>2. Queued(r) => Queued(r)'
      BY <2>1, <3>1, DequeueKeepsOthers DEF SkipJob
    <3> QED BY <2>1, <3>1, <3>2, <1>1 DEF SkipJob, InHand, Holds, local, history
  <2>2. CASE LoadJob(w, j)
    <3>1. CASE r = j.req
      <4>1. pc'[w] = "loaded" /\ job'[w].req = r
        BY <2>2, <3>1 DEF LoadJob
      <4> QED BY <4>1 DEF InHand, Holds
    <3>2. CASE r # j.req
      <4>1. Queued(r) => Queued(r)'
        BY <2>2, <3>2, DequeueKeepsOthers DEF LoadJob
      <4>2. InHand(r) => InHand(r)'
        BY <2>2, HandsKeep DEF LoadJob, Holds
      <4> QED BY <2>2, <4>1, <4>2, <1>1 DEF LoadJob, rows, history
    <3> QED BY <3>1, <3>2
  <2> QED BY <1>4, <2>1, <2>2 DEF StartJob
<1>5. ASSUME NEW w \in Worker, WorkerStep(w) PROVE Alive(r)' \/ dropped'[r] # "no"
  <2>1. CASE SendRequest(w)
    BY <2>1, <1>1 DEF SendRequest, Queued, InHand, Holds, rows
  <2>2. CASE Reschedule(w)
    <3>1. job[w].req \in Request /\ base[w] \in 0..4
      BY <2>2, JobFields DEF Reschedule
    <3>2. PICK j \in Job : j = NewJob(job[w].req, 0)
      BY <3>1, NewJobIsJob
    <3>3. Enqueue(j)
      BY <2>2, <3>1, <3>2 DEF Reschedule, DelayKey
    <3>4. Queued(r) \/ r = job[w].req => Queued(r)'
      BY <3>2, <3>3, EnqueueKeeps DEF NewJob
    <3>5. r # job[w].req => (InHand(r) => InHand(r)')
      BY <2>2, HandsKeep DEF Reschedule, Holds
    <3> QED BY <2>2, <3>4, <3>5, <1>1 DEF Reschedule, rows
  <2>3. CASE SaveFailure(w)
    <3>1. status[r] = "pending"
      BY <2>3 DEF SaveFailure, StatusAfterFailure
    <3>2. Queued(r) => Queued(r)'
      BY <2>3 DEF SaveFailure, Queued
    <3>3. CASE pc[w] = "answered" /\ r = job[w].req
      BY <2>3, <3>3 DEF SaveFailure
    <3>4. CASE ~ (pc[w] = "answered" /\ r = job[w].req)
      <4>1. InHand(r) => InHand(r)'
        BY <2>3, <3>4, HandsKeep DEF SaveFailure, Holds
      <4> QED BY <2>3, <3>1, <3>2, <3>4, <4>1, <1>1 DEF SaveFailure
    <3> QED BY <3>3, <3>4
  <2>4. CASE SaveSuccess(w)
    <3>1. status[r] = "pending" /\ r # job[w].req
      BY <2>4 DEF SaveSuccess
    <3>2. InHand(r) => InHand(r)'
      BY <2>4, <3>1, HandsKeep DEF SaveSuccess, Holds
    <3> QED BY <2>4, <3>1, <3>2, <1>1 DEF SaveSuccess, Queued, history
  <2>5. CASE FinishJob(w)
    <3>1. InHand(r) => InHand(r)'
      BY <2>5, HandsKeep DEF FinishJob, Release, Holds
    <3> QED BY <2>5, <3>1, <1>1 DEF FinishJob, Queued, rows, history
  <2> QED BY <1>5, <2>1, <2>2, <2>3, <2>4, <2>5 DEF WorkerStep
<1>6. ASSUME NEW w \in Worker, CrashWorker(w) PROVE Alive(r)' \/ dropped'[r] # "no"
  <2>1. job[w] \in Job /\ job[w].req \in Request
    BY <1>6, JobFields DEF CrashWorker
  <2>2. Holds(w, r) <=> r = job[w].req
    BY <1>6 DEF CrashWorker, Holds
  <2>3. r # job[w].req => (InHand(r) => InHand(r)')
    BY <1>6, <2>2, HandsKeep DEF CrashWorker, Release
  <2>4. CASE job[w].stalls < MaxStalls
    <3>1. PICK j \in Job : j = [job[w] EXCEPT !.stalls = @ + 1] /\ j.req = job[w].req
      BY <2>1, <2>4, StalledJobIsJob DEF Job
    <3>2. Queued(r) \/ r = job[w].req => Queued(r)'
      BY <1>6, <2>4, <3>1, EnqueueKeeps DEF CrashWorker
    <3> QED BY <1>6, <2>3, <2>4, <3>2, <1>1 DEF CrashWorker, rows
  <2>5. CASE ~ (job[w].stalls < MaxStalls)
    <3>1. Queued(r) => Queued(r)'
      BY <1>6, <2>5 DEF CrashWorker, Queued
    <3>2. r = job[w].req /\ pc[w] \in {"scheduled", "saved"} => (InHand(r) => InHand(r)')
      BY <1>6, HandsKeep DEF CrashWorker, Release
    <3> QED BY <1>6, <2>1, <2>3, <2>5, <3>1, <3>2, <1>1 DEF CrashWorker, Drop, rows
  <2> QED BY <2>4, <2>5
<1>7. ASSUME NEW w \in Worker, FailJob(w) PROVE Alive(r)' \/ dropped'[r] # "no"
  <2>1. r # job[w].req \/ pc[w] = "scheduled" => (InHand(r) => InHand(r)')
    BY <1>7, HandsKeep DEF FailJob, Release, Holds
  <2>2. Queued(r) => Queued(r)'
    BY <1>7 DEF FailJob, Queued
  <2> QED BY <1>7, <2>1, <2>2, <1>1 DEF FailJob, Drop, rows
<1>8. ASSUME NEW gone \in SUBSET Request, DeleteRequests(gone) PROVE Alive(r)' \/ dropped'[r] # "no"
  BY <1>8, <1>1 DEF DeleteRequests, Queued, InHand, Holds, local, history
<1>9. CASE UNCHANGED vars
  BY <1>9, <1>1 DEF vars, Queued, InHand, Holds, rows, local, history
<1> QED BY <1>2, <1>3, <1>4, <1>5, <1>6, <1>7, <1>8, <1>9 DEF Next

(* Whatever the workers, the users and the faults do, a row that says      *)
(* pending has someone coming for it, or its chain was dropped by a 4xx or *)
(* a fault and is on record as such.                                       *)
THEOREM ChainKept == Spec => []NoSilentStop
<1>1. Init => TypeInv
  BY DEF Init, TypeInv, TypeOK, PendingBelowLimit, NoRowNoAttempts, Status, NoRun
<1>2. Init => NoSilentStop
  BY DEF Init, NoSilentStop
<1> QED BY <1>1, <1>2, TypeStep, ChainStep, PTL DEF Spec

-----------------------------------------------------------------------------
(* Edits are saved before the job that depends on them is queued, and are  *)
(* never undone: so every author's edit, in a handler, in the queue or in  *)
(* a worker's hands, is on the row.                                        *)
QueuedEdits == \A j \in Job : queue[j] > 0 => j.edit <= edits[j.req]
SavedEdits == \A h \in Handler : handler[h].saved => handler[h].edit <= edits[handler[h].req]
HeldEdits == \A w \in Worker : pc[w] # "idle" => job[w].edit <= edits[job[w].req]

EditsInv == QueuedEdits /\ SavedEdits /\ HeldEdits /\ FreshPayload

LEMMA EnqueueEdits ==
  ASSUME TypeOK, QueuedEdits, NEW j \in Job, Enqueue(j), edits' = edits,
         j.edit <= edits[j.req]
  PROVE  QueuedEdits'
BY DEF TypeOK, QueuedEdits, Enqueue

LEMMA DequeueEdits ==
  ASSUME TypeOK, QueuedEdits, NEW j \in Job, Dequeue(j), edits' = edits
  PROVE  QueuedEdits'
BY DEF TypeOK, QueuedEdits, Dequeue

LEMMA EditsGrow ==
  ASSUME TypeOK, NEW r \in Request, EditPayload(r)
  PROVE  \A q \in Request : edits[q] \in Nat /\ edits'[q] \in Nat /\ edits'[q] >= edits[q]
BY DEF TypeOK, EditPayload

LEMMA EditsStep == TypeInv /\ EditsInv /\ [Next]_vars => EditsInv'
<1> SUFFICES ASSUME TypeInv, EditsInv, [Next]_vars PROVE EditsInv'
  OBVIOUS
<1>. USE DEF TypeInv, EditsInv
<1>0. ASSUME NEW w \in Worker, pc[w] # "idle"
      PROVE  job[w] \in Job /\ job[w].req \in Request /\ job[w].edit \in Nat
  BY <1>0, JobFields DEF TypeOK
<1>1. ASSUME NEW h \in Handler, handler[h].saved
      PROVE  handler[h].req \in Request /\ handler[h].edit \in Edits
  <2>1. handler[h] \in Run
    BY <1>1 DEF TypeOK, NoRun
  <2> QED BY <2>1 DEF Run
<1>2. \A j \in Job : j.req \in Request /\ j.edit \in Nat
  BY JobFields
<1>3. ASSUME NEW r \in Request, RequestStep(r) PROVE EditsInv'
  <2>1. CASE CreateRetry(r)
    BY <2>1 DEF CreateRetry, QueuedEdits, SavedEdits, HeldEdits, FreshPayload, local
  <2>2. CASE ScheduleFirst(r)
    <3>1. PICK j \in Job : j = NewJob(r, 0)
      BY NewJobIsJob
    <3>2. QueuedEdits'
      BY <2>2, <3>1, EnqueueEdits DEF ScheduleFirst, NewJob, rows, TypeOK
    <3> QED BY <2>2, <3>2 DEF ScheduleFirst, SavedEdits, HeldEdits, FreshPayload, local, rows
  <2>3. CASE UpdateRetryPayload(r)
    BY <2>3, <1>0, <1>1, <1>2, EditsGrow
       DEF UpdateRetryPayload, QueuedEdits, SavedEdits, HeldEdits, FreshPayload, local
  <2>4. CASE LoseFirstSchedule(r)
    BY <2>4 DEF LoseFirstSchedule, QueuedEdits, SavedEdits, HeldEdits, FreshPayload, local, rows
  <2> QED BY <1>3, <2>1, <2>2, <2>3, <2>4 DEF RequestStep
<1>4. ASSUME NEW h \in Handler, HandlerStep(h) PROVE EditsInv'
  <2>1. ASSUME NEW r \in Request, RunRetryManually(h, r) PROVE EditsInv'
    <3>1. \A q \in Request : edits[q] \in Nat /\ edits'[q] \in Nat /\ edits'[q] >= edits[q]
      BY <2>1, EditsGrow DEF RunRetryManually, TypeOK
    <3>2. QueuedEdits' /\ HeldEdits' /\ FreshPayload'
      BY <2>1, <3>1, <1>0, <1>2 DEF RunRetryManually, QueuedEdits, HeldEdits, FreshPayload, local
    <3>3. SavedEdits'
      BY <2>1, <3>1, <1>1 DEF RunRetryManually, SavedEdits, TypeOK
    <3> QED BY <3>2, <3>3
  <2>2. CASE ScheduleManualRun(h)
    <3>1. PICK j \in Job : j = NewJob(handler[h].req, handler[h].edit)
      BY <2>2, <1>1, NewJobIsJob DEF ScheduleManualRun
    <3>2. QueuedEdits'
      BY <2>2, <3>1, EnqueueEdits DEF ScheduleManualRun, NewJob, rows, SavedEdits
    <3>3. SavedEdits'
      BY <2>2 DEF ScheduleManualRun, SavedEdits, NoRun, rows, TypeOK
    <3> QED BY <2>2, <3>2, <3>3 DEF ScheduleManualRun, HeldEdits, FreshPayload, local, rows
  <2>3. CASE LoseManualRun(h)
    BY <2>3 DEF LoseManualRun, QueuedEdits, SavedEdits, HeldEdits, FreshPayload, local, rows, NoRun, TypeOK
  <2> QED BY <1>4, <2>1, <2>2, <2>3 DEF HandlerStep
<1>5. ASSUME NEW w \in Worker, NEW j \in Job, StartJob(w, j) PROVE EditsInv'
  <2>1. CASE SkipJob(w, j)
    BY <2>1, DequeueEdits DEF SkipJob, SavedEdits, HeldEdits, FreshPayload, local, rows
  <2>2. CASE LoadJob(w, j)
    <3>1. QueuedEdits'
      BY <2>2, DequeueEdits DEF LoadJob, rows
    <3>2. j.edit <= edits[j.req]
      BY <2>2 DEF LoadJob, QueuedEdits
    <3>3. HeldEdits' /\ FreshPayload'
      BY <2>2, <3>2 DEF LoadJob, PayloadRead, HeldEdits, FreshPayload, rows, TypeOK
    <3> QED BY <2>2, <3>1, <3>3 DEF LoadJob, SavedEdits, rows
  <2> QED BY <1>5, <2>1, <2>2 DEF StartJob
<1>6. ASSUME NEW w \in Worker, WorkerStep(w) PROVE EditsInv'
  <2>1. CASE SendRequest(w)
    BY <2>1 DEF SendRequest, QueuedEdits, SavedEdits, HeldEdits, FreshPayload, rows, TypeOK
  <2>2. CASE Reschedule(w)
    <3>1. job[w].req \in Request /\ base[w] \in 0..4
      BY <2>2, <1>0 DEF Reschedule, TypeOK
    <3>2. PICK j \in Job : j = NewJob(job[w].req, 0)
      BY <3>1, NewJobIsJob
    <3>3. Enqueue(j)
      BY <2>2, <3>1, <3>2 DEF Reschedule, DelayKey
    <3>4. QueuedEdits'
      BY <2>2, <3>1, <3>2, <3>3, EnqueueEdits DEF Reschedule, NewJob, rows, TypeOK
    <3> QED BY <2>2, <3>4 DEF Reschedule, SavedEdits, HeldEdits, FreshPayload, rows, TypeOK
  <2>3. CASE SaveFailure(w)
    BY <2>3 DEF SaveFailure, Forget, QueuedEdits, SavedEdits, HeldEdits, FreshPayload, TypeOK
  <2>4. CASE SaveSuccess(w)
    BY <2>4 DEF SaveSuccess, Forget, QueuedEdits, SavedEdits, HeldEdits, FreshPayload, TypeOK
  <2>5. CASE FinishJob(w)
    BY <2>5 DEF FinishJob, Release, Forget, QueuedEdits, SavedEdits, HeldEdits, FreshPayload, rows, TypeOK
  <2> QED BY <1>6, <2>1, <2>2, <2>3, <2>4, <2>5 DEF WorkerStep
<1>7. ASSUME NEW w \in Worker, CrashWorker(w) PROVE EditsInv'
  <2>1. QueuedEdits'
    <3>1. CASE job[w].stalls < MaxStalls
      <4>1. PICK j \in Job : /\ j = [job[w] EXCEPT !.stalls = @ + 1]
                             /\ j.req = job[w].req /\ j.edit = job[w].edit
        BY <1>7, <1>0, <3>1, StalledJobIsJob DEF CrashWorker, Job
      <4> QED BY <1>7, <3>1, <4>1, EnqueueEdits DEF CrashWorker, rows, HeldEdits
    <3>2. CASE ~ (job[w].stalls < MaxStalls)
      BY <1>7, <3>2 DEF CrashWorker, QueuedEdits, rows
    <3> QED BY <3>1, <3>2
  <2> QED BY <1>7, <2>1 DEF CrashWorker, Release, Forget, SavedEdits, HeldEdits, FreshPayload, rows, TypeOK
<1>8. ASSUME NEW w \in Worker, FailJob(w) PROVE EditsInv'
  BY <1>8 DEF FailJob, Release, Forget, QueuedEdits, SavedEdits, HeldEdits, FreshPayload, rows, TypeOK
<1>9. ASSUME NEW gone \in SUBSET Request, DeleteRequests(gone) PROVE EditsInv'
  BY <1>9 DEF DeleteRequests, QueuedEdits, SavedEdits, HeldEdits, FreshPayload, local
<1>10. CASE UNCHANGED vars
  BY <1>10 DEF vars, QueuedEdits, SavedEdits, HeldEdits, FreshPayload, rows, local
<1> QED BY <1>3, <1>4, <1>5, <1>6, <1>7, <1>8, <1>9, <1>10 DEF Next

(* A worker sends the payload its job's author saved, or a later one.      *)
THEOREM PayloadFresh == Spec => []FreshPayload
<1>1. Init => TypeInv
  BY DEF Init, TypeInv, TypeOK, PendingBelowLimit, NoRowNoAttempts, Status, NoRun
<1>2. Init => EditsInv
  BY DEF Init, EditsInv, QueuedEdits, SavedEdits, HeldEdits, FreshPayload, NoRun
<1>3. EditsInv => FreshPayload
  BY DEF EditsInv
<1> QED BY <1>1, <1>2, <1>3, TypeStep, EditsStep, PTL DEF Spec

-----------------------------------------------------------------------------
(* What holds when one worker serves the queue, as in the deployment of    *)
(* the repository: one process, BullMQ's default concurrency of 1. The     *)
(* sends are bounded and the lifecycle implements RetryContract.           *)
SingleWorker == \A v, w \in Worker : v = w

(* A row has its request; a request whose retry was never opened has had   *)
(* nothing sent for it and is in no worker's hands.                        *)
RowStored == \A r \in Request : status[r] # "none" => r \in stored

Unopened ==
    \A r \in stored : status[r] = "none" =>
        sends[r] = 0 /\ wasted[r] = 0 /\ \A w \in Worker : ~ Holds(w, r)

(* The row a worker read is still the row, unless it is gone: only this    *)
(* worker writes status and attempts.                                      *)
ReadIsCurrent ==
    \A w \in Worker, r \in Request :
        Holds(w, r) /\ pc[w] # "saved" /\ status[r] # "none" =>
            status[r] = "pending" /\ base[w] = attempts[r]

SoloInv == RowStored /\ Unopened /\ ReadIsCurrent /\ SendsAccounted /\ FailedIsExhausted

(* With one worker, what is in flight for a request is that worker's.      *)
LEMMA InFlightSolo ==
  ASSUME SingleWorker, NEW w \in Worker, NEW r \in Request
  PROVE  /\ InFlight(r) = IF Holds(w, r) /\ pc[w] \in {"answered", "scheduled"} THEN 1 ELSE 0
         /\ InFlight(r)' = IF Holds(w, r)' /\ pc'[w] \in {"answered", "scheduled"} THEN 1 ELSE 0
<1>1. \A v \in Worker : v = w
  BY DEF SingleWorker
<1> QED BY <1>1, Zenon DEF InFlight

(* Steps that leave the rows, the workers and the counts of sends alone.   *)
LEMMA SoloFrame ==
  ASSUME SoloInv, UNCHANGED <<stored, status, attempts, local, sends, wasted>>
  PROVE  SoloInv'
BY DEF SoloInv, RowStored, Unopened, ReadIsCurrent, SendsAccounted, FailedIsExhausted,
       Delivered, InFlight, Holds, local

LEMMA SoloStep ==
  ASSUME SingleWorker, TypeInv, SoloInv, [Next]_vars
  PROVE  SoloInv'
<1>. USE DEF TypeInv
<1>1. ASSUME NEW w \in Worker, pc[w] # "idle" PROVE job[w] \in Job /\ job[w].req \in Request
  BY <1>1, JobFields DEF TypeOK
<1>2. ASSUME NEW r \in Request, RequestStep(r) PROVE SoloInv'
  <2>1. CASE CreateRetry(r)
    <3>. USE <2>1 DEF CreateRetry, SoloInv, local, history
    <3>1. RowStored'
      BY DEF RowStored, TypeOK
    <3>2. Unopened' /\ ReadIsCurrent'
      BY DEF Unopened, ReadIsCurrent, Holds, TypeOK
    <3>3. InFlight(r) = 0 /\ \A q \in Request : InFlight(q)' = InFlight(q)
      BY DEF Unopened, InFlight, Holds
    <3>4. SendsAccounted'
      BY <3>3 DEF SendsAccounted, Unopened, Delivered, TypeOK, NoRowNoAttempts
    <3>5. FailedIsExhausted'
      BY DEF FailedIsExhausted, TypeOK, NoRowNoAttempts
    <3> QED BY <3>1, <3>2, <3>4, <3>5
  <2>2. CASE ScheduleFirst(r)
    BY <2>2, SoloFrame DEF ScheduleFirst, rows, history
  <2>3. CASE UpdateRetryPayload(r)
    BY <2>3, SoloFrame DEF UpdateRetryPayload, history
  <2>4. CASE LoseFirstSchedule(r)
    BY <2>4, SoloFrame DEF LoseFirstSchedule, rows
  <2> QED BY <1>2, <2>1, <2>2, <2>3, <2>4 DEF RequestStep
<1>3. ASSUME NEW h \in Handler, HandlerStep(h) PROVE SoloInv'
  <2>1. ASSUME NEW r \in Request, RunRetryManually(h, r) PROVE SoloInv'
    BY <2>1, SoloFrame DEF RunRetryManually, history
  <2>2. CASE ScheduleManualRun(h)
    BY <2>2, SoloFrame DEF ScheduleManualRun, rows
  <2>3. CASE LoseManualRun(h)
    BY <2>3, SoloFrame DEF LoseManualRun, rows, history
  <2> QED BY <1>3, <2>1, <2>2, <2>3 DEF HandlerStep
<1>4. ASSUME NEW w \in Worker, NEW j \in Job, StartJob(w, j) PROVE SoloInv'
  <2>1. CASE SkipJob(w, j)
    BY <2>1, SoloFrame DEF SkipJob, rows, history
  <2>2. CASE LoadJob(w, j)
    <3>. USE <2>2 DEF LoadJob, SoloInv, rows, history, Eligible
    <3>1. RowStored' /\ FailedIsExhausted'
      BY DEF RowStored, FailedIsExhausted
    <3>2. Unopened'
      BY JobFields DEF Unopened, Holds, TypeOK, SingleWorker
    <3>3. ReadIsCurrent'
      BY JobFields DEF ReadIsCurrent, Holds, TypeOK, SingleWorker
    <3>4. \A q \in Request : InFlight(q)' = InFlight(q)
      BY InFlightSolo DEF TypeOK
    <3>5. SendsAccounted'
      BY <3>4 DEF SendsAccounted, Delivered
    <3> QED BY <3>1, <3>2, <3>3, <3>5
  <2> QED BY <1>4, <2>1, <2>2 DEF StartJob
(* What a worker has saved is no longer in flight.                         *)
<1>5. ASSUME NEW w \in Worker, pc'[w] \in {"idle", "saved"}
      PROVE  \A q \in Request : InFlight(q)' = 0
  BY <1>5, InFlightSolo
<1>6. ASSUME NEW w \in Worker, pc[w] \in {"answered", "scheduled"}
      PROVE  \A q \in Request : InFlight(q) = IF q = job[w].req THEN 1 ELSE 0
  BY <1>6, InFlightSolo DEF Holds
<1>7. ASSUME NEW w \in Worker, pc[w] # "idle"
      PROVE  Holds(w, job[w].req) /\ \A q \in Request : Holds(w, q) => q = job[w].req
  BY <1>7 DEF Holds
<1>8. ASSUME NEW w \in Worker, WorkerStep(w) PROVE SoloInv'
  <2>1. CASE SendRequest(w)
    <3>. USE <2>1, <1>1, <1>7 DEF SendRequest, SoloInv, rows
    <3>1. RowStored' /\ FailedIsExhausted'
      BY DEF RowStored, FailedIsExhausted
    <3>2. Unopened' /\ ReadIsCurrent'
      BY DEF Unopened, ReadIsCurrent, Holds, TypeOK
    <3>3. \A q \in Request : /\ InFlight(q) = 0
                             /\ InFlight(q)' = IF q = job[w].req THEN 1 ELSE 0
      BY InFlightSolo DEF Holds, TypeOK
    <3>4. SendsAccounted'
      BY <3>3 DEF SendsAccounted, Delivered, TypeOK
    <3> QED BY <3>1, <3>2, <3>4
  <2>2. CASE Reschedule(w)
    <3>. USE <2>2, <1>1, <1>7 DEF Reschedule, SoloInv, rows
    <3>1. RowStored' /\ FailedIsExhausted' /\ Unopened' /\ ReadIsCurrent'
      BY DEF RowStored, FailedIsExhausted, Unopened, ReadIsCurrent, Holds, TypeOK
    <3>2. \A q \in Request : InFlight(q)' = InFlight(q)
      BY InFlightSolo DEF Holds, TypeOK
    <3>3. SendsAccounted'
      BY <3>2 DEF SendsAccounted, Delivered
    <3> QED BY <3>1, <3>3
  <2>3. CASE SaveFailure(w)
    <3>. USE <2>3, <1>1, <1>5, <1>6, <1>7 DEF SaveFailure, SoloInv, StatusAfterFailure
    <3>0. status[job[w].req] # "none" =>
            /\ status[job[w].req] = "pending"
            /\ base[w] = attempts[job[w].req]
      BY DEF ReadIsCurrent
    <3>1. RowStored' /\ FailedIsExhausted'
      BY <3>0 DEF RowStored, FailedIsExhausted, TypeOK
    <3>2. Unopened' /\ ReadIsCurrent'
      BY DEF Unopened, ReadIsCurrent, Holds, SingleWorker, TypeOK
    <3>3. \A q \in Request : InFlight(q)' = 0 /\ InFlight(q) = IF q = job[w].req THEN 1 ELSE 0
      BY DEF TypeOK
    <3>4. SendsAccounted'
      BY <3>0, <3>3 DEF SendsAccounted, Delivered, TypeOK
    <3> QED BY <3>1, <3>2, <3>4
  <2>4. CASE SaveSuccess(w)
    <3>. USE <2>4, <1>1, <1>5, <1>6, <1>7 DEF SaveSuccess, SoloInv, history
    <3>0. status[job[w].req] # "none" => status[job[w].req] = "pending"
      BY DEF ReadIsCurrent
    <3>1. RowStored' /\ FailedIsExhausted'
      BY <3>0 DEF RowStored, FailedIsExhausted, TypeOK, PendingBelowLimit
    <3>2. Unopened' /\ ReadIsCurrent'
      BY DEF Unopened, ReadIsCurrent, Holds, SingleWorker, TypeOK
    <3>3. \A q \in Request : InFlight(q)' = 0 /\ InFlight(q) = IF q = job[w].req THEN 1 ELSE 0
      BY DEF TypeOK
    <3>4. SendsAccounted'
      BY <3>0, <3>3 DEF SendsAccounted, Delivered, TypeOK
    <3> QED BY <3>1, <3>2, <3>4
  <2>5. CASE FinishJob(w)
    <3>. USE <2>5, <1>5 DEF FinishJob, Release, SoloInv, rows, history
    <3>1. RowStored' /\ FailedIsExhausted'
      BY DEF RowStored, FailedIsExhausted
    <3>2. Unopened' /\ ReadIsCurrent'
      BY DEF Unopened, ReadIsCurrent, Holds, SingleWorker, TypeOK
    <3>3. \A q \in Request : InFlight(q)' = 0 /\ InFlight(q) = 0
      BY InFlightSolo DEF TypeOK
    <3>4. SendsAccounted'
      BY <3>3 DEF SendsAccounted, Delivered
    <3> QED BY <3>1, <3>2, <3>4
  <2> QED BY <1>8, <2>1, <2>2, <2>3, <2>4, <2>5 DEF WorkerStep
<1>9. ASSUME NEW w \in Worker, pc[w] # "idle", Waste(w), Release(w),
             UNCHANGED <<rows, sends>>
      PROVE  SoloInv'
  <2>. USE <1>9, <1>1, <1>5, <1>7 DEF Waste, Release, SoloInv, rows
  <2>1. RowStored' /\ FailedIsExhausted'
    BY DEF RowStored, FailedIsExhausted
  <2>2. Unopened' /\ ReadIsCurrent'
    BY DEF Unopened, ReadIsCurrent, Holds, SingleWorker, TypeOK
  <2>3. \A q \in Request :
          /\ InFlight(q)' = 0
          /\ InFlight(q) = IF q = job[w].req /\ pc[w] \in {"answered", "scheduled"} THEN 1 ELSE 0
    BY InFlightSolo DEF Holds, TypeOK
  <2>4. SendsAccounted'
    BY <2>3 DEF SendsAccounted, Delivered, TypeOK
  <2> QED BY <2>1, <2>2, <2>4
<1>10. ASSUME NEW w \in Worker, CrashWorker(w) \/ FailJob(w) PROVE SoloInv'
  BY <1>9, <1>10 DEF CrashWorker, FailJob
<1>11. ASSUME NEW gone \in SUBSET Request, DeleteRequests(gone) PROVE SoloInv'
  <2>. USE <1>11 DEF DeleteRequests, SoloInv, local, history
  <2>1. RowStored' /\ Unopened' /\ ReadIsCurrent'
    BY DEF RowStored, Unopened, ReadIsCurrent, Holds, TypeOK
  <2>2. \A q \in Request : InFlight(q)' = InFlight(q)
    BY DEF InFlight, Holds
  <2>3. SendsAccounted' /\ FailedIsExhausted'
    BY <2>2 DEF SendsAccounted, Delivered, FailedIsExhausted, TypeOK
  <2> QED BY <2>1, <2>3
<1>12. CASE UNCHANGED vars
  BY <1>12, SoloFrame DEF vars, rows, history
<1> QED BY <1>2, <1>3, <1>4, <1>8, <1>10, <1>11, <1>12 DEF Next

LEMMA SoloInitially == Init => TypeInv /\ SoloInv
<1>1. Init => TypeInv
  BY DEF Init, TypeInv, TypeOK, PendingBelowLimit, NoRowNoAttempts, Status, NoRun, Edits
<1>2. Init => SoloInv
  BY DEF Init, SoloInv, RowStored, Unopened, ReadIsCurrent, SendsAccounted, FailedIsExhausted, Holds
<1> QED BY <1>1, <1>2

(* The invariant of the deployed configuration.                            *)
LEMMA SoloAlways ==
  ASSUME SingleWorker
  PROVE  Spec => [](TypeInv /\ SoloInv)
<1>1. TypeInv /\ SoloInv /\ [Next]_vars => (TypeInv /\ SoloInv)'
  BY TypeStep, SoloStep
<1> QED BY <1>1, SoloInitially, PTL DEF Spec

(* Every request sent for a retry is counted on its row, in flight, or was *)
(* lost to a fault, whatever duplicate jobs the queue holds.               *)
THEOREM SendsAreAccounted ==
  ASSUME SingleWorker
  PROVE  Spec => []SendsAccounted
<1>1. TypeInv /\ SoloInv => SendsAccounted
  BY DEF SoloInv
<1> QED BY <1>1, SoloAlways, PTL

(* A target gets at most five requests for a retry, plus one for each      *)
(* fault that struck between a send and its save.                          *)
THEOREM SendsAreBounded ==
  ASSUME SingleWorker
  PROVE  Spec => []SendsBounded
<1>1. ASSUME TypeInv, SoloInv PROVE SendsBounded
  <2> SUFFICES ASSUME NEW r \in Request, status[r] # "none"
               PROVE  sends[r] <= MaxAttempts + wasted[r]
    BY DEF SendsBounded
  <2>. USE <1>1 DEF TypeInv, TypeOK, SoloInv, Status
  <2>1. sends[r] = attempts[r] + Delivered(r) + InFlight(r) + wasted[r]
    BY DEF SendsAccounted
  <2>2. InFlight(r) = 1 => status[r] = "pending"
    BY DEF InFlight, ReadIsCurrent
  <2>3. status[r] = "failed" <=> attempts[r] = MaxAttempts
    BY DEF FailedIsExhausted
  <2>4. Delivered(r) \in {0, 1} /\ InFlight(r) \in {0, 1} /\ (Delivered(r) = 1 => status[r] = "success")
    BY DEF Delivered, InFlight
  <2>5. attempts[r] \in 0..5 /\ wasted[r] \in Nat
    OBVIOUS
  <2>6. attempts[r] + Delivered(r) + InFlight(r) <= 5
    BY <2>2, <2>3, <2>4, <2>5
  <2> QED BY <2>1, <2>4, <2>5, <2>6
<1> QED BY <1>1, SoloAlways, PTL

(* Failed means five counted failures, no more and no fewer.               *)
THEOREM FailedMeansExhausted ==
  ASSUME SingleWorker
  PROVE  Spec => []FailedIsExhausted
<1>1. TypeInv /\ SoloInv => FailedIsExhausted
  BY DEF SoloInv
<1> QED BY <1>1, SoloAlways, PTL

-----------------------------------------------------------------------------
(* Each step of the lifecycle is a step of the contract or leaves its      *)
(* variables alone.                                                        *)
LEMMA ContractStep ==
  ASSUME SingleWorker, TypeInv, SoloInv, [Next]_vars
  PROVE  [Contract!Next]_(Contract!contractVars)
<1>. USE DEF TypeInv, Contract!Next, Contract!contractVars
<1>1. ASSUME NEW w \in Worker, pc[w] # "idle"
      PROVE  /\ job[w].req \in Request
             /\ pc[w] # "saved" /\ status[job[w].req] # "none" =>
                  status[job[w].req] = "pending" /\ base[w] = attempts[job[w].req]
  BY <1>1, JobFields DEF TypeOK, SoloInv, ReadIsCurrent, Holds
<1>2. ASSUME NEW w \in Worker, pc[w] \in {"answered", "scheduled"}, status[job[w].req] # "none"
      PROVE  attempts[job[w].req] < sends[job[w].req]
  <2>1. InFlight(job[w].req) = 1
    BY <1>2 DEF InFlight, Holds
  <2>2. Delivered(job[w].req) = 0
    BY <1>1, <1>2 DEF Delivered
  <2> QED BY <2>1, <2>2, <1>1, <1>2 DEF SoloInv, SendsAccounted, TypeOK
<1>3. ASSUME NEW r \in Request, RequestStep(r) PROVE [Contract!Next]_(Contract!contractVars)
  <2>1. CASE CreateRetry(r)
    BY <2>1 DEF CreateRetry, history, Contract!Open
  <2>2. CASE ScheduleFirst(r) \/ UpdateRetryPayload(r) \/ LoseFirstSchedule(r)
    BY <2>2 DEF ScheduleFirst, UpdateRetryPayload, LoseFirstSchedule, rows, history
  <2> QED BY <1>3, <2>1, <2>2 DEF RequestStep
<1>4. ASSUME NEW h \in Handler, HandlerStep(h) PROVE [Contract!Next]_(Contract!contractVars)
  BY <1>4 DEF HandlerStep, RunRetryManually, ScheduleManualRun, LoseManualRun, rows, history
<1>5. ASSUME NEW w \in Worker, NEW j \in Job, StartJob(w, j)
      PROVE  [Contract!Next]_(Contract!contractVars)
  BY <1>5 DEF StartJob, SkipJob, LoadJob, rows, history
<1>6. ASSUME NEW w \in Worker, WorkerStep(w) PROVE [Contract!Next]_(Contract!contractVars)
  <2>1. CASE SendRequest(w)
    BY <2>1, <1>1 DEF SendRequest, rows, Contract!Send
  <2>2. CASE Reschedule(w)
    BY <2>2 DEF Reschedule, rows
  <2>3. CASE SaveFailure(w)
    <3>1. CASE status[job[w].req] = "none"
      BY <2>3, <3>1 DEF SaveFailure
    <3>2. CASE status[job[w].req] # "none"
      <4>1. Contract!Fail(job[w].req)
        BY <2>3, <3>2, <1>1, <1>2
           DEF SaveFailure, StatusAfterFailure, Contract!Fail, PendingBelowLimit, TypeOK
      <4> QED BY <2>3, <4>1, <1>1 DEF SaveFailure
    <3> QED BY <3>1, <3>2
  <2>4. CASE SaveSuccess(w)
    <3>1. CASE status[job[w].req] = "none"
      <4>1. status' = status
        BY <2>4, <3>1 DEF SaveSuccess, TypeOK
      <4> QED BY <2>4, <4>1 DEF SaveSuccess, history
    <3>2. CASE status[job[w].req] # "none"
      BY <2>4, <3>2, <1>1, <1>2 DEF SaveSuccess, Contract!Succeed, history
    <3> QED BY <3>1, <3>2
  <2>5. CASE FinishJob(w)
    BY <2>5 DEF FinishJob, rows, history
  <2> QED BY <1>6, <2>1, <2>2, <2>3, <2>4, <2>5 DEF WorkerStep
<1>7. ASSUME NEW w \in Worker, CrashWorker(w) \/ FailJob(w)
      PROVE  [Contract!Next]_(Contract!contractVars)
  BY <1>7 DEF CrashWorker, FailJob, rows
<1>8. ASSUME NEW gone \in SUBSET Request, DeleteRequests(gone)
      PROVE  [Contract!Next]_(Contract!contractVars)
  BY <1>8 DEF DeleteRequests, history, Contract!Withdraw
<1>9. CASE UNCHANGED vars
  BY <1>9 DEF vars, rows, history
<1> QED BY <1>3, <1>4, <1>5, <1>6, <1>7, <1>8, <1>9 DEF Next

(* The queue, its workers, the users' edits and runs, the crashes and the  *)
(* failing calls keep the promise of RetryContract.                        *)
THEOREM LifecycleImplementsContract ==
  ASSUME SingleWorker
  PROVE  Spec => ImplementsContract
<1>1. Init => Contract!Init
  BY DEF Init, Contract!Init
<1>2. TypeInv /\ SoloInv /\ [Next]_vars => [Contract!Next]_(Contract!contractVars)
  BY ContractStep
<1> QED BY <1>1, <1>2, SoloAlways, PTL DEF Spec, ImplementsContract, Contract!Spec
=============================================================================
