--------------------------- MODULE BatchImageJob ---------------------------
(* One batch image job and the balance held for it: Submit, Cancel, the      *)
(* recovery of unsubmitted jobs, and the workers that poll the provider,     *)
(* index the results and settle (service/batch_image_*.go), over the job     *)
(* row, the billing statements of repository/usage_billing_repo.go and the   *)
(* Redis queue.                                                              *)
(*                                                                           *)
(* The hold is the unit of money. The user's other jobs appear only as what  *)
(* they have frozen (Others): a statement of this job cannot tell its own    *)
(* frozen money from theirs. A hold of zero, which no statement touches, is  *)
(* left out, and so is what happens to the outputs of a finished job.        *)
EXTENDS Integers

CONSTANTS Workers,          \* batch image workers, of all instances
          Cancels,          \* cancel requests
          None,
          Others,           \* frozen for the user's other jobs
          MaxRetries,       \* batchImageSettlementMaxRetries
          MaxReady          \* bound of the model: entries of the job in ready

ASSUME NoneAssumption == None \notin Workers

ASSUME BoundsAssumption ==
    /\ Others \in Nat
    /\ MaxRetries \in Nat \ {0}
    /\ MaxReady \in Nat

VARIABLES
    status,     \* of the job row; "none" before it is created
    name,       \* "set" once provider_job_name is
    upstream,   \* the provider's job
    retry,      \* retry_count, up to MaxRetries: more makes no difference
    claims,     \* request ids claimed in usage_billing_dedup
    effects,    \* history: what the statements did, "captured" or "returned"
    frozen,     \* the user's frozen_balance
    ready,      \* how often the job is in the ready list
    queue,      \* where else: "active", "delayed", and the "inflight" key
    lock,       \* holder of the job lock
    dropped,    \* history: "yes" if the job's way to the queue was cut off
    sub,        \* where Submit is
    can,        \* where each Cancel is
    rec,        \* where the recovery is with this job
    pc          \* where each worker is

money == <<claims, effects, frozen>>
queueVars == <<ready, queue>>
procs == <<sub, can, rec, pc>>
vars == <<status, name, upstream, retry, money, queueVars, lock, dropped, procs>>

Terminal == {"completed", "failed", "cancelled"}
Statuses == {"none", "created", "uploading", "submitted", "running",
             "indexing", "settling"} \cup Terminal
SubmitPCs == {"start", "hold", "items", "upload", "provider", "record",
              "abort", "enqueue", "release", "releaseOnly", "fail",
              "failRetry", "retry", "done"}
CancelPCs == {"idle", "provider", "enqueue", "transition", "release",
              "retry", "done"}
RecoveryPCs == {"idle", "fail", "release", "retry"}
WorkerPCs == {"idle", "lock", "dispatch", "process", "poll", "index",
              "release", "settle", "capture", "mark", "failure", "exhaust",
              "failJob", "requeue", "ack", "unlock"}

TypeOK ==
    /\ status \in Statuses
    /\ name \in {"none", "set"}
    /\ upstream \in {"none", "running", "succeeded", "failed", "cancelled"}
    /\ retry \in 0 .. MaxRetries
    /\ claims \subseteq {"hold", "capture", "release"}
    /\ effects \subseteq {"captured", "returned"}
    /\ frozen \in Nat
    /\ ready \in Nat
    /\ queue \subseteq {"active", "delayed", "inflight"}
    /\ lock \in Workers \cup {None}
    /\ dropped \in {"no", "yes"}
    /\ sub \in SubmitPCs
    /\ can \in [Cancels -> CancelPCs]
    /\ rec \in RecoveryPCs
    /\ pc \in [Workers -> WorkerPCs]

Init ==
    /\ status = "none" /\ name = "none" /\ upstream = "none"
    /\ retry = 0
    /\ claims = {} /\ effects = {} /\ frozen = Others
    /\ ready = 0 /\ queue = {}
    /\ lock = None
    /\ dropped = "no"
    /\ sub = "start"
    /\ can = [c \in Cancels |-> "idle"]
    /\ rec = "idle"
    /\ pc = [w \in Workers |-> "idle"]

-----------------------------------------------------------------------------
(* The job row.                                                              *)

\* Mutant: a finished job may still be submitted.
CanTransitionFromTerminal(from, to) ==
    \/ from \notin {"none"} /\ to = "failed"
    \/ from \in {"created", "uploading", "cancelled"} /\ to \in {"uploading", "submitted", "cancelled"}
    \/ from \in {"submitted", "running"} /\ to \in {"running", "indexing", "cancelled"}
    \/ from = "indexing" /\ to = "settling"

\* CanTransitionBatchImageJob, for the transitions the code asks for.
CanTransition(from, to) ==
    \/ from \notin Terminal \cup {"none"} /\ to = "failed"
    \/ from = "created" /\ to = "uploading"
    \/ from \in {"created", "uploading"} /\ to \in {"submitted", "cancelled"}
    \/ from \in {"submitted", "running"} /\ to \in {"running", "indexing", "cancelled"}
    \/ from = "indexing" /\ to = "settling"

\* TransitionBatchImageJobStatus: the row is locked and the status checked.
Transition(to) ==
    /\ CanTransition(status, to)
    /\ status' = to

\* The caller gets an error: the transition was refused or not done, or it was
\* done and the reply is lost.
NoTransition == UNCHANGED status
TransitionError(to) == NoTransition \/ Transition(to)

\* SetBatchImageJobSettlementFailed.
CountFailure == retry' = IF retry < MaxRetries THEN retry + 1 ELSE retry

-----------------------------------------------------------------------------
(* The billing statements. Each is one transaction that first claims its     *)
(* request id; one that is claimed already changes nothing and succeeds.     *)

ReserveOk ==
    /\ claims' = claims \cup {"hold"}
    /\ frozen' = frozen + 1
    /\ UNCHANGED effects

CaptureOk ==
    \/ /\ "capture" \in claims
       /\ UNCHANGED money
    \/ /\ "capture" \notin claims
       /\ frozen >= 1
       /\ claims' = claims \cup {"capture"}
       /\ effects' = effects \cup {"captured"}
       /\ frozen' = frozen - 1

\* Mutant: a release does not ask whether there is a hold.
ReleaseUnheldOk ==
    \/ /\ "release" \in claims
       /\ UNCHANGED money
    \/ /\ "release" \notin claims
       /\ frozen >= 1
       /\ claims' = claims \cup {"release"}
       /\ effects' = effects \cup {"returned"}
       /\ frozen' = frozen - 1

\* Without a hold the release id is claimed and nothing is given back.
ReleaseOk ==
    \/ /\ "release" \in claims
       /\ UNCHANGED money
    \/ /\ "release" \notin claims
       /\ "hold" \notin claims
       /\ claims' = claims \cup {"release"}
       /\ UNCHANGED <<effects, frozen>>
    \/ /\ "release" \notin claims
       /\ "hold" \in claims
       /\ frozen >= 1
       /\ claims' = claims \cup {"release"}
       /\ effects' = effects \cup {"returned"}
       /\ frozen' = frozen - 1

\* The caller gets an error: the statement was not done, or its reply is lost.
ReleaseError == UNCHANGED money \/ ReleaseOk
CaptureError == UNCHANGED money \/ CaptureOk

-----------------------------------------------------------------------------
(* The queue.                                                                *)

Enqueue ==
    \/ /\ "inflight" \in queue
       /\ UNCHANGED queueVars
    \/ /\ "inflight" \notin queue
       /\ queue' = queue \cup {"inflight"}
       /\ ready' = ready + 1

MoveDueDelayedToReady ==
    /\ "delayed" \in queue
    /\ ready < MaxReady
    /\ queue' = queue \ {"delayed"}
    /\ ready' = ready + 1
    /\ UNCHANGED <<status, name, upstream, retry, money, lock, dropped, procs>>

\* The heartbeat of a worker that still runs may fail.
RecoverStaleActive ==
    /\ "active" \in queue
    /\ ready < MaxReady
    /\ queue' = queue \ {"active"}
    /\ ready' = ready + 1
    /\ UNCHANGED <<status, name, upstream, retry, money, lock, dropped, procs>>

-----------------------------------------------------------------------------
(* Submit.                                                                   *)

jobVars == <<status, name, upstream, retry>>

CreateJob ==
    /\ sub = "start"
    /\ status' = "created"
    /\ sub' = "hold"
    /\ UNCHANGED <<name, upstream, retry, money, queueVars, lock, dropped, can, rec, pc>>

\* On any error nothing is released: if the hold was taken it is lost.
Reserve ==
    /\ sub = "hold"
    /\ \/ ReserveOk /\ sub' = "items" /\ UNCHANGED dropped
       \/ UNCHANGED <<money, dropped>> /\ sub' = "fail"
       \/ ReserveOk /\ sub' = "fail" /\ dropped' = "yes"
    /\ UNCHANGED <<jobVars, queueVars, lock, can, rec, pc>>

CreatePendingItems ==
    /\ sub = "items"
    /\ sub' \in {"upload", "release"}
    /\ UNCHANGED <<jobVars, money, queueVars, lock, dropped, can, rec, pc>>

\* A refused transition means that the job has ended: its status is kept.
StartUpload ==
    /\ sub = "upload"
    /\ \/ Transition("uploading") /\ sub' = "provider"
       \/ ~CanTransition(status, "uploading") /\ NoTransition /\ sub' = "releaseOnly"
       \/ TransitionError("uploading") /\ sub' = "release"
    /\ UNCHANGED <<name, upstream, retry, money, queueVars, lock, dropped, can, rec, pc>>

ProviderSubmit ==
    /\ sub = "provider"
    /\ \/ upstream' = "running" /\ sub' = "record"
       \/ UNCHANGED upstream /\ sub' = "release"
    /\ UNCHANGED <<status, name, retry, money, queueVars, lock, dropped, can, rec, pc>>

\* UpdateBatchImageJobProviderSubmit.
RecordSubmit ==
    /\ sub = "record"
    /\ \/ Transition("submitted") /\ name' = "set" /\ sub' = "enqueue" /\ UNCHANGED dropped
       \/ Transition("submitted") /\ name' = "set" /\ sub' = "abort" /\ dropped' = "yes"
       \/ NoTransition /\ sub' = "abort" /\ UNCHANGED <<name, dropped>>
    /\ UNCHANGED <<upstream, retry, money, queueVars, lock, can, rec, pc>>

\* The provider's job is cancelled, if that works. The hold is left to others.
AbortOrphan ==
    /\ sub = "abort"
    /\ upstream' \in {upstream, "cancelled"}
    /\ sub' = "done"
    /\ UNCHANGED <<status, name, retry, money, queueVars, lock, dropped, can, rec, pc>>

\* Enqueue as the last word of a handler on the job: it may fail.
EnqueueOrDrop ==
    \/ Enqueue /\ UNCHANGED dropped
    \/ UNCHANGED queueVars /\ dropped' = "yes"

EnqueueSubmitted ==
    /\ sub \in {"enqueue", "retry"}
    /\ EnqueueOrDrop
    /\ sub' = "done"
    /\ UNCHANGED <<jobVars, money, lock, can, rec, pc>>

\* releaseFailedSubmitHold.
ReleaseFailedSubmit ==
    /\ sub \in {"release", "releaseOnly"}
    /\ \/ ReleaseOk /\ sub' = IF sub = "release" THEN "fail" ELSE "done"
       \/ ReleaseError /\ sub' = "failRetry"
    /\ UNCHANGED <<jobVars, queueVars, lock, dropped, can, rec, pc>>

\* RecordBatchImageJobSubmitFailure: whatever the status is by now.
RecordSubmitFailure ==
    /\ sub \in {"fail", "failRetry"}
    /\ status' \in {status, "failed"}
    /\ sub' = IF sub = "fail" THEN "done" ELSE "retry"
    /\ UNCHANGED <<name, upstream, retry, money, queueVars, lock, dropped, can, rec, pc>>

SubmitStops ==
    /\ sub \notin {"start", "done"}
    /\ sub' = "done"
    /\ dropped' = IF sub \in {"enqueue", "retry"} THEN "yes" ELSE dropped
    /\ UNCHANGED <<jobVars, money, queueVars, lock, can, rec, pc>>

\* Submit again with the same idempotency key.
Resubmit ==
    /\ status = "submitted"
    /\ Enqueue
    /\ UNCHANGED <<jobVars, money, lock, dropped, procs>>

Submit ==
    \/ CreateJob \/ Reserve \/ CreatePendingItems \/ StartUpload \/ ProviderSubmit
    \/ RecordSubmit \/ AbortOrphan \/ EnqueueSubmitted \/ ReleaseFailedSubmit
    \/ RecordSubmitFailure \/ SubmitStops \/ Resubmit

-----------------------------------------------------------------------------
(* Cancel, and the recovery of jobs that never reached the provider.         *)

CancelStep(c, step) == can' = [can EXCEPT ![c] = step]

\* Cancel decides by the row it reads here, and does not read it again.
CancelReads(c) ==
    /\ can[c] = "idle"
    /\ status # "none"
    /\ \/ status \in {"failed", "cancelled"} /\ CancelStep(c, "release")
       \/ status \in {"settling", "completed"} /\ CancelStep(c, "done")
       \/ status \notin Terminal \cup {"settling"} /\ name = "set" /\ CancelStep(c, "provider")
       \/ status \notin Terminal \cup {"settling"} /\ name = "none" /\ CancelStep(c, "transition")
    /\ UNCHANGED <<jobVars, money, queueVars, lock, dropped, sub, rec, pc>>

CancelProvider(c) ==
    /\ can[c] = "provider"
    /\ \/ /\ upstream' = IF upstream = "running" THEN "cancelled" ELSE upstream
          /\ CancelStep(c, "enqueue")
       \/ UNCHANGED upstream /\ CancelStep(c, "done")
    /\ UNCHANGED <<status, name, retry, money, queueVars, lock, dropped, sub, rec, pc>>

CancelEnqueues(c) ==
    /\ can[c] = "enqueue"
    /\ Enqueue \/ UNCHANGED queueVars
    /\ CancelStep(c, "done")
    /\ UNCHANGED <<jobVars, money, lock, dropped, sub, rec, pc>>

CancelTransition(c) ==
    /\ can[c] = "transition"
    /\ \/ Transition("cancelled") /\ CancelStep(c, "release") /\ UNCHANGED dropped
       \/ Transition("cancelled") /\ CancelStep(c, "done") /\ dropped' = "yes"
       \/ NoTransition /\ CancelStep(c, "done") /\ UNCHANGED dropped
    /\ UNCHANGED <<name, upstream, retry, money, queueVars, lock, sub, rec, pc>>

CancelReleases(c) ==
    /\ can[c] = "release"
    /\ \/ ReleaseOk /\ CancelStep(c, "done")
       \/ ReleaseError /\ CancelStep(c, "retry")
    /\ UNCHANGED <<jobVars, queueVars, lock, dropped, sub, rec, pc>>

CancelRetries(c) ==
    /\ can[c] = "retry"
    /\ EnqueueOrDrop
    /\ CancelStep(c, "done")
    /\ UNCHANGED <<jobVars, money, lock, sub, rec, pc>>

CancelStops(c) ==
    /\ can[c] \notin {"idle", "done"}
    /\ CancelStep(c, "done")
    /\ dropped' = IF can[c] \in {"release", "retry"} THEN "yes" ELSE dropped
    /\ UNCHANGED <<jobVars, money, queueVars, lock, sub, rec, pc>>

Cancel(c) ==
    \/ CancelReads(c) \/ CancelProvider(c) \/ CancelEnqueues(c)
    \/ CancelTransition(c) \/ CancelReleases(c) \/ CancelRetries(c) \/ CancelStops(c)

Unsubmitted == status \in {"created", "uploading"} /\ name = "none"

RecoveryLists ==
    /\ rec = "idle"
    /\ Unsubmitted
    /\ rec' = "fail"
    /\ UNCHANGED <<jobVars, money, queueVars, lock, dropped, sub, can, pc>>

RecoveryFails ==
    /\ rec = "fail"
    /\ \/ Unsubmitted /\ status' = "failed" /\ rec' = "release" /\ UNCHANGED dropped
       \/ Unsubmitted /\ status' = "failed" /\ rec' = "idle" /\ dropped' = "yes"
       \/ NoTransition /\ rec' = "idle" /\ UNCHANGED dropped
    /\ UNCHANGED <<name, upstream, retry, money, queueVars, lock, sub, can, pc>>

RecoveryReleases ==
    /\ rec = "release"
    /\ \/ ReleaseOk /\ rec' = "idle"
       \/ ReleaseError /\ rec' = "retry"
    /\ UNCHANGED <<jobVars, queueVars, lock, dropped, sub, can, pc>>

RecoveryRetries ==
    /\ rec = "retry"
    /\ EnqueueOrDrop
    /\ rec' = "idle"
    /\ UNCHANGED <<jobVars, money, lock, sub, can, pc>>

RecoveryStops ==
    /\ rec # "idle"
    /\ rec' = "idle"
    /\ dropped' = IF rec \in {"release", "retry"} THEN "yes" ELSE dropped
    /\ UNCHANGED <<jobVars, money, queueVars, lock, sub, can, pc>>

Recovery ==
    RecoveryLists \/ RecoveryFails \/ RecoveryReleases \/ RecoveryRetries \/ RecoveryStops

-----------------------------------------------------------------------------
(* The workers. A worker that runs renews its lock in time.                  *)

notWorkers == <<name, upstream, dropped, sub, can, rec>>

WorkerStep(w, step) == pc' = [pc EXCEPT ![w] = step]

TakeReady(w) ==
    /\ pc[w] = "idle"
    /\ ready > 0
    /\ ready' = ready - 1
    /\ queue' = queue \cup {"active"}
    /\ WorkerStep(w, "lock")
    /\ UNCHANGED <<status, retry, money, lock, notWorkers>>

TryAcquireJobLock(w) ==
    /\ pc[w] = "lock"
    /\ \/ lock = None /\ lock' = w /\ WorkerStep(w, "dispatch")
       \/ UNCHANGED lock /\ WorkerStep(w, "requeue")
    /\ UNCHANGED <<status, retry, money, queueVars, notWorkers>>

\* BatchImagePipelineProcessor.Process reads the job.
Dispatch(w) ==
    /\ pc[w] = "dispatch"
    /\ \/ status = "settling" /\ WorkerStep(w, "settle")
       \/ status # "settling" /\ WorkerStep(w, "process")
       \/ WorkerStep(w, "requeue")
    /\ UNCHANGED <<status, retry, money, queueVars, lock, notWorkers>>

\* Mutant: a failed or cancelled job is acknowledged without a release.
ProcessDropsTerminal(w) ==
    /\ pc[w] = "process"
    /\ \/ status \in Terminal \cup {"settling"} /\ WorkerStep(w, "ack")
       \/ status = "indexing" /\ WorkerStep(w, "index")
       \/ status \notin Terminal \cup {"settling", "indexing"} /\ name = "set" /\ WorkerStep(w, "poll")
       \/ WorkerStep(w, "requeue")
    /\ UNCHANGED <<status, retry, money, queueVars, lock, notWorkers>>

\* BatchImageProviderProcessor.Process reads it again. A job without a name
\* for the provider's job is an error, as is an account that cannot be used.
Process(w) ==
    /\ pc[w] = "process"
    /\ \/ status \in {"failed", "cancelled"} /\ WorkerStep(w, "release")
       \/ status \in {"settling", "completed"} /\ WorkerStep(w, "ack")
       \/ status = "indexing" /\ name = "set" /\ WorkerStep(w, "index")
       \/ status \notin Terminal \cup {"settling", "indexing"} /\ name = "set" /\ WorkerStep(w, "poll")
       \/ WorkerStep(w, "requeue")
    /\ UNCHANGED <<status, retry, money, queueVars, lock, notWorkers>>

\* The provider's answer decides; any error is retried later.
Poll(w) ==
    /\ pc[w] = "poll"
    /\ \/ NoTransition /\ WorkerStep(w, "requeue")
       \/ upstream = "running" /\ Transition("running") /\ WorkerStep(w, "requeue")
       \/ upstream = "succeeded" /\ Transition("indexing") /\ WorkerStep(w, "index")
       \/ upstream = "succeeded" /\ TransitionError("indexing") /\ WorkerStep(w, "requeue")
       \/ upstream = "failed" /\ Transition("failed") /\ WorkerStep(w, "release")
       \/ upstream = "failed" /\ TransitionError("failed") /\ WorkerStep(w, "requeue")
       \/ upstream = "cancelled" /\ Transition("cancelled") /\ WorkerStep(w, "release")
       \/ upstream = "cancelled" /\ TransitionError("cancelled") /\ WorkerStep(w, "requeue")
    /\ UNCHANGED <<retry, money, queueVars, lock, notWorkers>>

\* Any error but missing output and a changed status fails the job.
IndexAndSettle(w) ==
    /\ pc[w] = "index"
    /\ \/ TransitionError("settling") /\ WorkerStep(w, "requeue")
       \/ Transition("failed") /\ WorkerStep(w, "release")
       \/ TransitionError("failed") /\ WorkerStep(w, "requeue")
    /\ UNCHANGED <<retry, money, queueVars, lock, notWorkers>>

ReleaseTerminalHold(w) ==
    /\ pc[w] = "release"
    /\ \/ ReleaseOk /\ WorkerStep(w, "ack")
       \/ ReleaseError /\ WorkerStep(w, "requeue")
    /\ UNCHANGED <<status, retry, queueVars, lock, notWorkers>>

\* Settle reads the job a third time. The counts, the manifest, the price or
\* the cost may be refused.
Settle(w) ==
    /\ pc[w] = "settle"
    /\ \/ status = "completed" /\ WorkerStep(w, "ack")
       \/ status = "settling" /\ retry >= MaxRetries /\ WorkerStep(w, "exhaust")
       \/ status = "settling" /\ retry < MaxRetries /\ WorkerStep(w, "capture")
       \/ status = "settling" /\ retry < MaxRetries /\ WorkerStep(w, "failure")
       \/ WorkerStep(w, "requeue")
    /\ UNCHANGED <<status, retry, money, queueVars, lock, notWorkers>>

\* Mutant: the job is completed although the capture reports an error.
CaptureIgnoringErrors(w) ==
    /\ pc[w] = "capture"
    /\ CaptureError /\ WorkerStep(w, "mark")
    /\ UNCHANGED <<status, retry, queueVars, lock, notWorkers>>

Capture(w) ==
    /\ pc[w] = "capture"
    /\ \/ CaptureOk /\ WorkerStep(w, "mark")
       \/ CaptureError /\ WorkerStep(w, "failure")
    /\ UNCHANGED <<status, retry, queueVars, lock, notWorkers>>

MarkSettled(w) ==
    /\ pc[w] = "mark"
    /\ \/ status = "settling" /\ status' = "completed" /\ WorkerStep(w, "ack")
       \/ status = "settling" /\ status' = "completed" /\ WorkerStep(w, "requeue")
       \/ NoTransition /\ WorkerStep(w, "requeue")
    /\ UNCHANGED <<retry, money, queueVars, lock, notWorkers>>

\* Mutant: every failure gives the hold back.
RecordFailureAsLast(w) ==
    /\ pc[w] = "failure"
    /\ CountFailure
    /\ WorkerStep(w, "exhaust")
    /\ UNCHANGED <<status, money, queueVars, lock, notWorkers>>

\* recordSettlementFailure: an error of the record ends the attempt.
RecordFailure(w) ==
    /\ pc[w] = "failure"
    /\ \/ CountFailure /\ WorkerStep(w, IF retry' >= MaxRetries THEN "exhaust" ELSE "requeue")
       \/ CountFailure /\ WorkerStep(w, "requeue")
       \/ UNCHANGED retry /\ WorkerStep(w, "requeue")
    /\ UNCHANGED <<status, money, queueVars, lock, notWorkers>>

\* failExhaustedSettlement, the release and then the status.
ReleaseExhausted(w) ==
    /\ pc[w] = "exhaust"
    /\ \/ ReleaseOk /\ UNCHANGED retry /\ WorkerStep(w, "failJob")
       \/ ReleaseError /\ CountFailure /\ WorkerStep(w, "requeue")
       \/ ReleaseError /\ UNCHANGED retry /\ WorkerStep(w, "requeue")
    /\ UNCHANGED <<status, queueVars, lock, notWorkers>>

FailExhausted(w) ==
    /\ pc[w] = "failJob"
    /\ \/ Transition("failed") /\ WorkerStep(w, "ack")
       \/ TransitionError("failed") /\ WorkerStep(w, "requeue")
    /\ UNCHANGED <<retry, money, queueVars, lock, notWorkers>>

RequeueAfter(w) ==
    /\ pc[w] = "requeue"
    /\ \/ queue' = (queue \ {"active"}) \cup {"delayed"}
       \/ UNCHANGED queue
    /\ WorkerStep(w, "unlock")
    /\ UNCHANGED <<status, retry, money, ready, lock, notWorkers>>

Ack(w) ==
    /\ pc[w] = "ack"
    /\ queue' \in {queue, {}}
    /\ WorkerStep(w, "unlock")
    /\ UNCHANGED <<status, retry, money, ready, lock, notWorkers>>

FreeLock(w) == lock' = IF lock = w THEN None ELSE lock

\* The end of a turn, and of a worker that dies: its lock runs out.
Unlock(w) ==
    /\ pc[w] # "idle"
    /\ FreeLock(w)
    /\ WorkerStep(w, "idle")
    /\ UNCHANGED <<status, retry, money, queueVars, notWorkers>>

Work(w) ==
    \/ TakeReady(w) \/ TryAcquireJobLock(w) \/ Dispatch(w) \/ Process(w) \/ Poll(w)
    \/ IndexAndSettle(w) \/ ReleaseTerminalHold(w) \/ Settle(w) \/ Capture(w)
    \/ MarkSettled(w) \/ RecordFailure(w) \/ ReleaseExhausted(w) \/ FailExhausted(w)
    \/ RequeueAfter(w) \/ Ack(w) \/ Unlock(w)

\* The provider finishes the job.
UpstreamEnds ==
    /\ upstream = "running"
    /\ upstream' \in {"succeeded", "failed"}
    /\ UNCHANGED <<status, name, retry, money, queueVars, lock, dropped, procs>>

Next ==
    \/ Submit
    \/ \E c \in Cancels : Cancel(c)
    \/ Recovery
    \/ \E w \in Workers : Work(w)
    \/ MoveDueDelayedToReady
    \/ RecoverStaleActive
    \/ UpstreamEnds

Spec == Init /\ [][Next]_vars

-----------------------------------------------------------------------------
(* Properties.                                                               *)

\* The hold is either charged or given back, however often the settlement is
\* retried, unless the settlement has failed MaxRetries times: then it is
\* given back whether or not an earlier capture took effect
\* (failExhaustedSettlement).
OneOutcome == effects = {"captured", "returned"} => retry = MaxRetries

\* What is frozen for other jobs stays: a release of a hold that was never taken
\* would give the user their money (releaseUsageBillingBatchImageBalance).
OthersKept == frozen < Others => retry = MaxRetries

\* A completed job has been charged: MarkBatchImageJobSettled comes only after
\* a capture whose effect is in the database.
CompletedIsCharged == status = "completed" => "captured" \in effects

\* A hold that was given back is not followed by work: no worker, and no
\* Submit that was overtaken by a Cancel or by the recovery, takes the job on.
NoWorkAfterRefund ==
    "returned" \in effects =>
        status \notin {"submitted", "running", "indexing", "completed"}

\* The hold is taken, nothing was done with it, and it can be given back.
HoldOpen == "hold" \in claims /\ "release" \notin claims /\ effects = {}

InQueue == ready > 0 \/ queue \cap {"active", "delayed"} # {}

\* An open hold has somebody who will close it: a handler that still runs, the
\* recovery (which lists unsubmitted jobs), or the queue. The exceptions are a
\* handler that died, or got no answer, right where it had to pass the job on,
\* and a hold taken after its release id was used up (ReleaseIdMeansReturned).
NoOrphanHold ==
    HoldOpen /\ dropped = "no" =>
        \/ sub # "done"
        \/ Unsubmitted
        \/ InQueue
        \/ \E w \in Workers : pc[w] # "idle"
        \/ \E c \in Cancels : can[c] \in {"release", "retry"}
        \/ rec \in {"release", "retry"}

\* A release id that is claimed means that the hold of the job has been given
\* back, as releaseBatchImageBalanceHold takes for granted. It does not hold: a
\* Cancel or the recovery that comes before the hold uses the id up.
ReleaseIdMeansReturned ==
    {"hold", "release"} \subseteq claims => "returned" \in effects

=============================================================================
