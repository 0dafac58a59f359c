------------------------ MODULE BatchImageJobProofs ------------------------
(***************************************************************************)
(* Proofs about BatchImageJob, for any number of workers and cancel        *)
(* requests, any retry limit and anything frozen for other jobs.           *)
(***************************************************************************)
EXTENDS BatchImageJob, TLAPS

Unstarted == {"none", "created", "uploading"}
Refundable == {"failed", "cancelled"}

(* Until Submit has asked for the hold.                                    *)
Early == sub \in {"start", "hold"}

(* Before the hold there is nothing to give back or to charge, though a     *)
(* Cancel or the recovery may have ended the job and used up its release id. *)
EarlyInv ==
    Early =>
        /\ status \in {"none", "created"} \cup Refundable
        /\ name = "none"
        /\ claims \subseteq {"release"} /\ effects = {}

(* How far Submit is and what the row says.                                *)
SubmitInv ==
    /\ sub \notin {"enqueue", "abort", "done"} => status \in Unstarted \cup Refundable
    /\ sub = "start" <=> status = "none"
    /\ name = "set" => status \notin Unstarted
    /\ sub \in {"items", "upload", "provider", "record", "release", "releaseOnly"} => "hold" \in claims
    /\ status \notin Unstarted \cup Refundable => "hold" \in claims
    /\ "returned" \in effects /\ sub \in {"items", "upload", "provider", "record"} => status \in Refundable

(* A Cancel or a recovery gives back only what is refundable.              *)
RefundInv ==
    /\ rec = "release" => status \in Refundable
    /\ \A c \in Cancels : can[c] = "release" => status \in Refundable

(* The job lock, and what its holder knows of the row.                     *)
WorkerInv ==
    \A w \in Workers :
        /\ pc[w] \notin {"idle", "lock", "requeue", "unlock"} => lock = w
        /\ pc[w] = "release" => status \in Refundable
        /\ pc[w] = "poll" => status \in {"submitted", "running"} \cup Refundable
        /\ pc[w] = "index" => status \in {"indexing"} \cup Refundable
        /\ pc[w] \in {"capture", "mark", "failure"} => status = "settling" /\ retry < MaxRetries
        /\ pc[w] = "mark" => "captured" \in effects
        /\ pc[w] \in {"exhaust", "failJob"} => status = "settling" /\ retry = MaxRetries

One(b) == IF b THEN 1 ELSE 0

(* The request ids, what they did, and the frozen balance.                 *)
MoneyInv ==
    /\ "capture" \in claims <=> "captured" \in effects
    /\ "returned" \in effects => "release" \in claims
    /\ effects # {} => "hold" \in claims
    /\ "captured" \in effects => status \in {"settling", "completed", "failed"}
    /\ "captured" \in effects /\ status = "failed" => retry = MaxRetries
    /\ "returned" \in effects => status \notin {"submitted", "running", "indexing", "completed"}
    /\ "returned" \in effects /\ status = "settling" => retry = MaxRetries
    /\ status = "completed" => "captured" \in effects
    /\ frozen = Others + One("hold" \in claims) - One("captured" \in effects)
                       - One("returned" \in effects)

Inv == TypeOK /\ EarlyInv /\ SubmitInv /\ RefundInv /\ WorkerInv /\ MoneyInv

-----------------------------------------------------------------------------
(* The statements.                                                         *)

(* What a release does, whatever the caller learns of it.                  *)
ReleaseEffect ==
    /\ claims' \subseteq {"hold", "capture", "release"}
    /\ effects' \subseteq {"captured", "returned"}
    /\ "hold" \in claims' <=> "hold" \in claims
    /\ "capture" \in claims' <=> "capture" \in claims
    /\ "captured" \in effects' <=> "captured" \in effects
    /\ "returned" \in effects' => {"hold", "release"} \subseteq claims'
    /\ effects' # {} => "hold" \in claims'
    /\ frozen' \in Nat
    /\ frozen' = Others + One("hold" \in claims') - One("captured" \in effects')
                        - One("returned" \in effects')

(* What a capture does.                                                    *)
CaptureEffect ==
    /\ claims' \subseteq {"hold", "capture", "release"}
    /\ effects' \subseteq {"captured", "returned"}
    /\ "hold" \in claims' <=> "hold" \in claims
    /\ "release" \in claims' <=> "release" \in claims
    /\ "returned" \in effects' <=> "returned" \in effects
    /\ "capture" \in claims' <=> "captured" \in effects'
    /\ effects' # {} => "hold" \in claims'
    /\ frozen' \in Nat
    /\ frozen' = Others + One("hold" \in claims') - One("captured" \in effects')
                        - One("returned" \in effects')

\* A release returns a hold at most once, and only one that was taken.
LEMMA ReleaseFacts ==
  ASSUME TypeOK, MoneyInv, ReleaseOk \/ ReleaseError
  PROVE  ReleaseEffect
<1> USE BoundsAssumption DEF BoundsAssumption, TypeOK, MoneyInv, One, ReleaseEffect
<1>1. CASE UNCHANGED money
  BY <1>1 DEF money
<1>2. CASE ReleaseOk
  <2>1. CASE "release" \in claims
    BY <1>2, <2>1 DEF ReleaseOk, money
  <2>2. CASE "release" \notin claims /\ "hold" \notin claims
    <3>1. claims' = claims \cup {"release"} /\ effects' = effects /\ frozen' = frozen
      BY <1>2, <2>2 DEF ReleaseOk
    <3> QED
      BY <2>2, <3>1
  <2>3. CASE "release" \notin claims /\ "hold" \in claims
    <3>1. /\ claims' = claims \cup {"release"}
          /\ effects' = effects \cup {"returned"}
          /\ frozen >= 1 /\ frozen' = frozen - 1
      BY <1>2, <2>3 DEF ReleaseOk
    <3> QED
      BY <2>3, <3>1
  <2> QED
    BY <2>1, <2>2, <2>3
<1> QED
  BY <1>1, <1>2 DEF ReleaseError

\* A capture charges a hold at most once.
LEMMA CaptureFacts ==
  ASSUME TypeOK, MoneyInv, "hold" \in claims, CaptureOk \/ CaptureError
  PROVE  CaptureEffect /\ (CaptureOk => "captured" \in effects')
<1> USE BoundsAssumption DEF BoundsAssumption, TypeOK, MoneyInv, One, CaptureEffect
<1>1. CASE UNCHANGED money
  <2>1. CaptureOk => "captured" \in effects'
    BY <1>1 DEF money, CaptureOk
  <2>2. CaptureEffect
    BY <1>1 DEF money
  <2> QED
    BY <2>1, <2>2
<1>2. CASE CaptureOk
  <2>1. CASE "capture" \in claims
    BY <1>2, <2>1 DEF CaptureOk, money
  <2>2. CASE "capture" \notin claims
    <3>1. /\ claims' = claims \cup {"capture"}
          /\ effects' = effects \cup {"captured"}
          /\ frozen >= 1 /\ frozen' = frozen - 1
      BY <1>2, <2>2 DEF CaptureOk
    <3> QED
      BY <2>2, <3>1
  <2> QED
    BY <2>1, <2>2
<1> QED
  BY <1>1, <1>2 DEF CaptureError

\* Enqueue keeps the types of the queue.
LEMMA EnqueueFacts ==
  ASSUME TypeOK, Enqueue \/ UNCHANGED queueVars
  PROVE  ready' \in Nat /\ queue' \subseteq {"active", "delayed", "inflight"}
<1>1. ready' \in Nat
  BY DEF TypeOK, Enqueue, queueVars
<1>2. queue' \in {queue, queue \cup {"inflight"}}
  BY DEF Enqueue, queueVars
<1> QED
  BY <1>1, <1>2 DEF TypeOK

-----------------------------------------------------------------------------
(* The invariant.                                                          *)

\* The initial state satisfies the invariant.
LEMMA InitInv == Init => Inv
BY BoundsAssumption, NoneAssumption
   DEF Init, Inv, TypeOK, EarlyInv, SubmitInv, RefundInv, WorkerInv, MoneyInv,
       Unstarted, Refundable, Statuses, Terminal, SubmitPCs, CancelPCs, RecoveryPCs, WorkerPCs,
       BoundsAssumption, One

\* Submit keeps the invariant.
LEMMA SubmitKeepsInv ==
  ASSUME Inv, Submit
  PROVE  Inv'
<1> USE BoundsAssumption, NoneAssumption
   DEF Inv, TypeOK, Early, EarlyInv, SubmitInv, RefundInv, WorkerInv, MoneyInv,
       Unstarted, Refundable, Statuses, Terminal, SubmitPCs, CancelPCs, RecoveryPCs, WorkerPCs,
       BoundsAssumption, One
<1>1. CASE CreateJob
  BY <1>1 DEF CreateJob, money, queueVars
<1>2. CASE Reserve
  <2>1. /\ claims \subseteq {"release"} /\ effects = {} /\ frozen = Others
        /\ status \in {"created"} \cup Refundable
    BY <1>2 DEF Reserve
  <2>2. CASE ReserveOk
    <3>1. claims' = claims \cup {"hold"} /\ effects' = {} /\ frozen' = Others + 1
      BY <2>1, <2>2 DEF ReserveOk
    <3> QED
      BY <1>2, <2>1, <3>1 DEF Reserve, queueVars, jobVars
  <2>3. CASE UNCHANGED money /\ sub' = "fail"
    BY <1>2, <2>1, <2>3 DEF Reserve, money, queueVars, jobVars
  <2> QED
    BY <1>2, <2>2, <2>3 DEF Reserve
<1>3. CASE CreatePendingItems
  BY <1>3 DEF CreatePendingItems, money, queueVars, jobVars
<1>4. CASE StartUpload
  BY <1>4 DEF StartUpload, Transition, NoTransition, TransitionError, CanTransition,
         money, queueVars
<1>5. CASE ProviderSubmit
  BY <1>5 DEF ProviderSubmit, money, queueVars
<1>6. CASE RecordSubmit
  BY <1>6 DEF RecordSubmit, Transition, NoTransition, CanTransition, money, queueVars
<1>7. CASE AbortOrphan
  BY <1>7 DEF AbortOrphan, money, queueVars
<1>8. CASE EnqueueSubmitted
  <2>1. Enqueue \/ UNCHANGED queueVars
    BY <1>8 DEF EnqueueSubmitted, EnqueueOrDrop
  <2>2. ready' \in Nat /\ queue' \subseteq {"active", "delayed", "inflight"}
    BY <2>1, EnqueueFacts
  <2>3. dropped' \in {"no", "yes"}
    BY <1>8 DEF EnqueueSubmitted, EnqueueOrDrop
  <2> QED
    BY <1>8, <2>2, <2>3 DEF EnqueueSubmitted, money, queueVars, jobVars
<1>9. CASE ReleaseFailedSubmit
  <2>1. ReleaseOk \/ ReleaseError
    BY <1>9 DEF ReleaseFailedSubmit
  <2>2. ReleaseEffect
    BY <2>1, ReleaseFacts
  <2> QED
    BY <1>9, <2>2 DEF ReleaseFailedSubmit, ReleaseEffect, queueVars, jobVars
<1>10. CASE RecordSubmitFailure
  BY <1>10 DEF RecordSubmitFailure, money, queueVars
<1>11. CASE SubmitStops
  BY <1>11 DEF SubmitStops, money, queueVars, jobVars
<1>12. CASE Resubmit
  <2>1. Enqueue \/ UNCHANGED queueVars
    BY <1>12 DEF Resubmit
  <2>2. ready' \in Nat /\ queue' \subseteq {"active", "delayed", "inflight"}
    BY <2>1, EnqueueFacts
  <2> QED
    BY <1>12, <2>2 DEF Resubmit, money, queueVars, procs, jobVars
<1> QED
  BY <1>1, <1>2, <1>3, <1>4, <1>5, <1>6, <1>7, <1>8, <1>9, <1>10, <1>11, <1>12 DEF Submit

\* A cancel request keeps the invariant.
LEMMA CancelKeepsInv ==
  ASSUME Inv, NEW c \in Cancels, Cancel(c)
  PROVE  Inv'
<1> USE BoundsAssumption, NoneAssumption
   DEF Inv, TypeOK, Early, EarlyInv, SubmitInv, RefundInv, WorkerInv, MoneyInv,
       Unstarted, Refundable, Statuses, Terminal, SubmitPCs, CancelPCs, RecoveryPCs, WorkerPCs,
       BoundsAssumption, One
<1>1. CASE CancelReads(c)
  BY <1>1 DEF CancelReads, CancelStep, money, queueVars, jobVars
<1>2. CASE CancelProvider(c)
  BY <1>2 DEF CancelProvider, CancelStep, money, queueVars
<1>3. CASE CancelEnqueues(c)
  <2>1. Enqueue \/ UNCHANGED queueVars
    BY <1>3 DEF CancelEnqueues
  <2>2. ready' \in Nat /\ queue' \subseteq {"active", "delayed", "inflight"}
    BY <2>1, EnqueueFacts
  <2> QED
    BY <1>3, <2>2 DEF CancelEnqueues, CancelStep, money, queueVars, jobVars
<1>4. CASE CancelTransition(c)
  BY <1>4 DEF CancelTransition, CancelStep, Transition, NoTransition, CanTransition,
         money, queueVars
<1>5. CASE CancelReleases(c)
  <2>1. ReleaseOk \/ ReleaseError
    BY <1>5 DEF CancelReleases
  <2>2. ReleaseEffect
    BY <2>1, ReleaseFacts
  <2> QED
    BY <1>5, <2>2 DEF CancelReleases, ReleaseEffect, CancelStep, queueVars, jobVars
<1>6. CASE CancelRetries(c)
  <2>1. Enqueue \/ UNCHANGED queueVars
    BY <1>6 DEF CancelRetries, EnqueueOrDrop
  <2>2. ready' \in Nat /\ queue' \subseteq {"active", "delayed", "inflight"}
    BY <2>1, EnqueueFacts
  <2>3. dropped' \in {"no", "yes"}
    BY <1>6 DEF CancelRetries, EnqueueOrDrop
  <2> QED
    BY <1>6, <2>2, <2>3 DEF CancelRetries, CancelStep, money, queueVars, jobVars
<1>7. CASE CancelStops(c)
  BY <1>7 DEF CancelStops, CancelStep, money, queueVars, jobVars
<1> QED
  BY <1>1, <1>2, <1>3, <1>4, <1>5, <1>6, <1>7 DEF Cancel

\* The recovery keeps the invariant.
LEMMA RecoveryKeepsInv ==
  ASSUME Inv, Recovery
  PROVE  Inv'
<1> USE BoundsAssumption, NoneAssumption
   DEF Inv, TypeOK, Early, EarlyInv, SubmitInv, RefundInv, WorkerInv, MoneyInv,
       Unstarted, Refundable, Statuses, Terminal, SubmitPCs, CancelPCs, RecoveryPCs, WorkerPCs,
       BoundsAssumption, One
<1>1. CASE RecoveryLists
  BY <1>1 DEF RecoveryLists, Unsubmitted, money, queueVars, jobVars
<1>2. CASE RecoveryFails
  BY <1>2 DEF RecoveryFails, NoTransition, Unsubmitted, money, queueVars
<1>3. CASE RecoveryReleases
  <2>1. ReleaseOk \/ ReleaseError
    BY <1>3 DEF RecoveryReleases
  <2>2. ReleaseEffect
    BY <2>1, ReleaseFacts
  <2> QED
    BY <1>3, <2>2 DEF RecoveryReleases, ReleaseEffect, queueVars, jobVars
<1>4. CASE RecoveryRetries
  <2>1. Enqueue \/ UNCHANGED queueVars
    BY <1>4 DEF RecoveryRetries, EnqueueOrDrop
  <2>2. ready' \in Nat /\ queue' \subseteq {"active", "delayed", "inflight"}
    BY <2>1, EnqueueFacts
  <2>3. dropped' \in {"no", "yes"}
    BY <1>4 DEF RecoveryRetries, EnqueueOrDrop
  <2> QED
    BY <1>4, <2>2, <2>3 DEF RecoveryRetries, money, queueVars, jobVars
<1>5. CASE RecoveryStops
  BY <1>5 DEF RecoveryStops, money, queueVars, jobVars
<1> QED
  BY <1>1, <1>2, <1>3, <1>4, <1>5 DEF Recovery

\* A worker keeps the invariant.
LEMMA WorkKeepsInv ==
  ASSUME Inv, NEW w \in Workers, Work(w)
  PROVE  Inv'
<1> USE BoundsAssumption, NoneAssumption
   DEF Inv, TypeOK, Early, EarlyInv, SubmitInv, RefundInv, WorkerInv, MoneyInv,
       Unstarted, Refundable, Statuses, Terminal, SubmitPCs, CancelPCs, RecoveryPCs, WorkerPCs,
       BoundsAssumption, One
<1>1. CASE TakeReady(w)
  BY <1>1 DEF TakeReady, WorkerStep, money, notWorkers
<1>2. CASE TryAcquireJobLock(w)
  BY <1>2 DEF TryAcquireJobLock, WorkerStep, money, queueVars, notWorkers
<1>3. CASE Dispatch(w)
  BY <1>3 DEF Dispatch, WorkerStep, money, queueVars, notWorkers
<1>4. CASE Process(w)
  BY <1>4 DEF Process, WorkerStep, money, queueVars, notWorkers
<1>5. CASE Poll(w)
  BY <1>5 DEF Poll, WorkerStep, Transition, NoTransition, TransitionError,
         CanTransition, money, queueVars, notWorkers
<1>6. CASE IndexAndSettle(w)
  BY <1>6 DEF IndexAndSettle, WorkerStep, Transition, NoTransition, TransitionError,
         CanTransition, money, queueVars, notWorkers
<1>7. CASE ReleaseTerminalHold(w)
  <2>1. ReleaseOk \/ ReleaseError
    BY <1>7 DEF ReleaseTerminalHold
  <2>2. ReleaseEffect
    BY <2>1, ReleaseFacts
  <2> QED
    BY <1>7, <2>2 DEF ReleaseTerminalHold, ReleaseEffect, WorkerStep, queueVars, notWorkers
<1>8. CASE Settle(w)
  BY <1>8 DEF Settle, WorkerStep, money, queueVars, notWorkers
<1>9. CASE Capture(w)
  <2>1. CaptureOk \/ CaptureError
    BY <1>9 DEF Capture
  <2>2. "hold" \in claims
    BY <1>9 DEF Capture
  <2>3. CaptureEffect /\ (CaptureOk => "captured" \in effects')
    BY <2>1, <2>2, CaptureFacts
  <2> QED
    BY <1>9, <2>3 DEF Capture, CaptureEffect, WorkerStep, queueVars, notWorkers
<1>10. CASE MarkSettled(w)
  BY <1>10 DEF MarkSettled, WorkerStep, NoTransition, money, queueVars, notWorkers
<1>11. CASE RecordFailure(w)
  BY <1>11 DEF RecordFailure, WorkerStep, CountFailure, money, queueVars, notWorkers
<1>12. CASE ReleaseExhausted(w)
  <2>1. ReleaseOk \/ ReleaseError
    BY <1>12 DEF ReleaseExhausted
  <2>2. ReleaseEffect
    BY <2>1, ReleaseFacts
  <2> QED
    BY <1>12, <2>2 DEF ReleaseExhausted, ReleaseEffect, WorkerStep, CountFailure, queueVars,
           notWorkers
<1>13. CASE FailExhausted(w)
  BY <1>13 DEF FailExhausted, WorkerStep, Transition, NoTransition, TransitionError,
         CanTransition, money, queueVars, notWorkers
<1>14. CASE RequeueAfter(w)
  <2>1. queue' \in {queue, (queue \ {"active"}) \cup {"delayed"}}
    BY <1>14 DEF RequeueAfter
  <2>2. queue' \subseteq {"active", "delayed", "inflight"}
    BY <2>1
  <2> QED
    BY <1>14, <2>2 DEF RequeueAfter, WorkerStep, money, notWorkers
<1>15. CASE Ack(w)
  BY <1>15 DEF Ack, WorkerStep, money, notWorkers
<1>16. CASE Unlock(w)
  BY <1>16 DEF Unlock, WorkerStep, FreeLock, money, queueVars, notWorkers
<1> QED
  BY <1>1, <1>2, <1>3, <1>4, <1>5, <1>6, <1>7, <1>8, <1>9, <1>10, <1>11, <1>12,
     <1>13, <1>14, <1>15, <1>16 DEF Work

\* Every step keeps the invariant.
LEMMA NextInv ==
  ASSUME Inv, [Next]_vars
  PROVE  Inv'
<1>0. CASE MoveDueDelayedToReady
  <2>1. queue' \subseteq {"active", "delayed", "inflight"}
    BY <1>0 DEF Inv, TypeOK, MoveDueDelayedToReady
  <2> QED
    BY <1>0, <2>1 DEF Inv, TypeOK, Early, EarlyInv, SubmitInv, RefundInv, WorkerInv, MoneyInv,
       MoveDueDelayedToReady, money, procs
<1>1. CASE RecoverStaleActive
  <2>1. queue' \subseteq {"active", "delayed", "inflight"}
    BY <1>1 DEF Inv, TypeOK, RecoverStaleActive
  <2> QED
    BY <1>1, <2>1 DEF Inv, TypeOK, Early, EarlyInv, SubmitInv, RefundInv, WorkerInv, MoneyInv,
       RecoverStaleActive, money, procs
<1>2. CASE UpstreamEnds
  BY <1>2 DEF Inv, TypeOK, Early, EarlyInv, SubmitInv, RefundInv, WorkerInv, MoneyInv,
     UpstreamEnds, money, queueVars, procs
<1>3. CASE UNCHANGED vars
  BY <1>3 DEF Inv, TypeOK, Early, EarlyInv, SubmitInv, RefundInv, WorkerInv, MoneyInv,
     vars, money, queueVars, procs
<1> QED
  BY <1>0, <1>1, <1>2, <1>3, SubmitKeepsInv, CancelKeepsInv, RecoveryKeepsInv, WorkKeepsInv
     DEF Next

\* The invariant holds in every reachable state.
LEMMA InvHolds == Spec => []Inv
<1>1. Inv /\ [Next]_vars => Inv'
  BY NextInv
<1> QED
  BY <1>1, InitInv, PTL DEF Spec

-----------------------------------------------------------------------------
(* The theorems.                                                           *)

\* Every variable keeps its type.
THEOREM TypeCorrect == Spec => []TypeOK
<1>1. Inv => TypeOK
  BY DEF Inv
<1> QED
  BY <1>1, InvHolds, PTL

\* The hold is charged and given back only after MaxRetries failed settlements,
\* however Submit, cancel requests, the recovery and workers interleave.
THEOREM HoldHasOneOutcome == Spec => []OneOutcome
<1>1. Inv => OneOutcome
  BY DEF Inv, MoneyInv, OneOutcome
<1> QED
  BY <1>1, InvHolds, PTL

\* What is frozen for other jobs is not given away before that.
THEOREM OtherHoldsAreKept == Spec => []OthersKept
<1>1. Inv => OthersKept
  BY BoundsAssumption DEF BoundsAssumption, Inv, TypeOK, MoneyInv, One, OthersKept
<1> QED
  BY <1>1, InvHolds, PTL

\* A completed job was charged.
THEOREM CompletedJobsAreCharged == Spec => []CompletedIsCharged
<1>1. Inv => CompletedIsCharged
  BY DEF Inv, MoneyInv, CompletedIsCharged
<1> QED
  BY <1>1, InvHolds, PTL

\* A job whose hold was given back is not worked on.
THEOREM RefundedJobsRest == Spec => []NoWorkAfterRefund
<1>1. Inv => NoWorkAfterRefund
  BY DEF Inv, MoneyInv, NoWorkAfterRefund
<1> QED
  BY <1>1, InvHolds, PTL

-----------------------------------------------------------------------------
(* An open hold has somebody to close it.                                  *)

(* A hold that can be given back, or will be once it is taken.             *)
Closable == HoldOpen \/ (Early /\ "release" \notin claims)

(* A job that a worker has is still in the queue while its hold is open:   *)
(* only an acknowledgement takes it out, and comes after the outcome. A    *)
(* job with an open hold that has ended is with somebody who releases it   *)
(* or passes it to the queue, and one that was submitted is in the queue   *)
(* or with Submit, unless the way was cut off.                             *)
OpenInv ==
    /\ "inflight" \in queue => InQueue
    /\ Closable => InQueue \/ \A w \in Workers : pc[w] = "idle"
    /\ \A w \in Workers : pc[w] \in {"ack", "failJob"} => ~Closable
    /\ \A w \in Workers : pc[w] = "process" => status # "settling"
    /\ sub = "fail" /\ dropped = "no" => ~Closable
    /\ Closable /\ dropped = "no" /\ status \in Refundable =>
          \/ InQueue
          \/ sub = "retry"
          \/ \E c \in Cancels : can[c] \in {"release", "retry"}
          \/ rec \in {"release", "retry"}
    /\ Closable /\ dropped = "no" /\ status \notin Unstarted \cup Refundable =>
          InQueue \/ sub = "enqueue"

\* What leaves the money alone leaves the hold as it is, and what leaves the
\* queue alone leaves the job in it.
LEMMA OpenStays ==
  /\ UNCHANGED money /\ (Early' <=> Early) => (Closable' <=> Closable)
  /\ UNCHANGED queueVars => (InQueue' <=> InQueue)
BY DEF money, queueVars, HoldOpen, Closable, InQueue

\* Enqueue brings the job into the queue, or finds it there.
LEMMA EnqueueEnters ==
  ASSUME TypeOK, "inflight" \in queue => InQueue, Enqueue
  PROVE  InQueue'
<1>1. CASE "inflight" \in queue
  BY <1>1, OpenStays DEF Enqueue
<1>2. CASE "inflight" \notin queue
  BY <1>2 DEF Enqueue, InQueue, TypeOK
<1> QED
  BY <1>1, <1>2

\* A release that succeeds leaves no open hold; no release opens one.
LEMMA ReleaseCloses ==
  ASSUME MoneyInv, Early' <=> Early, ReleaseOk \/ ReleaseError
  PROVE  (ReleaseOk => ~Closable') /\ (Closable' => Closable)
<1>1. ReleaseOk => ~Closable'
  BY DEF MoneyInv, ReleaseOk, HoldOpen, Closable, money
<1>2. Closable' => Closable
  BY <1>1, OpenStays DEF ReleaseError
<1> QED
  BY <1>1, <1>2

\* Neither does a capture.
LEMMA CaptureCloses ==
  ASSUME MoneyInv, Early' <=> Early, CaptureOk \/ CaptureError
  PROVE  Closable' => Closable
<1>1. CaptureOk => (Closable' => Closable)
  BY DEF CaptureOk, HoldOpen, Closable, money
<1> QED
  BY <1>1, OpenStays DEF CaptureError

\* Submit keeps its hold or passes it on.
LEMMA SubmitKeepsOpen ==
  ASSUME Inv, OpenInv, Submit
  PROVE  OpenInv'
<1> USE DEF OpenInv, Inv, Early, SubmitInv, Unstarted, Refundable
<1>1. CASE CreateJob
  <2>1. /\ (Closable' <=> Closable) /\ (InQueue' <=> InQueue)
        /\ UNCHANGED <<queue, pc, can, rec, dropped>>
    BY <1>1, OpenStays DEF CreateJob, queueVars
  <2>2. status' = "created" /\ sub' = "hold"
    BY <1>1 DEF CreateJob
  <2> QED
    BY <2>1, <2>2
<1>2. CASE Reserve
  <2>1. /\ sub = "hold" /\ (InQueue' <=> InQueue)
        /\ UNCHANGED <<status, queue, pc, can, rec>>
    BY <1>2, OpenStays DEF Reserve, jobVars, queueVars
  <2>2. Closable' => Closable
    BY <1>2 DEF Reserve, ReserveOk, HoldOpen, Closable, money
  <2>3. sub' = "fail" /\ dropped' = "no" => ~Closable'
    BY <1>2 DEF Reserve, EarlyInv, HoldOpen, Closable, money
  <2>4. dropped' = "no" => dropped = "no"
    BY <1>2 DEF Reserve
  <2>5. status \in Unstarted \cup Refundable
    BY <2>1
  <2> QED
    BY <2>1, <2>2, <2>3, <2>4, <2>5
<1>3. CASE CreatePendingItems
  BY <1>3, OpenStays DEF CreatePendingItems, jobVars, queueVars
<1>4. CASE StartUpload
  <2>1. status' = status \/ status' = "uploading"
    BY <1>4 DEF StartUpload, Transition, TransitionError, NoTransition
  <2>2. sub' \in {"provider", "releaseOnly", "release"} /\ sub = "upload"
    BY <1>4 DEF StartUpload
  <2>3. (Closable' <=> Closable) /\ (InQueue' <=> InQueue) /\ UNCHANGED <<queue, pc, can, rec, dropped>>
    BY <1>4, OpenStays DEF StartUpload, queueVars
  <2> QED
    BY <2>1, <2>2, <2>3
<1>5. CASE ProviderSubmit
  BY <1>5, OpenStays DEF ProviderSubmit, queueVars
<1>6. CASE RecordSubmit
  <2>1. status' = status \/ status' = "submitted"
    BY <1>6 DEF RecordSubmit, Transition, NoTransition
  <2>2. /\ status' = "submitted" => status' = status \/ sub' = "enqueue" \/ dropped' = "yes"
        /\ dropped' = "no" => dropped = "no"
        /\ sub = "record" /\ sub' \in {"enqueue", "abort"}
    BY <1>6 DEF RecordSubmit, Transition, NoTransition, TypeOK
  <2>3. (Closable' <=> Closable) /\ (InQueue' <=> InQueue) /\ UNCHANGED <<queue, pc, can, rec>>
    BY <1>6, OpenStays DEF RecordSubmit, queueVars
  <2> QED
    BY <2>1, <2>2, <2>3
<1>7. CASE AbortOrphan
  BY <1>7, OpenStays DEF AbortOrphan, queueVars
<1>8. CASE EnqueueSubmitted
  <2>1. dropped' = "no" => dropped = "no" /\ InQueue'
    BY <1>8, EnqueueEnters DEF EnqueueSubmitted, EnqueueOrDrop
  <2>2. InQueue => InQueue'
    BY <1>8, EnqueueEnters, OpenStays DEF EnqueueSubmitted, EnqueueOrDrop
  <2>3. "inflight" \in queue' => InQueue'
    BY <1>8, <2>2, EnqueueEnters DEF EnqueueSubmitted, EnqueueOrDrop, queueVars
  <2>4. (Closable' <=> Closable) /\ UNCHANGED <<status, pc, can, rec>> /\ sub' = "done"
    BY <1>8, OpenStays DEF EnqueueSubmitted, jobVars
  <2> QED
    BY <2>1, <2>2, <2>3, <2>4
<1>9. CASE ReleaseFailedSubmit
  <2>1. ReleaseOk \/ ReleaseError
    BY <1>9 DEF ReleaseFailedSubmit
  <2>2. (ReleaseOk => ~Closable') /\ (Closable' => Closable)
    BY <1>9, <2>1, ReleaseCloses DEF ReleaseFailedSubmit
  <2>3. (InQueue' <=> InQueue) /\ UNCHANGED <<status, queue, pc, can, rec, dropped>>
    BY <1>9, OpenStays DEF ReleaseFailedSubmit, jobVars, queueVars
  <2>4. sub \in {"release", "releaseOnly"} /\ (sub' = "failRetry" \/ ~Closable')
    BY <1>9, <2>2 DEF ReleaseFailedSubmit
  <2> QED
    BY <2>2, <2>3, <2>4
<1>10. CASE RecordSubmitFailure
  <2>1. /\ (Closable' <=> Closable) /\ (InQueue' <=> InQueue)
        /\ UNCHANGED <<queue, pc, can, rec, dropped>>
    BY <1>10, OpenStays DEF RecordSubmitFailure, queueVars
  <2>2. /\ sub \in {"fail", "failRetry"} /\ status' \in {status, "failed"}
        /\ sub' = IF sub = "fail" THEN "done" ELSE "retry"
    BY <1>10 DEF RecordSubmitFailure
  <2> QED
    BY <2>1, <2>2
<1>11. CASE SubmitStops
  <2>1. /\ (Closable' => Closable) /\ (InQueue' <=> InQueue)
        /\ UNCHANGED <<status, queue, pc, can, rec>>
    BY <1>11, OpenStays DEF SubmitStops, HoldOpen, Closable, money, jobVars, queueVars
  <2>2. sub' = "done" /\ (dropped' = "no" => dropped = "no" /\ sub \notin {"enqueue", "retry"})
    BY <1>11 DEF SubmitStops
  <2> QED
    BY <2>1, <2>2
<1>12. CASE Resubmit
  <2>1. InQueue'
    BY <1>12, EnqueueEnters DEF Resubmit
  <2>2. (Closable' <=> Closable) /\ UNCHANGED <<status, sub, dropped, pc, can, rec>>
    BY <1>12, OpenStays DEF Resubmit, jobVars, procs
  <2> QED
    BY <2>1, <2>2
<1> QED
  BY <1>1, <1>2, <1>3, <1>4, <1>5, <1>6, <1>7, <1>8, <1>9, <1>10, <1>11, <1>12 DEF Submit

\* A cancel request that ends the job releases the hold or passes it on.
LEMMA CancelKeepsOpen ==
  ASSUME Inv, OpenInv, NEW c \in Cancels, Cancel(c)
  PROVE  OpenInv'
<1> USE DEF OpenInv, Inv, SubmitInv, Unstarted, Refundable, CancelStep
<1>0. can \in [Cancels -> CancelPCs]
  BY DEF TypeOK
<1>e. Early' <=> Early
  BY DEF Early, Cancel, CancelReads, CancelProvider, CancelEnqueues,
     CancelTransition, CancelReleases, CancelRetries, CancelStops
<1>1. CASE CancelReads(c)
  BY <1>0, <1>1, <1>e, OpenStays DEF CancelReads, jobVars, queueVars
<1>2. CASE CancelProvider(c)
  BY <1>0, <1>2, <1>e, OpenStays DEF CancelProvider, queueVars
<1>3. CASE CancelEnqueues(c)
  <2>1. InQueue => InQueue'
    BY <1>3, EnqueueEnters, <1>e, OpenStays DEF CancelEnqueues
  <2>2. "inflight" \in queue' => InQueue'
    BY <1>3, <2>1, EnqueueEnters DEF CancelEnqueues, queueVars
  <2>3. (Closable' <=> Closable) /\ UNCHANGED <<status, pc, rec, sub, dropped>>
    BY <1>3, <1>e, OpenStays DEF CancelEnqueues, jobVars
  <2>4. can[c] = "enqueue" /\ can' = [can EXCEPT ![c] = "done"]
    BY <1>3 DEF CancelEnqueues
  <2> QED
    BY <1>0, <2>1, <2>2, <2>3, <2>4
<1>4. CASE CancelTransition(c)
  <2>1. status' = status \/ status' = "cancelled"
    BY <1>4 DEF CancelTransition, Transition, NoTransition
  <2>2. /\ status' # status => can'[c] = "release" \/ dropped' = "yes"
        /\ dropped' = "no" => dropped = "no"
        /\ can[c] = "transition" /\ \A d \in Cancels : d # c => can'[d] = can[d]
    BY <1>0, <1>4 DEF CancelTransition, NoTransition, TypeOK
  <2>3. /\ (Closable' <=> Closable) /\ (InQueue' <=> InQueue)
        /\ UNCHANGED <<queue, pc, rec, sub>>
    BY <1>4, <1>e, OpenStays DEF CancelTransition, queueVars
  <2> QED
    BY <2>1, <2>2, <2>3
<1>5. CASE CancelReleases(c)
  <2>1. ReleaseOk \/ ReleaseError
    BY <1>5 DEF CancelReleases
  <2>2. (ReleaseOk => ~Closable') /\ (Closable' => Closable)
    BY <2>1, <1>e, ReleaseCloses
  <2>3. (InQueue' <=> InQueue) /\ UNCHANGED <<status, queue, pc, rec, sub, dropped>>
    BY <1>5, <1>e, OpenStays DEF CancelReleases, jobVars, queueVars
  <2>4. ~Closable' \/ can'[c] = "retry"
    BY <1>0, <1>5, <2>2 DEF CancelReleases
  <2> QED
    BY <2>2, <2>3, <2>4
<1>6. CASE CancelRetries(c)
  <2>1. dropped' = "no" => dropped = "no" /\ InQueue'
    BY <1>6, EnqueueEnters DEF CancelRetries, EnqueueOrDrop
  <2>2. InQueue => InQueue'
    BY <1>6, EnqueueEnters, <1>e, OpenStays DEF CancelRetries, EnqueueOrDrop
  <2>3. "inflight" \in queue' => InQueue'
    BY <1>6, <2>2, EnqueueEnters DEF CancelRetries, EnqueueOrDrop, queueVars
  <2>4. (Closable' <=> Closable) /\ UNCHANGED <<status, pc, rec, sub>>
    BY <1>6, <1>e, OpenStays DEF CancelRetries, jobVars
  <2> QED
    BY <2>1, <2>2, <2>3, <2>4
<1>7. CASE CancelStops(c)
  <2>1. /\ (Closable' <=> Closable) /\ (InQueue' <=> InQueue)
        /\ UNCHANGED <<status, queue, pc, rec, sub>>
    BY <1>7, <1>e, OpenStays DEF CancelStops, jobVars, queueVars
  <2>2. /\ dropped' = "no" => dropped = "no" /\ can[c] \notin {"release", "retry"}
        /\ \A d \in Cancels : d # c => can'[d] = can[d]
    BY <1>0, <1>7 DEF CancelStops
  <2> QED
    BY <2>1, <2>2
<1> QED
  BY <1>1, <1>2, <1>3, <1>4, <1>5, <1>6, <1>7 DEF Cancel

\* So does the recovery.
LEMMA RecoveryKeepsOpen ==
  ASSUME Inv, OpenInv, Recovery
  PROVE  OpenInv'
<1> USE DEF OpenInv, Inv, SubmitInv, Unstarted, Refundable
<1>e. Early' <=> Early
  BY DEF Early, Recovery, RecoveryLists, RecoveryFails, RecoveryReleases,
     RecoveryRetries, RecoveryStops
<1>1. CASE RecoveryLists
  BY <1>1, <1>e, OpenStays DEF RecoveryLists, jobVars, queueVars
<1>2. CASE RecoveryFails
  <2>1. /\ status' = status \/ status' = "failed"
        /\ status' # status => rec' = "release" \/ dropped' = "yes"
        /\ dropped' = "no" => dropped = "no"
        /\ rec = "fail"
    BY <1>2 DEF RecoveryFails, NoTransition, TypeOK
  <2>2. /\ (Closable' <=> Closable) /\ (InQueue' <=> InQueue)
        /\ UNCHANGED <<queue, pc, can, sub>>
    BY <1>2, <1>e, OpenStays DEF RecoveryFails, queueVars
  <2> QED
    BY <2>1, <2>2
<1>3. CASE RecoveryReleases
  <2>1. ReleaseOk \/ ReleaseError
    BY <1>3 DEF RecoveryReleases
  <2>2. (ReleaseOk => ~Closable') /\ (Closable' => Closable)
    BY <2>1, <1>e, ReleaseCloses
  <2>3. (InQueue' <=> InQueue) /\ UNCHANGED <<status, queue, pc, can, sub, dropped>>
    BY <1>3, <1>e, OpenStays DEF RecoveryReleases, jobVars, queueVars
  <2>4. ~Closable' \/ rec' = "retry"
    BY <1>3, <2>2 DEF RecoveryReleases
  <2> QED
    BY <2>2, <2>3, <2>4
<1>4. CASE RecoveryRetries
  <2>1. dropped' = "no" => dropped = "no" /\ InQueue'
    BY <1>4, EnqueueEnters DEF RecoveryRetries, EnqueueOrDrop
  <2>2. InQueue => InQueue'
    BY <1>4, EnqueueEnters, <1>e, OpenStays DEF RecoveryRetries, EnqueueOrDrop
  <2>3. "inflight" \in queue' => InQueue'
    BY <1>4, <2>2, EnqueueEnters DEF RecoveryRetries, EnqueueOrDrop, queueVars
  <2>4. (Closable' <=> Closable) /\ UNCHANGED <<status, pc, can, sub>>
    BY <1>4, <1>e, OpenStays DEF RecoveryRetries, jobVars
  <2> QED
    BY <2>1, <2>2, <2>3, <2>4
<1>5. CASE RecoveryStops
  <2>1. /\ (Closable' <=> Closable) /\ (InQueue' <=> InQueue)
        /\ UNCHANGED <<status, queue, pc, can, sub>>
    BY <1>5, <1>e, OpenStays DEF RecoveryStops, jobVars, queueVars
  <2>2. dropped' = "no" => dropped = "no" /\ rec \notin {"release", "retry"}
    BY <1>5 DEF RecoveryStops
  <2> QED
    BY <2>1, <2>2
<1> QED
  BY <1>1, <1>2, <1>3, <1>4, <1>5 DEF Recovery

\* A worker acknowledges a job only when its hold is closed.
LEMMA WorkKeepsOpen ==
  ASSUME Inv, OpenInv, NEW w \in Workers, Work(w)
  PROVE  OpenInv'
<1> USE DEF OpenInv, Inv, Unstarted, Refundable, WorkerStep
<1>0. pc \in [Workers -> WorkerPCs] /\ UNCHANGED <<name, dropped, sub, can, rec>>
  BY DEF TypeOK, Work, TakeReady, TryAcquireJobLock, Dispatch, Process, Poll, IndexAndSettle,
     ReleaseTerminalHold, Settle, Capture, MarkSettled, RecordFailure, ReleaseExhausted,
     FailExhausted, RequeueAfter, Ack, Unlock, notWorkers
<1>e. Early' <=> Early
  BY <1>0 DEF Early
<1>1. CASE TakeReady(w)
  <2>1. InQueue'
    BY <1>1 DEF TakeReady, InQueue
  <2>2. (Closable' <=> Closable) /\ status' = status /\ pc' = [pc EXCEPT ![w] = "lock"]
    BY <1>1, <1>e, OpenStays DEF TakeReady
  <2> QED
    BY <1>0, <2>1, <2>2
<1>2. CASE TryAcquireJobLock(w) \/ Dispatch(w) \/ Process(w) \/ Settle(w)
  <2>1. /\ (Closable' <=> Closable) /\ (InQueue' <=> InQueue)
        /\ UNCHANGED <<status, queue>>
    BY <1>2, <1>e, OpenStays DEF TryAcquireJobLock, Dispatch, Process, Settle, queueVars
  <2>2. /\ pc[w] # "idle"
        /\ \E s \in WorkerPCs \ {"failJob"} :
             /\ pc' = [pc EXCEPT ![w] = s]
             /\ s = "ack" => status = "completed"
             /\ s = "process" => status # "settling"
    BY <1>2 DEF TryAcquireJobLock, Dispatch, Process, Settle, WorkerPCs
  <2>3. status = "completed" => ~Closable
    BY DEF MoneyInv, EarlyInv, HoldOpen, Closable
  <2> QED
    BY <1>0, <2>1, <2>2, <2>3
<1>3. CASE Poll(w) \/ IndexAndSettle(w) \/ FailExhausted(w)
  <2>1. (Closable' <=> Closable) /\ (InQueue' <=> InQueue) /\ UNCHANGED queue
    BY <1>3, <1>e, OpenStays DEF Poll, IndexAndSettle, FailExhausted, queueVars
  <2>2. /\ pc[w] \in {"poll", "index", "failJob"} /\ lock = w
        /\ Closable => InQueue
    BY <1>3 DEF Poll, IndexAndSettle, FailExhausted, WorkerInv
  <2>3. \E s \in {"requeue", "index", "release", "ack"} :
             /\ pc' = [pc EXCEPT ![w] = s]
             /\ s = "ack" => pc[w] = "failJob"
    BY <1>3 DEF Poll, IndexAndSettle, FailExhausted
  <2>4. \A v \in Workers : v # w => pc[v] # "process"
    BY <2>2 DEF WorkerInv
  <2> QED
    BY <1>0, <2>1, <2>2, <2>3, <2>4
<1>4. CASE ReleaseTerminalHold(w) \/ ReleaseExhausted(w)
  <2>1. ReleaseOk \/ ReleaseError
    BY <1>4 DEF ReleaseTerminalHold, ReleaseExhausted
  <2>2. (ReleaseOk => ~Closable') /\ (Closable' => Closable)
    BY <2>1, <1>e, ReleaseCloses
  <2>3. (InQueue' <=> InQueue) /\ UNCHANGED <<status, queue>> /\ pc[w] # "idle"
    BY <1>4, <1>e, OpenStays DEF ReleaseTerminalHold, ReleaseExhausted, queueVars
  <2>4. \E s \in {"ack", "failJob", "requeue"} :
             /\ pc' = [pc EXCEPT ![w] = s]
             /\ s # "requeue" => ~Closable'
    BY <1>4, <2>2 DEF ReleaseTerminalHold, ReleaseExhausted
  <2> QED
    BY <1>0, <2>2, <2>3, <2>4
<1>5. CASE Capture(w)
  <2>1. CaptureOk \/ CaptureError
    BY <1>5 DEF Capture
  <2>2. Closable' => Closable
    BY <2>1, <1>e, CaptureCloses
  <2>3. (InQueue' <=> InQueue) /\ UNCHANGED <<status, queue>> /\ pc[w] # "idle"
    BY <1>5, <1>e, OpenStays DEF Capture, queueVars
  <2>4. \E s \in {"mark", "failure"} : pc' = [pc EXCEPT ![w] = s]
    BY <1>5 DEF Capture
  <2> QED
    BY <1>0, <2>2, <2>3, <2>4
<1>6. CASE MarkSettled(w)
  <2>1. ~Closable /\ ~Closable' /\ lock = w /\ (InQueue' <=> InQueue) /\ queue' = queue
    BY <1>6, <1>e, OpenStays DEF MarkSettled, WorkerInv, EarlyInv, HoldOpen, Closable, queueVars
  <2>2. status' \in {status, "completed"}
    BY <1>6 DEF MarkSettled, NoTransition
  <2>3. \E s \in {"ack", "requeue"} : pc' = [pc EXCEPT ![w] = s]
    BY <1>6 DEF MarkSettled
  <2> QED
    BY <1>0, <2>1, <2>2, <2>3
<1>7. CASE RecordFailure(w) \/ Unlock(w)
  <2>1. /\ (Closable' <=> Closable) /\ (InQueue' <=> InQueue)
        /\ UNCHANGED <<status, queue>> /\ pc[w] # "idle"
    BY <1>7, <1>e, OpenStays DEF RecordFailure, Unlock, queueVars
  <2>2. \E s \in {"exhaust", "requeue", "idle"} : pc' = [pc EXCEPT ![w] = s]
    BY <1>7 DEF RecordFailure, Unlock
  <2> QED
    BY <1>0, <2>1, <2>2
<1>8. CASE RequeueAfter(w)
  <2>1. (Closable' <=> Closable) /\ UNCHANGED status /\ pc' = [pc EXCEPT ![w] = "unlock"]
    BY <1>8, <1>e, OpenStays DEF RequeueAfter
  <2>2. pc[w] # "idle" /\ (InQueue => InQueue')
    BY <1>8 DEF RequeueAfter, InQueue
  <2>3. "inflight" \in queue' => InQueue'
    BY <1>8, <2>2 DEF RequeueAfter, InQueue
  <2> QED
    BY <1>0, <2>1, <2>2, <2>3
<1>9. CASE Ack(w)
  <2>1. ~Closable /\ ~Closable'
    BY <1>9, <1>e, OpenStays DEF Ack
  <2>2. "inflight" \in queue' => InQueue'
    BY <1>9 DEF Ack, InQueue
  <2>3. status' = status /\ pc' = [pc EXCEPT ![w] = "unlock"]
    BY <1>9 DEF Ack
  <2> QED
    BY <1>0, <2>1, <2>2, <2>3
<1> QED
  BY <1>1, <1>2, <1>3, <1>4, <1>5, <1>6, <1>7, <1>8, <1>9 DEF Work

\* Every step keeps it.
LEMMA NextOpen ==
  ASSUME Inv, OpenInv, [Next]_vars
  PROVE  OpenInv'
<1>1. CASE MoveDueDelayedToReady \/ RecoverStaleActive
  <2>1. InQueue'
    BY <1>1 DEF MoveDueDelayedToReady, RecoverStaleActive, InQueue, Inv, TypeOK
  <2>2. (Closable' <=> Closable) /\ UNCHANGED <<status, sub, dropped, pc, can, rec>>
    BY <1>1, OpenStays DEF MoveDueDelayedToReady, RecoverStaleActive, Early, procs
  <2> QED
    BY <2>1, <2>2 DEF OpenInv
<1>2. CASE UpstreamEnds \/ UNCHANGED vars
  <2>1. /\ (Closable' <=> Closable) /\ (InQueue' <=> InQueue)
        /\ UNCHANGED <<status, queue, sub, dropped, pc, can, rec>>
    BY <1>2, OpenStays DEF UpstreamEnds, Early, vars, procs, queueVars
  <2> QED
    BY <2>1 DEF OpenInv
<1> QED
  BY <1>1, <1>2, SubmitKeepsOpen, CancelKeepsOpen, RecoveryKeepsOpen, WorkKeepsOpen DEF Next

\* An open hold has somebody who will close it, however Submit, cancel
\* requests, the recovery and workers interleave or die, unless one of them
\* stopped, or got no answer, right where it had to pass the job on, or the
\* release id was used up before the hold was taken.
THEOREM OpenHoldsAreOwned == Spec => []NoOrphanHold
<1>1. Init => OpenInv
  BY DEF Init, OpenInv, Closable, Unstarted, Refundable
<1>2. Inv /\ OpenInv /\ [Next]_vars => OpenInv'
  BY NextOpen
<1>3. Inv /\ OpenInv => NoOrphanHold
  BY DEF Inv, SubmitInv, OpenInv, Closable, NoOrphanHold, Unsubmitted, Unstarted, Refundable, TypeOK
<1> QED
  BY <1>1, <1>2, <1>3, InvHolds, PTL DEF Spec

=============================================================================
