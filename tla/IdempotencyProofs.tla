------------------------- MODULE IdempotencyProofs -------------------------
(***************************************************************************)
(* Proofs about Idempotency, for any number of requests and payloads, any  *)
(* TTL, timeout and backoff, and whatever fails.                           *)
(***************************************************************************)
EXTENDS Idempotency, TLAPS

Executing(r) == pc[r] \in {"execute", "save"}

(* What is known of ids: the record, if there is one, is the newest, and a *)
(* request has an id exactly from its claim on.                            *)
IdInv ==
    /\ row.id \in {0, lastId}
    /\ row.id = 0 => row = NoRow
    /\ \A r \in Requests :
          /\ rid[r] <= lastId
          /\ Executing(r) => rid[r] # 0
          /\ rid[r] # 0 => pc[r] \in {"execute", "save", "done"}
          /\ r \in effects => rid[r] # 0
          /\ pc[r] = "execute" => r \notin effects
          /\ pc[r] = "save" => r \in effects
          /\ pc[r] \in {"expired", "reclaim"} => seen[r].id # 0 /\ seen[r].id <= lastId
          /\ now[r] <= clock /\ at[r] <= clock
          /\ rid[r] # 0 => now[r] <= at[r]

-----------------------------------------------------------------------------
(* Type correctness                                                        *)

\* The initial state is well typed.
LEMMA InitTypeOK == Init => TypeOK
<1> SUFFICES ASSUME Init PROVE TypeOK
  OBVIOUS
<1>1. row \in Rows
  BY DEF Init, NoRow, Rows, Statuses
<1>2. seen \in [Requests -> Seen]
  BY DEF Init, NotSeen, Seen, Statuses
<1> QED
  BY <1>1, <1>2 DEF Init, TypeOK, PCs

\* What the statements on the record return is a record.
LEMMA StatementTypes ==
  ASSUME NEW w \in Rows, NEW i \in Nat, NEW b \in Requests \cup {None}, NEW l \in Nat, NEW e \in Nat
  PROVE  /\ TryReclaim(w, l, e) \in Rows
         /\ MarkSucceeded(w, i, b, e) \in Rows
         /\ MarkFailedRetryable(w, i, l, e) \in Rows
BY DEF Rows, Statuses, TryReclaim, MarkSucceeded, MarkFailedRetryable

\* Every step keeps the types.
LEMMA NextTypeOK == TypeOK /\ [Next]_vars => TypeOK'
<1> SUFFICES ASSUME TypeOK, [Next]_vars PROVE TypeOK'
  OBVIOUS
<1> USE TimesAssumption DEF TypeOK, TimesAssumption, PCs, reqVars
<1>1. ASSUME NEW r \in Requests, Begin(r) PROVE TypeOK'
  BY <1>1 DEF Begin
<1>2. ASSUME NEW r \in Requests, Execute(r) PROVE TypeOK'
  <2>0. /\ expiresAt(r) \in Nat
        /\ lockedUntil(r) \in Nat
    BY DEF expiresAt, lockedUntil
  <2>1. CASE CreateRecord(r)
    <3>1. CreateProcessing(lastId + 1, fp[r], lockedUntil(r), expiresAt(r)) \in Rows
      BY <2>0 DEF CreateProcessing, Rows, Statuses
    <3> QED
      BY <2>1, <3>1 DEF CreateRecord, Claim
  <2>2. ASSUME \/ Refused(r)
               \/ WillReclaim(r, "expired")
               \/ Decide(r)
        PROVE  /\ pc' \in [Requests -> PCs]
               /\ replayed' \in [Requests -> Requests \cup {None}]
               /\ seen' \in [Requests -> Seen]
    <3>1. [id |-> row.id, status |-> row.status] \in Seen
      BY DEF Seen, Rows
    <3>2. row.body \in Requests \cup {None}
      BY DEF Rows
    <3> QED
      BY <2>2, <3>1, <3>2 DEF Refused, WillReclaim, Decide, Answer
  <2>3. CASE GetExisting(r)
    BY <2>2, <2>3 DEF GetExisting
  <2>4. CASE GetLatest(r)
    BY <2>2, <2>4 DEF GetLatest
  <2>5. CASE ReclaimExpired(r) \/ ReclaimFailed(r)
    <3>1. TryReclaim(row, lockedUntil(r), expiresAt(r)) \in Rows
      BY <2>0, StatementTypes
    <3>2. seen[r].id \in Nat
      BY DEF Seen
    <3> QED
      <4>1. CASE ReclaimExpired(r)
        <5>1. lapsed' \subseteq Nat
          BY <4>1, <3>2 DEF ReclaimExpired
        <5>2. row' \in Rows
          BY <4>1, <3>1 DEF ReclaimExpired
        <5>3. /\ pc' \in [Requests -> PCs]
              /\ rid' \in [Requests -> Nat]
              /\ at' \in [Requests -> Nat]
          BY <4>1, <3>2 DEF ReclaimExpired, Claim
        <5> QED
          BY <4>1, <5>1, <5>2, <5>3 DEF ReclaimExpired
      <4>2. CASE ReclaimFailed(r)
        BY <4>2, <3>1, <3>2 DEF ReclaimFailed, Claim
      <4> QED
        BY <2>5, <4>1, <4>2
  <2>6. CASE ExecuteSucceeds(r) \/ GiveUp(r)
    BY <2>6 DEF ExecuteSucceeds, GiveUp
  <2>7. CASE SaveSucceeded(r)
    <3>1. MarkSucceeded(row, rid[r], r, expiresAt(r)) \in Rows
      BY <2>0, StatementTypes
    <3> QED
      BY <2>7, <3>1 DEF SaveSucceeded
  <2>8. CASE ExecuteFails(r)
    <3>1. PICK t \in at[r] .. clock :
             row' = MarkFailedRetryable(row, rid[r], t + FailedRetryBackoff, expiresAt(r))
      BY <2>8 DEF ExecuteFails
    <3>2. t + FailedRetryBackoff \in Nat
      OBVIOUS
    <3>3. row' \in Rows
      BY <2>0, <3>1, <3>2, StatementTypes
    <3> QED
      BY <2>8, <3>3 DEF ExecuteFails
  <2> QED
    BY <1>2, <2>1, <2>3, <2>4, <2>5, <2>6, <2>7, <2>8 DEF Execute
<1>3. CASE CleanupOnce
  <2>1. NoRow \in Rows
    BY DEF NoRow, Rows, Statuses
  <2> QED
    BY <1>3, <2>1 DEF CleanupOnce
<1>4. CASE Tick
  BY <1>4 DEF Tick
<1>5. CASE UNCHANGED vars
  BY <1>5 DEF vars
<1> QED
  BY <1>1, <1>2, <1>3, <1>4, <1>5 DEF Next

\* The record, the requests and their times keep their types.
THEOREM TypeCorrect == Spec => []TypeOK
BY InitTypeOK, NextTypeOK, PTL DEF Spec

-----------------------------------------------------------------------------
(* Ids and times                                                           *)

\* IdInv is an invariant, given the types.
LEMMA NextIdInv == TypeOK /\ IdInv /\ [Next]_vars => IdInv'
<1> SUFFICES ASSUME TypeOK, IdInv, [Next]_vars PROVE IdInv'
  OBVIOUS
<1> USE TimesAssumption DEF TypeOK, TimesAssumption, IdInv, Executing, PCs, reqVars
<1>1. ASSUME NEW r \in Requests, Begin(r) PROVE IdInv'
  BY <1>1 DEF Begin
<1>2. ASSUME NEW r \in Requests, Execute(r) PROVE IdInv'
  <2>1. CASE CreateRecord(r)
    <3>1. CASE row.id # 0
      BY <2>1, <3>1 DEF CreateRecord
    <3>2. CASE row.id = 0
      <4>1. /\ row'.id = lastId + 1
            /\ lastId' = lastId + 1
            /\ rid' = [rid EXCEPT ![r] = lastId + 1]
            /\ at' = [at EXCEPT ![r] = clock]
            /\ pc' = [pc EXCEPT ![r] = "execute"]
            /\ UNCHANGED <<clock, now, seen, effects>>
        BY <2>1, <3>2 DEF CreateRecord, Claim, CreateProcessing
      <4> QED
        <5>1. rid[r] = 0 /\ r \notin effects
          BY <2>1 DEF CreateRecord
        <5>2. row'.id # 0 /\ row'.id = lastId'
          BY <4>1
        <5> QED
          BY <4>1, <5>1, <5>2 DEF Seen
    <3> QED
      BY <3>1, <3>2
  <2>2. ASSUME Refused(r) \/ Decide(r) \/ WillReclaim(r, "expired"),
               pc[r] \in {"get", "latest"},
               row.id # 0 \/ Refused(r),
               UNCHANGED <<clock, row, lastId, now, rid, effects, at>>
        PROVE  IdInv'
    <3>1. row.id <= lastId
      OBVIOUS
    <3> QED
      BY <2>2, <3>1 DEF Refused, Decide, WillReclaim, Answer
  <2>3. CASE GetExisting(r)
    BY <2>2, <2>3 DEF GetExisting
  <2>4. CASE GetLatest(r)
    BY <2>2, <2>4 DEF GetLatest
  <2>5. CASE ReclaimExpired(r)
    <3>1. CASE Reclaimable(row, seen[r].id, seen[r].status, now[r])
      <4>1. /\ row'.id = row.id
            /\ row.id = seen[r].id
            /\ rid' = [rid EXCEPT ![r] = seen[r].id]
            /\ at' = [at EXCEPT ![r] = clock]
            /\ pc' = [pc EXCEPT ![r] = "execute"]
            /\ UNCHANGED <<clock, now, seen, effects, lastId>>
        BY <2>5, <3>1 DEF ReclaimExpired, Claim, Reclaimable, TryReclaim, Rows
      <4> QED
        BY <4>1, <2>5 DEF ReclaimExpired, Seen
    <3>2. CASE ~Reclaimable(row, seen[r].id, seen[r].status, now[r])
      BY <2>5, <3>2 DEF ReclaimExpired
    <3> QED
      BY <3>1, <3>2
  <2>6. CASE ReclaimFailed(r)
    <3>1. CASE Reclaimable(row, seen[r].id, "failed_retryable", now[r])
      <4>1. /\ row'.id = row.id
            /\ row.id = seen[r].id
            /\ rid' = [rid EXCEPT ![r] = seen[r].id]
            /\ at' = [at EXCEPT ![r] = clock]
            /\ pc' = [pc EXCEPT ![r] = "execute"]
            /\ UNCHANGED <<clock, now, seen, effects, lastId>>
        BY <2>6, <3>1 DEF ReclaimFailed, Claim, Reclaimable, TryReclaim, Rows
      <4> QED
        BY <4>1, <2>6 DEF ReclaimFailed, Seen
    <3>2. CASE ~Reclaimable(row, seen[r].id, "failed_retryable", now[r])
      BY <2>6, <3>2 DEF ReclaimFailed
    <3> QED
      BY <3>1, <3>2
  <2>7. CASE ExecuteSucceeds(r)
    BY <2>7 DEF ExecuteSucceeds
  <2>8. CASE SaveSucceeded(r)
    BY <2>8 DEF SaveSucceeded, MarkSucceeded, Rows
  <2>9. CASE ExecuteFails(r)
    BY <2>9 DEF ExecuteFails, MarkFailedRetryable, Rows
  <2>10. CASE GiveUp(r)
    BY <2>10 DEF GiveUp
  <2> QED
    BY <1>2, <2>1, <2>3, <2>4, <2>5, <2>6, <2>7, <2>8, <2>9, <2>10 DEF Execute
<1>3. CASE CleanupOnce
  BY <1>3 DEF CleanupOnce, NoRow
<1>4. CASE Tick
  BY <1>4 DEF Tick
<1>5. CASE UNCHANGED vars
  BY <1>5 DEF vars
<1> QED
  BY <1>1, <1>2, <1>3, <1>4, <1>5 DEF Next

-----------------------------------------------------------------------------
(* What the reads and the takeovers come to                                *)

\* A read either ends the request, with a response only if it is the record's, or
\* sends it on to a takeover of the record it read.
LEMMA ReadStep ==
  ASSUME NEW r \in Requests, GetExisting(r) \/ GetLatest(r)
  PROVE  /\ pc[r] \in {"get", "latest"}
         /\ UNCHANGED <<clock, row, lastId, fp, now, rid, effects, at, lapsed>>
         /\ \/ /\ pc' = [pc EXCEPT ![r] = "done"]
               /\ UNCHANGED seen
               /\ \/ replayed' = [replayed EXCEPT ![r] = None]
                  \/ /\ replayed' = [replayed EXCEPT ![r] = row.body]
                     /\ row.fp = fp[r]
            \/ /\ row.id # 0
               /\ row.fp = fp[r]
               /\ \E step \in {"expired", "reclaim"} : WillReclaim(r, step)
<1>1. ASSUME Refused(r) \/ (row.id # 0 /\ row.fp = fp[r] /\ Decide(r))
      PROVE  \/ /\ pc' = [pc EXCEPT ![r] = "done"]
                /\ UNCHANGED seen
                /\ \/ replayed' = [replayed EXCEPT ![r] = None]
                   \/ /\ replayed' = [replayed EXCEPT ![r] = row.body]
                      /\ row.fp = fp[r]
             \/ row.id # 0 /\ row.fp = fp[r] /\ WillReclaim(r, "reclaim")
  BY <1>1 DEF Refused, Decide, Answer
<1>2. CASE GetExisting(r)
  BY <1>1, <1>2 DEF GetExisting
<1>3. CASE GetLatest(r)
  BY <1>1, <1>3 DEF GetLatest
<1> QED
  BY <1>2, <1>3

\* A takeover is lost, and changes the request only, or makes it the owner; the
\* record was then marked as lapsed or had failed.
LEMMA ReclaimStep ==
  ASSUME TypeOK, NEW r \in Requests, ReclaimExpired(r) \/ ReclaimFailed(r)
  PROVE  /\ pc[r] \in {"expired", "reclaim"}
         /\ UNCHANGED <<clock, lastId, fp, now, seen, effects, replayed>>
         /\ \/ /\ \E step \in {"latest", "done"} : pc' = [pc EXCEPT ![r] = step]
               /\ UNCHANGED <<row, rid, at, lapsed>>
            \/ /\ row.id = seen[r].id
               /\ row.locked <= now[r]
               /\ row'.id = row.id
               /\ row'.fp = row.fp
               /\ row'.body = row.body
               /\ row'.status = "processing"
               /\ row'.expires = expiresAt(r)
               /\ rid' = [rid EXCEPT ![r] = row.id]
               /\ at' = [at EXCEPT ![r] = clock]
               /\ pc' = [pc EXCEPT ![r] = "execute"]
               /\ \/ lapsed' = lapsed \cup {row.id}
                  \/ row.status = "failed_retryable" /\ UNCHANGED lapsed
<1> USE DEF TypeOK, Rows, Reclaimable, TryReclaim, Claim
<1>1. CASE ReclaimExpired(r)
  <2>1. CASE Reclaimable(row, seen[r].id, seen[r].status, now[r])
    BY <1>1, <2>1 DEF ReclaimExpired
  <2>2. CASE ~Reclaimable(row, seen[r].id, seen[r].status, now[r])
    BY <1>1, <2>2 DEF ReclaimExpired
  <2> QED
    BY <2>1, <2>2
<1>2. CASE ReclaimFailed(r)
  <2>1. CASE Reclaimable(row, seen[r].id, "failed_retryable", now[r])
    BY <1>2, <2>1 DEF ReclaimFailed
  <2>2. CASE ~Reclaimable(row, seen[r].id, "failed_retryable", now[r])
    BY <1>2, <2>2 DEF ReclaimFailed
  <2> QED
    BY <2>1, <2>2
<1> QED
  BY <1>1, <1>2

-----------------------------------------------------------------------------
(* One payload per record                                                  *)

(* The record has the payload of its owners, past ones included, and of    *)
(* those who mean to take it over.                                         *)
FpInv ==
    /\ OnePayloadPerRecord
    /\ \A r \in Requests :
          /\ rid[r] # 0 /\ rid[r] = row.id => row.fp = fp[r]
          /\ pc[r] \in {"expired", "reclaim"} =>
                /\ seen[r].id = row.id => row.fp = fp[r]
                /\ \A s \in Requests : rid[s] = seen[r].id => fp[s] = fp[r]

\* FpInv is an invariant, given types and ids.
LEMMA NextFpInv == TypeOK /\ IdInv /\ FpInv /\ [Next]_vars => FpInv'
<1> SUFFICES ASSUME TypeOK, IdInv, FpInv, [Next]_vars PROVE FpInv'
  OBVIOUS
<1> USE DEF TypeOK, IdInv, FpInv, OnePayloadPerRecord, Executing, reqVars
<1>1. ASSUME NEW r \in Requests, Begin(r) PROVE FpInv'
  BY <1>1 DEF Begin
<1>2. ASSUME NEW r \in Requests, Execute(r) PROVE FpInv'
  <2>1. CASE CreateRecord(r)
    <3>1. CASE row.id # 0
      BY <2>1, <3>1 DEF CreateRecord
    <3>2. CASE row.id = 0
      <4>1. /\ row'.id = lastId + 1
            /\ row'.fp = fp[r]
            /\ rid' = [rid EXCEPT ![r] = lastId + 1]
            /\ pc' = [pc EXCEPT ![r] = "execute"]
            /\ UNCHANGED <<fp, seen>>
        BY <2>1, <3>2 DEF CreateRecord, Claim, CreateProcessing
      <4> QED
        BY <4>1 DEF Seen
    <3> QED
      BY <3>1, <3>2
  <2>2. CASE GetExisting(r) \/ GetLatest(r)
    <3>1. CASE pc' = [pc EXCEPT ![r] = "done"] /\ UNCHANGED seen
      BY <2>2, <3>1, ReadStep
    <3>2. ASSUME NEW step \in {"expired", "reclaim"}, WillReclaim(r, step), row.fp = fp[r]
          PROVE  FpInv'
      <4>1. /\ seen' = [seen EXCEPT ![r] = [id |-> row.id, status |-> row.status]]
            /\ pc' = [pc EXCEPT ![r] = step]
            /\ UNCHANGED <<row, fp, rid>>
            /\ row.id # 0
        BY <2>2, <3>2, ReadStep DEF WillReclaim
      <4> QED
        BY <3>2, <4>1
    <3> QED
      BY <2>2, <3>1, <3>2, ReadStep
  <2>3. CASE ReclaimExpired(r) \/ ReclaimFailed(r)
    BY <2>3, ReclaimStep
  <2>4. CASE ExecuteSucceeds(r)
    BY <2>4 DEF ExecuteSucceeds
  <2>5. CASE SaveSucceeded(r)
    BY <2>5 DEF SaveSucceeded, MarkSucceeded, Rows
  <2>6. CASE ExecuteFails(r)
    BY <2>6 DEF ExecuteFails, MarkFailedRetryable, Rows
  <2>7. CASE GiveUp(r)
    BY <2>7 DEF GiveUp
  <2> QED
    BY <1>2, <2>1, <2>2, <2>3, <2>4, <2>5, <2>6, <2>7 DEF Execute
<1>3. CASE CleanupOnce
  BY <1>3 DEF CleanupOnce, NoRow
<1>4. CASE Tick
  BY <1>4 DEF Tick
<1>5. CASE UNCHANGED vars
  BY <1>5 DEF vars
<1> QED
  BY <1>1, <1>2, <1>3, <1>4, <1>5 DEF Next

-----------------------------------------------------------------------------
(* Replays                                                                 *)

(* The stored response is that of an owner whose effect happened.          *)
BodyInv ==
    /\ ReplayIsAuthentic
    /\ row.body # None => row.body \in effects /\ fp[row.body] = row.fp
    /\ \A r \in Requests : replayed[r] # None => pc[r] = "done"

\* BodyInv is an invariant, given types, ids and payloads.
LEMMA NextBodyInv == TypeOK /\ IdInv /\ FpInv /\ BodyInv /\ [Next]_vars => BodyInv'
<1> SUFFICES ASSUME TypeOK, IdInv, FpInv, BodyInv, [Next]_vars PROVE BodyInv'
  OBVIOUS
<1> USE NoneAssumption DEF NoneAssumption, TypeOK, BodyInv, ReplayIsAuthentic, reqVars
<1>1. ASSUME NEW r \in Requests, Begin(r) PROVE BodyInv'
  <2>1. r \notin effects /\ replayed[r] = None
    BY <1>1 DEF Begin, IdInv
  <2>2. \A q \in effects : fp'[q] = fp[q]
    BY <1>1, <2>1 DEF Begin
  <2>3. \A s \in Requests : replayed[s] # None => fp'[s] = fp[s]
    BY <1>1, <2>1 DEF Begin
  <2> QED
    BY <1>1, <2>1, <2>2, <2>3 DEF Begin
<1>2. ASSUME NEW r \in Requests, Execute(r) PROVE BodyInv'
  <2>1. CASE CreateRecord(r)
    <3>1. row'.body # None => row' = row
      BY <2>1 DEF CreateRecord, CreateProcessing
    <3>2. pc[r] # "done" /\ UNCHANGED <<fp, effects, replayed>>
      BY <2>1 DEF CreateRecord
    <3>3. \A s \in Requests : pc[s] = "done" => pc'[s] = "done"
      BY <2>1 DEF CreateRecord, Claim
    <3> QED
      BY <3>1, <3>2, <3>3
  <2>2. CASE GetExisting(r) \/ GetLatest(r)
    <3>1. /\ pc[r] # "done"
          /\ UNCHANGED <<row, fp, effects>>
      BY <2>2, ReadStep
    <3>2. CASE /\ pc' = [pc EXCEPT ![r] = "done"]
               /\ replayed' = [replayed EXCEPT ![r] = None]
      BY <3>1, <3>2
    <3>3. CASE /\ pc' = [pc EXCEPT ![r] = "done"]
               /\ replayed' = [replayed EXCEPT ![r] = row.body]
               /\ row.fp = fp[r]
      BY <3>1, <3>3
    <3>4. CASE \E step \in {"expired", "reclaim"} : WillReclaim(r, step)
      BY <3>1, <3>4 DEF WillReclaim
    <3> QED
      BY <2>2, <3>2, <3>3, <3>4, ReadStep
  <2>3. CASE ReclaimExpired(r) \/ ReclaimFailed(r)
    <3>1. /\ row'.body = row.body
          /\ row'.fp = row.fp
          /\ UNCHANGED <<fp, effects, replayed>>
          /\ \A s \in Requests : pc[s] = "done" => pc'[s] = "done"
      BY <2>3, ReclaimStep
    <3> QED
      BY <3>1
  <2>4. CASE ExecuteSucceeds(r)
    BY <2>4 DEF ExecuteSucceeds
  <2>5. CASE SaveSucceeded(r)
    <3>1. r \in effects /\ rid[r] # 0
      BY <2>5 DEF SaveSucceeded, IdInv, Executing
    <3>2. row'.body = row.body \/ (row'.body = r /\ row.id = rid[r])
      BY <2>5 DEF SaveSucceeded, MarkSucceeded, Rows
    <3>3. row'.fp = row.fp
      BY <2>5 DEF SaveSucceeded, MarkSucceeded, Rows
    <3>4. /\ UNCHANGED <<fp, effects, replayed>>
          /\ \A s \in Requests : pc[s] = "done" => pc'[s] = "done"
      BY <2>5 DEF SaveSucceeded
    <3>5. row.id = rid[r] => row.fp = fp[r]
      BY <3>1 DEF FpInv
    <3> QED
      BY <3>1, <3>2, <3>3, <3>4, <3>5
  <2>6. CASE ExecuteFails(r)
    <3>1. row'.body = row.body /\ row'.fp = row.fp
      BY <2>6 DEF ExecuteFails, MarkFailedRetryable, Rows
    <3> QED
      BY <2>6, <3>1 DEF ExecuteFails
  <2>7. CASE GiveUp(r)
    BY <2>7 DEF GiveUp
  <2> QED
    BY <1>2, <2>1, <2>2, <2>3, <2>4, <2>5, <2>6, <2>7 DEF Execute
<1>3. CASE CleanupOnce
  BY <1>3 DEF CleanupOnce, NoRow
<1>4. CASE Tick
  BY <1>4 DEF Tick
<1>5. CASE UNCHANGED vars
  BY <1>5 DEF vars
<1> QED
  BY <1>1, <1>2, <1>3, <1>4, <1>5 DEF Next

-----------------------------------------------------------------------------
(* One effect per lifetime                                                 *)

(* While a record has not been taken over as expired, it has one owner at  *)
(* work at most, it says so, and no owner starts after the effect.         *)
ExecInv ==
    \A r, s \in Requests : rid[r] = rid[s] /\ rid[r] \notin lapsed =>
        /\ Executing(r) /\ Executing(s) => r = s
        /\ r \in effects /\ s \in effects => r = s
        /\ r \in effects /\ Executing(s) => r = s
        /\ Executing(r) /\ row.id = rid[r] => row.status = "processing"
        /\ r \in effects /\ row.id = rid[r] => row.status # "failed_retryable"

\* ExecInv is an invariant, given types and ids.
LEMMA NextExecInv == TypeOK /\ IdInv /\ ExecInv /\ [Next]_vars => ExecInv'
<1> SUFFICES ASSUME TypeOK, IdInv, ExecInv, [Next]_vars PROVE ExecInv'
  OBVIOUS
<1> USE DEF TypeOK, IdInv, ExecInv, Executing, reqVars
<1>1. ASSUME NEW r \in Requests, Begin(r) PROVE ExecInv'
  BY <1>1 DEF Begin
<1>2. ASSUME NEW r \in Requests, Execute(r) PROVE ExecInv'
  <2>1. CASE CreateRecord(r)
    <3>1. CASE row.id # 0
      BY <2>1, <3>1 DEF CreateRecord
    <3>2. CASE row.id = 0
      <4>1. /\ row'.id = lastId + 1
            /\ row'.status = "processing"
            /\ rid' = [rid EXCEPT ![r] = lastId + 1]
            /\ pc' = [pc EXCEPT ![r] = "execute"]
            /\ r \notin effects
            /\ UNCHANGED <<effects, lapsed>>
        BY <2>1, <3>2 DEF CreateRecord, Claim, CreateProcessing
      <4>2. \A s \in Requests \ {r} : rid'[s] = rid[s] /\ rid'[s] # lastId + 1
        BY <4>1
      <4> QED
        BY <4>1, <4>2
    <3> QED
      BY <3>1, <3>2
  <2>2. CASE GetExisting(r) \/ GetLatest(r)
    <3>1. /\ UNCHANGED <<row, rid, effects, lapsed>>
          /\ \A s \in Requests : pc'[s] = pc[s] \/ pc'[s] \in {"done", "expired", "reclaim"}
      BY <2>2, ReadStep DEF WillReclaim
    <3> QED
      BY <3>1
  <2>3. CASE ReclaimExpired(r) \/ ReclaimFailed(r)
    <3>1. CASE \E step \in {"latest", "done"} :
                  pc' = [pc EXCEPT ![r] = step] /\ UNCHANGED <<row, rid, lapsed>>
      <4>1. UNCHANGED effects
        BY <2>3, ReclaimStep
      <4>2. \A s \in Requests : pc'[s] = pc[s] \/ pc'[s] \in {"latest", "done"}
        BY <3>1
      <4> QED
        BY <3>1, <4>1, <4>2
    <3>2. CASE /\ row'.id = row.id
               /\ row'.status = "processing"
               /\ rid' = [rid EXCEPT ![r] = row.id]
               /\ pc' = [pc EXCEPT ![r] = "execute"]
               /\ \/ lapsed' = lapsed \cup {row.id}
                  \/ row.status = "failed_retryable" /\ UNCHANGED lapsed
      <4>1. r \notin effects /\ UNCHANGED effects
        BY <2>3, ReclaimStep
      <4>2. ASSUME NEW s \in Requests \ {r}, rid[s] = row.id, row.id \notin lapsed'
            PROVE  ~Executing(s) /\ s \notin effects
        BY <3>2, <4>2
      <4> QED
        BY <3>2, <4>1, <4>2
    <3> QED
      BY <2>3, <3>1, <3>2, ReclaimStep
  <2>4. CASE ExecuteSucceeds(r)
    BY <2>4 DEF ExecuteSucceeds
  <2>5. CASE SaveSucceeded(r)
    <3>1. /\ row'.id = row.id
          /\ row' = row \/ (row.id = rid[r] /\ row'.status = "succeeded")
          /\ pc[r] = "save"
          /\ pc' = [pc EXCEPT ![r] = "done"]
          /\ UNCHANGED <<rid, effects, lapsed>>
      BY <2>5 DEF SaveSucceeded, MarkSucceeded, Rows
    <3> QED
      BY <3>1
  <2>6. CASE ExecuteFails(r)
    <3>1. /\ row'.id = row.id
          /\ row' = row \/ row.id = rid[r]
          /\ pc[r] = "execute"
          /\ pc' = [pc EXCEPT ![r] = "done"]
          /\ UNCHANGED <<rid, effects, lapsed>>
      BY <2>6 DEF ExecuteFails, MarkFailedRetryable, Rows
    <3> QED
      BY <3>1
  <2>7. CASE GiveUp(r)
    BY <2>7 DEF GiveUp
  <2> QED
    BY <1>2, <2>1, <2>2, <2>3, <2>4, <2>5, <2>6, <2>7 DEF Execute
<1>3. CASE CleanupOnce
  BY <1>3 DEF CleanupOnce, NoRow
<1>4. CASE Tick
  BY <1>4 DEF Tick
<1>5. CASE UNCHANGED vars
  BY <1>5 DEF vars
<1> QED
  BY <1>1, <1>2, <1>3, <1>4, <1>5 DEF Next

(* The record outlives the TTL of each of its owners, since each began no  *)
(* earlier than the one before it; what follows it comes later.            *)
TimeInv ==
    \A r, s \in Requests : rid[r] # 0 /\ rid[r] \notin lapsed =>
        /\ rid[r] = row.id => row.expires >= expiresAt(r)
        /\ rid[r] = row.id /\ row.status = "failed_retryable" => row.locked >= now[r]
        /\ rid[r] = rid[s] /\ Executing(s) => now[r] <= now[s]
        /\ rid[r] # row.id => clock >= expiresAt(r)
        /\ rid[r] < rid[s] => at[s] >= expiresAt(r)

\* TimeInv is an invariant, given the others.
LEMMA NextTimeInv == TypeOK /\ IdInv /\ ExecInv /\ TimeInv /\ [Next]_vars => TimeInv'
<1> SUFFICES ASSUME TypeOK, IdInv, ExecInv, TimeInv, [Next]_vars PROVE TimeInv'
  OBVIOUS
<1> USE TimesAssumption
        DEF TypeOK, TimesAssumption, IdInv, TimeInv, Executing, expiresAt, reqVars
<1>1. ASSUME NEW r \in Requests, Begin(r) PROVE TimeInv'
  BY <1>1 DEF Begin
<1>2. ASSUME NEW r \in Requests, Execute(r) PROVE TimeInv'
  <2>1. CASE CreateRecord(r)
    <3>1. CASE row.id # 0
      BY <2>1, <3>1 DEF CreateRecord
    <3>2. CASE row.id = 0
      <4>1. /\ row'.id = lastId + 1
            /\ row'.status = "processing"
            /\ row'.expires = now[r] + TTL
            /\ rid' = [rid EXCEPT ![r] = lastId + 1]
            /\ at' = [at EXCEPT ![r] = clock]
            /\ pc' = [pc EXCEPT ![r] = "execute"]
            /\ UNCHANGED <<clock, now, lapsed>>
        BY <2>1, <3>2 DEF CreateRecord, Claim, CreateProcessing
      <4>2. \A s \in Requests \ {r} :
               rid'[s] = rid[s] /\ at'[s] = at[s] /\ rid[s] # lastId + 1 /\ rid[s] < lastId + 1
        BY <4>1
      <4>3. \A s \in Requests \ {r} :
               rid[s] # 0 /\ rid[s] \notin lapsed => clock >= now[s] + TTL
        BY <3>2
      <4> QED
        BY <4>1, <4>2, <4>3
    <3> QED
      BY <3>1, <3>2
  <2>2. CASE GetExisting(r) \/ GetLatest(r)
    <3>1. /\ UNCHANGED <<clock, row, rid, now, at, lapsed>>
          /\ \A s \in Requests : pc'[s] = pc[s] \/ pc'[s] \in {"done", "expired", "reclaim"}
      BY <2>2, ReadStep DEF WillReclaim
    <3> QED
      BY <3>1
  <2>3. CASE ReclaimExpired(r) \/ ReclaimFailed(r)
    <3>1. CASE \E step \in {"latest", "done"} :
                  pc' = [pc EXCEPT ![r] = step] /\ UNCHANGED <<row, rid, at, lapsed>>
      <4>1. UNCHANGED <<clock, now>>
        BY <2>3, ReclaimStep
      <4>2. \A s \in Requests : pc'[s] = pc[s] \/ pc'[s] \in {"latest", "done"}
        BY <3>1
      <4> QED
        BY <3>1, <4>1, <4>2
    <3>2. CASE /\ row.id = seen[r].id
               /\ row.locked <= now[r]
               /\ row'.id = row.id
               /\ row'.status = "processing"
               /\ row'.expires = now[r] + TTL
               /\ rid' = [rid EXCEPT ![r] = row.id]
               /\ at' = [at EXCEPT ![r] = clock]
               /\ pc' = [pc EXCEPT ![r] = "execute"]
               /\ \/ lapsed' = lapsed \cup {row.id}
                  \/ row.status = "failed_retryable" /\ UNCHANGED lapsed
      <4>1. row.id # 0 /\ row.id = lastId /\ UNCHANGED <<clock, now>>
        BY <2>3, <3>2, ReclaimStep
      <4>2. ASSUME NEW s \in Requests \ {r}, rid[s] = row.id, row.id \notin lapsed'
            PROVE  ~Executing(s) /\ now[s] <= now[r]
        BY <3>2, <4>1, <4>2 DEF ExecInv, Rows
      <4>3. ASSUME NEW s \in Requests \ {r}, rid[s] # 0, rid[s] \notin lapsed, rid[s] # row.id
            PROVE  rid[s] < row.id /\ clock >= now[s] + TTL
        BY <4>1, <4>3
      <4> QED
        BY <3>2, <4>1, <4>2, <4>3
    <3> QED
      BY <2>3, <3>1, <3>2, ReclaimStep
  <2>4. CASE ExecuteSucceeds(r)
    BY <2>4 DEF ExecuteSucceeds
  <2>5. CASE SaveSucceeded(r)
    <3>1. /\ row'.id = row.id
          /\ \/ row' = row
             \/ /\ row.id = rid[r]
                /\ row'.status = "succeeded"
                /\ row'.expires = now[r] + TTL
          /\ pc[r] = "save"
          /\ pc' = [pc EXCEPT ![r] = "done"]
          /\ UNCHANGED <<clock, rid, now, at, lapsed>>
      BY <2>5 DEF SaveSucceeded, MarkSucceeded, Rows
    <3> QED
      BY <3>1
  <2>6. CASE ExecuteFails(r)
    <3>1. /\ row'.id = row.id
          /\ \/ row' = row
             \/ /\ row.id = rid[r]
                /\ row'.locked >= at[r]
                /\ row'.expires = now[r] + TTL
          /\ pc[r] = "execute"
          /\ pc' = [pc EXCEPT ![r] = "done"]
          /\ UNCHANGED <<clock, rid, now, at, lapsed>>
      BY <2>6 DEF ExecuteFails, MarkFailedRetryable, Rows
    <3>2. row'.locked \in Nat
      BY <2>6, NextTypeOK DEF Rows
    <3> QED
      BY <3>1, <3>2
  <2>7. CASE GiveUp(r)
    BY <2>7 DEF GiveUp
  <2> QED
    BY <1>2, <2>1, <2>2, <2>3, <2>4, <2>5, <2>6, <2>7 DEF Execute
<1>3. CASE CleanupOnce
  BY <1>3 DEF CleanupOnce, Expired, NoRow, Rows
<1>4. CASE Tick
  BY <1>4 DEF Tick
<1>5. CASE UNCHANGED vars
  BY <1>5 DEF vars
<1> QED
  BY <1>1, <1>2, <1>3, <1>4, <1>5 DEF Next

-----------------------------------------------------------------------------

Inv == TypeOK /\ IdInv /\ FpInv /\ BodyInv /\ ExecInv /\ TimeInv

\* Inv holds at first.
LEMMA InitInv == Init => Inv
<1> SUFFICES ASSUME Init PROVE Inv
  OBVIOUS
<1>1. IdInv
  BY DEF Init, IdInv, Executing, NoRow
<1>2. FpInv
  BY DEF Init, FpInv, OnePayloadPerRecord
<1>3. BodyInv
  BY DEF Init, BodyInv, ReplayIsAuthentic, NoRow
<1>4. ExecInv
  BY DEF Init, ExecInv, Executing
<1>5. TimeInv
  BY DEF Init, TimeInv
<1> QED
  BY <1>1, <1>2, <1>3, <1>4, <1>5, InitTypeOK DEF Inv

\* Inv is invariant.
LEMMA InvHolds == Spec => []Inv
<1>1. Inv /\ [Next]_vars => Inv'
  BY NextTypeOK, NextIdInv, NextFpInv, NextBodyInv, NextExecInv, NextTimeInv DEF Inv
<1> QED
  BY <1>1, InitInv, PTL DEF Spec

\* A replayed response is that of a request with the same payload whose effect
\* happened.
THEOREM ReplaysAreAuthentic == Spec => []ReplayIsAuthentic
<1>1. Inv => ReplayIsAuthentic
  BY DEF Inv, BodyInv
<1> QED
  BY <1>1, InvHolds, PTL

\* No record is ever executed for two payloads.
THEOREM PayloadsAreKept == Spec => []OnePayloadPerRecord
<1>1. Inv => OnePayloadPerRecord
  BY DEF Inv, FpInv
<1> QED
  BY <1>1, InvHolds, PTL

\* Up to its first takeover as expired a record has one request at work.
THEOREM ExecutionIsExclusive == Spec => []OneExecutor
<1>1. Inv => OneExecutor
  BY DEF Inv, ExecInv, OneExecutor, Executing
<1> QED
  BY <1>1, InvHolds, PTL

\* The effect of a key happens once per lifetime of its record.
THEOREM OneEffectPerLifetime == Spec => []EffectsAreApart
<1>1. Inv => EffectsAreApart
  <2> SUFFICES ASSUME Inv, NEW r \in effects, NEW s \in effects, r # s,
                      rid[r] \notin lapsed, rid[r] <= rid[s]
               PROVE  rid[r] # rid[s] /\ at[s] >= expiresAt(r)
    BY DEF EffectsAreApart
  <2>1. r \in Requests /\ s \in Requests /\ rid[r] \in Nat /\ rid[s] \in Nat
    BY DEF Inv, TypeOK
  <2>2. rid[r] # rid[s]
    BY <2>1 DEF Inv, ExecInv
  <2>3. rid[r] # 0 /\ rid[r] < rid[s]
    BY <2>1, <2>2 DEF Inv, IdInv
  <2> QED
    BY <2>1, <2>2, <2>3 DEF Inv, TimeInv
<1> QED
  BY <1>1, InvHolds, PTL

=============================================================================
