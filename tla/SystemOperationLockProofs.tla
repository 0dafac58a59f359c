---------------------- MODULE SystemOperationLockProofs ----------------------
(***************************************************************************)
(* Proofs about SystemOperationLock, for any number of operations and any  *)
(* lease, interval and delays that satisfy TimesAssumption.                *)
(***************************************************************************)
EXTENDS SystemOperationLock, TLAPS

(* Ids, and what Acquire knows of the time.                                *)
OpInv ==
    /\ row.id \in {0, lastId}
    /\ row.id = 0 => row.status = "absent"
    /\ \A o \in Operations :
          /\ rid[o] <= lastId
          /\ now[o] <= clock
          /\ pc[o] \in {"create", "get", "reclaim"} =>
                clock <= now[o] + AcquireDelay /\ o \notin missed
          /\ pc[o] = "idle" => o \notin missed
          /\ pc[o] \in {"held", "release"} => rid[o] # 0
          /\ pc[o] = "reclaim" => seen[o].id # 0
          /\ o \in renewing \cup created => pc[o] \in {"held", "release", "done"}

(* The record is o's, its lease outlasts the next renewal, or the one      *)
(* after it if the last one did not fail, and nobody else has its id.      *)
Kept(o) ==
    /\ o \in renewing
    /\ row.id = rid[o]
    /\ row.status = "processing"
    /\ row.fp = opid[o]
    /\ clock <= due[o]
    /\ due[o] < row.locked
    /\ o \notin missed => due[o] + RenewInterval < row.locked
    /\ row.locked <= row.expires
    /\ \A p \in Operations \ {o} : rid[p] # rid[o]

CreatorInv == \A o \in created : pc[o] = "held" => Kept(o)

-----------------------------------------------------------------------------
(* Type correctness                                                        *)

\* The initial state is well typed.
LEMMA InitTypeOK == Init => TypeOK
<1> SUFFICES ASSUME Init PROVE TypeOK
  OBVIOUS
<1>1. row \in Rows
  BY DEF Init, NoRow, Rows, Statuses
<1>2. seen \in [Operations -> Seen]
  BY DEF Init, Seen, Statuses
<1> QED
  BY <1>1, <1>2 DEF Init, TypeOK, PCs

\* What the statements on the record return is a record.
LEMMA StatementTypes ==
  ASSUME NEW w \in Rows, NEW i \in Nat, NEW l \in Nat, NEW e \in Nat
  PROVE  /\ TryReclaim(w, l, e) \in Rows
         /\ ExtendProcessingLock(w, l, e) \in Rows
         /\ MarkSucceeded(w, i, None, e) \in Rows
         /\ MarkFailedRetryable(w, i, l, e) \in Rows
BY DEF Rows, Statuses, TryReclaim, ExtendProcessingLock, MarkSucceeded, MarkFailedRetryable

\* Every step keeps the types.
LEMMA NextTypeOK == TypeOK /\ [Next]_vars => TypeOK'
<1> SUFFICES ASSUME TypeOK, [Next]_vars PROVE TypeOK'
  OBVIOUS
<1> USE TimesAssumption DEF TypeOK, TimesAssumption, PCs, opVars
<1>1. ASSUME NEW o \in Operations, Operation(o) PROVE TypeOK'
  <2>0. /\ rid[o] \in Nat /\ clock \in Nat
        /\ clock + Lease \in Nat /\ clock + TTL \in Nat
        /\ now[o] + Lease \in Nat /\ now[o] + TTL \in Nat
        /\ row \in Rows
    OBVIOUS
  <2>1. CASE Begin(o)
    BY <2>1 DEF Begin
  <2>2. CASE CreateLock(o)
    <3>1. CreateProcessing(lastId + 1, opid[o], now[o] + Lease, now[o] + TTL) \in Rows
      BY DEF CreateProcessing, Rows, Statuses
    <3> QED
      BY <2>2, <3>1 DEF CreateLock, Holds
  <2>3. CASE GetLock(o)
    <3>1. [id |-> row.id, status |-> row.status] \in Seen
      BY DEF Seen, Rows
    <3> QED
      BY <2>3, <3>1 DEF GetLock
  <2>4. CASE ReclaimLock(o)
    <3>1. TryReclaim(row, now[o] + Lease, now[o] + TTL) \in Rows
      BY <2>0, StatementTypes
    <3>2. seen[o].id \in Nat
      BY DEF Seen
    <3> QED
      BY <2>4, <3>1, <3>2 DEF ReclaimLock, Holds
  <2>5. CASE Renew(o)
    <3>1. ExtendProcessingLock(row, clock + Lease, clock + TTL) \in Rows
      BY <2>0, StatementTypes
    <3>2. row' \in Rows
      BY <2>5, <3>1 DEF Renew
    <3>3. renewing' \subseteq Operations /\ missed' \subseteq Operations
      BY <2>5 DEF Renew
    <3>4. due' \in [Operations -> Nat]
      BY <2>5 DEF Renew
    <3>5. UNCHANGED <<clock, lastId, pc, opid, now, seen, rid, created>>
      BY <2>5 DEF Renew
    <3> QED
      BY <3>2, <3>3, <3>4, <3>5
  <2>6. CASE StopRenewing(o) \/ Finish(o) \/ GiveUp(o)
    BY <2>6 DEF StopRenewing, Finish, GiveUp
  <2>7. CASE Release(o)
    <3>1. MarkSucceeded(row, rid[o], None, clock + TTL) \in Rows
      BY <2>0, StatementTypes
    <3>2. MarkFailedRetryable(row, rid[o], clock, clock + TTL) \in Rows
      BY <2>0, StatementTypes
    <3> QED
      BY <2>7, <3>1, <3>2 DEF Release
  <2> QED
    BY <1>1, <2>1, <2>2, <2>3, <2>4, <2>5, <2>6, <2>7 DEF Operation
<1>2. CASE CleanupOnce
  <2>1. NoRow \in Rows
    BY DEF NoRow, Rows, Statuses
  <2> QED
    BY <1>2, <2>1 DEF CleanupOnce
<1>3. CASE Tick
  BY <1>3 DEF Tick
<1>4. CASE UNCHANGED vars
  BY <1>4 DEF vars
<1> QED
  BY <1>1, <1>2, <1>3, <1>4 DEF Next

\* The record, the operations and their times keep their types.
THEOREM TypeCorrect == Spec => []TypeOK
BY InitTypeOK, NextTypeOK, PTL DEF Spec

-----------------------------------------------------------------------------
(* Leases                                                                  *)

\* OpInv is an invariant, given the types.
LEMMA NextOpInv == TypeOK /\ OpInv /\ [Next]_vars => OpInv'
<1> SUFFICES ASSUME TypeOK, OpInv, [Next]_vars PROVE OpInv'
  OBVIOUS
<1> USE TimesAssumption DEF TypeOK, TimesAssumption, OpInv, PCs, opVars
<1>1. ASSUME NEW o \in Operations, Operation(o) PROVE OpInv'
  <2>1. CASE Begin(o)
    BY <2>1 DEF Begin
  <2>2. CASE CreateLock(o)
    <3>1. CASE row.id = 0
      <4>1. /\ row'.id = lastId + 1
            /\ lastId' = lastId + 1
            /\ rid' = [rid EXCEPT ![o] = lastId + 1]
            /\ pc' = [pc EXCEPT ![o] = "held"]
            /\ renewing' = renewing \cup {o}
            /\ created' = created \cup {o}
            /\ UNCHANGED <<clock, now, seen, missed>>
        BY <2>2, <3>1 DEF CreateLock, Holds, CreateProcessing
      <4> QED
        BY <4>1
    <3>2. CASE row.id # 0
      BY <2>2, <3>2 DEF CreateLock
    <3> QED
      BY <3>1, <3>2
  <2>3. CASE GetLock(o)
    BY <2>3 DEF GetLock
  <2>4. CASE ReclaimLock(o)
    <3>1. CASE Reclaimable(row, seen[o].id, seen[o].status, now[o])
      <4>1. /\ row'.id = row.id
            /\ row.id = seen[o].id
            /\ row'.status = "processing"
            /\ rid' = [rid EXCEPT ![o] = row.id]
            /\ pc' = [pc EXCEPT ![o] = "held"]
            /\ renewing' = renewing \cup {o}
            /\ UNCHANGED <<clock, lastId, now, seen, missed, created>>
        BY <2>4, <3>1 DEF ReclaimLock, Holds, Reclaimable, TryReclaim, Rows
      <4>2. row.id # 0 /\ pc[o] = "reclaim"
        BY <2>4, <4>1 DEF ReclaimLock
      <4> QED
        BY <4>1, <4>2
    <3>2. CASE ~Reclaimable(row, seen[o].id, seen[o].status, now[o])
      BY <2>4, <3>2 DEF ReclaimLock
    <3> QED
      BY <3>1, <3>2
  <2>5. CASE Renew(o)
    <3>1. /\ row'.id = row.id
          /\ row'.status = row.status
          /\ o \in renewing
          /\ missed' \subseteq missed \cup {o}
          /\ renewing' \subseteq renewing
          /\ UNCHANGED <<clock, lastId, pc, now, seen, rid, created>>
      BY <2>5 DEF Renew, ExtendProcessingLock, Rows
    <3>2. pc[o] \in {"held", "release", "done"}
      BY <3>1
    <3> QED
      BY <3>1, <3>2
  <2>6. CASE StopRenewing(o) \/ Finish(o) \/ GiveUp(o)
    BY <2>6 DEF StopRenewing, Finish, GiveUp
  <2>7. CASE Release(o)
    <3>1. /\ row'.id = row.id
          /\ row.id = rid[o] \/ row' = row
          /\ pc[o] = "release"
          /\ pc' = [pc EXCEPT ![o] = "done"]
          /\ UNCHANGED <<clock, lastId, now, seen, rid, missed, renewing, created>>
      BY <2>7 DEF Release, MarkSucceeded, MarkFailedRetryable, Rows
    <3> QED
      BY <3>1
  <2> QED
    BY <1>1, <2>1, <2>2, <2>3, <2>4, <2>5, <2>6, <2>7 DEF Operation
<1>2. CASE CleanupOnce
  BY <1>2 DEF CleanupOnce, NoRow
<1>3. CASE Tick
  BY <1>3 DEF Tick
<1>4. CASE UNCHANGED vars
  BY <1>4 DEF vars
<1> QED
  BY <1>1, <1>2, <1>3, <1>4 DEF Next

\* While a creator holds the lock, every step of others leaves its record alone.
LEMMA NextCreatorInv == TypeOK /\ OpInv /\ CreatorInv /\ [Next]_vars => CreatorInv'
<1> SUFFICES ASSUME TypeOK, OpInv, CreatorInv, [Next]_vars,
                    NEW c \in created', pc'[c] = "held"
             PROVE  Kept(c)'
  BY DEF CreatorInv
<1> USE TimesAssumption DEF TypeOK, TimesAssumption, Kept, OpInv, opVars
<1>0. c \in Operations /\ row' \in Rows
  BY NextTypeOK
<1>1. CASE c \in created /\ pc[c] = "held"
  <2>0. Kept(c)
    BY <1>1 DEF CreatorInv
  <2>1. ASSUME NEW o \in Operations, Operation(o) PROVE Kept(c)'
    <3>1. CASE Begin(o) \/ GetLock(o) \/ Finish(o) \/ CreateLock(o)
      <4>1. /\ UNCHANGED <<clock, row, rid, renewing, due, missed>>
            /\ opid'[c] = opid[c]
        BY <1>0, <1>1, <2>0, <3>1 DEF Begin, GetLock, Finish, CreateLock
      <4> QED
        BY <2>0, <4>1
    <3>2. CASE ReclaimLock(o)
      <4>1. ~Reclaimable(row, seen[o].id, seen[o].status, now[o])
        BY <2>0 DEF Reclaimable, Rows
      <4> QED
        BY <2>0, <3>2, <4>1 DEF ReclaimLock
    <3>3. CASE Renew(o) /\ o # c
      <4>1. UNCHANGED row
        BY <2>0, <3>3 DEF Renew, Extendable
      <4>2. /\ c \in renewing'
            /\ due'[c] = due[c]
            /\ c \in missed' <=> c \in missed
            /\ UNCHANGED <<clock, opid, rid>>
        BY <1>0, <2>0, <3>3 DEF Renew
      <4> QED
        BY <2>0, <4>1, <4>2
    <3>4. CASE Renew(o) /\ o = c
      <4>1. Extendable(row, rid[c], opid[c])
        BY <2>0 DEF Extendable
      <4>2. /\ due[c] = clock
            /\ due'[c] = clock + RenewInterval
            /\ UNCHANGED <<clock, opid, rid, renewing>>
        BY <1>0, <3>4, <4>1 DEF Renew
      <4>3. \/ /\ row' = ExtendProcessingLock(row, clock + Lease, clock + TTL)
               /\ c \notin missed'
            \/ /\ row' = row
               /\ c \notin missed
               /\ c \in missed'
        BY <3>4, <4>1 DEF Renew
      <4>4. CASE row' = row /\ c \notin missed /\ c \in missed'
        BY <2>0, <4>2, <4>4
      <4>5. CASE row' = ExtendProcessingLock(row, clock + Lease, clock + TTL)
                 /\ c \notin missed'
        <5>1. /\ row'.id = row.id
              /\ row'.status = row.status
              /\ row'.fp = row.fp
              /\ row'.locked = clock + Lease
              /\ row'.expires = clock + TTL
          BY <4>5 DEF ExtendProcessingLock, Rows
        <5> QED
          BY <2>0, <4>2, <4>5, <5>1
      <4> QED
        BY <4>3, <4>4, <4>5
    <3>5. CASE StopRenewing(o) \/ GiveUp(o)
      <4>1. o # c
        BY <1>0, <1>1, <3>5 DEF StopRenewing, GiveUp, PCs
      <4> QED
        BY <2>0, <3>5, <4>1 DEF StopRenewing, GiveUp
    <3>6. CASE Release(o)
      <4>1. o # c
        BY <1>1, <3>6 DEF Release
      <4>2. UNCHANGED row
        BY <2>0, <3>6, <4>1 DEF Release, MarkSucceeded, MarkFailedRetryable
      <4> QED
        BY <2>0, <3>6, <4>2 DEF Release
    <3> QED
      BY <2>1, <3>1, <3>2, <3>3, <3>4, <3>5, <3>6 DEF Operation
  <2>2. CASE CleanupOnce
    BY <1>0, <2>0, <2>2 DEF CleanupOnce, Expired, Rows
  <2>3. CASE Tick
    BY <1>0, <2>0, <2>3 DEF Tick
  <2>4. CASE UNCHANGED vars
    BY <2>0, <2>4 DEF vars
  <2> QED
    BY <2>1, <2>2, <2>3, <2>4 DEF Next
<1>2. CASE ~(c \in created /\ pc[c] = "held")
  <2>1. c \notin created
    <3>1. ASSUME NEW o \in Operations, Operation(o), c \in created
          PROVE  pc[c] = "held"
      <4>1. pc[c] \in {"held", "release", "done"}
        BY <1>0, <3>1
      <4>2. pc'[c] = pc[c] \/ (o = c /\ ~CreateLock(o) /\ ~ReclaimLock(o))
        BY <1>0, <3>1, <4>1 DEF Operation, Begin, CreateLock, GetLock, ReclaimLock, Holds, Renew,
                 StopRenewing, Finish, Release, GiveUp
      <4> QED
        BY <1>0, <3>1, <4>1, <4>2 DEF Operation, Begin, GetLock, Renew,
                 StopRenewing, Finish, Release, GiveUp
    <3>2. ASSUME CleanupOnce \/ Tick \/ UNCHANGED vars, c \in created
          PROVE  pc[c] = "held"
      BY <3>2 DEF CleanupOnce, Tick, vars
    <3> QED
      BY <1>2, <3>1, <3>2 DEF Next
  <2>2. CreateLock(c) /\ row.id = 0
    <3>1. ASSUME NEW o \in Operations, Operation(o)
          PROVE  CreateLock(c) /\ row.id = 0
      BY <2>1, <3>1 DEF Operation, Begin, CreateLock, GetLock, ReclaimLock, Renew,
                 StopRenewing, Finish, Release, GiveUp
    <3>2. ~(CleanupOnce \/ Tick \/ UNCHANGED vars)
      BY <2>1 DEF CleanupOnce, Tick, vars
    <3> QED
      BY <3>1, <3>2 DEF Next
  <2>3. /\ row'.id = lastId + 1
        /\ row'.status = "processing"
        /\ row'.fp = opid[c]
        /\ row'.locked = now[c] + Lease
        /\ row'.expires = now[c] + TTL
        /\ rid' = [rid EXCEPT ![c] = lastId + 1]
        /\ renewing' = renewing \cup {c}
        /\ due'[c] = clock + RenewInterval
        /\ UNCHANGED <<clock, opid, missed>>
    BY <1>0, <2>2 DEF CreateLock, Holds, CreateProcessing
  <2>4. clock <= now[c] + AcquireDelay /\ c \notin missed
    BY <1>0, <2>2 DEF CreateLock
  <2>5. \A p \in Operations \ {c} : rid'[p] # rid'[c]
    BY <1>0, <2>3
  <2> QED
    BY <1>0, <2>3, <2>4, <2>5
<1> QED
  BY <1>1, <1>2

-----------------------------------------------------------------------------

Inv == TypeOK /\ OpInv /\ CreatorInv

\* Inv is invariant.
LEMMA InvHolds == Spec => []Inv
<1>1. Init => Inv
  <2> SUFFICES ASSUME Init PROVE Inv
    OBVIOUS
  <2>1. OpInv /\ CreatorInv
    BY TimesAssumption DEF Init, OpInv, CreatorInv, NoRow, TimesAssumption
  <2> QED
    BY <2>1, InitTypeOK DEF Inv
<1>2. Inv /\ [Next]_vars => Inv'
  BY NextTypeOK, NextOpInv, NextCreatorInv DEF Inv
<1> QED
  BY <1>1, <1>2, PTL DEF Spec

\* An operation that created the record keeps the lock while it runs, though a
\* renewal may fail.
THEOREM CreatorsKeepTheLock == Spec => []CreatorKeepsLock
<1>1. Inv => CreatorKeepsLock
  <2> SUFFICES ASSUME Inv, NEW o \in created, NEW p \in Operations,
                      pc[o] = "held", pc[p] = "held", o # p
               PROVE  rid[p] < rid[o]
    BY DEF CreatorKeepsLock
  <2>1. Kept(o) /\ o \in Operations
    BY DEF Inv, CreatorInv, TypeOK
  <2>2. rid[p] # rid[o] /\ row.id = rid[o] /\ rid[o] # 0
    BY <2>1 DEF Kept, Inv, OpInv
  <2>3. rid[p] <= lastId /\ row.id = lastId /\ rid[p] \in Nat /\ lastId \in Nat
    BY <2>2 DEF Inv, OpInv, TypeOK
  <2> QED
    BY <2>2, <2>3
<1> QED
  BY <1>1, InvHolds, PTL

\* No operation gets the lock while a lease runs.
THEOREM LeasesAreRespected == Spec => LeaseIsRespected
<1>1. ASSUME Inv, [Next]_vars, row.status = "processing", row.locked > clock,
             NEW o \in Operations, pc'[o] = "held"
      PROVE  pc[o] = "held"
  <2> USE DEF Inv, TypeOK, OpInv
  <2>1. ASSUME NEW p \in Operations, Operation(p) PROVE pc[o] = "held"
    <3>1. ~Reclaimable(row, seen[p].id, seen[p].status, now[p])
      BY <1>1 DEF Reclaimable, Rows
    <3>2. row.id # 0
      BY <1>1
    <3>3. pc'[o] = pc[o] \/ pc'[o] # "held"
      BY <1>1, <2>1, <3>1, <3>2 DEF Operation, Begin, CreateLock, GetLock, ReclaimLock, Renew,
             StopRenewing, Finish, Release, GiveUp
    <3> QED
      BY <1>1, <3>3
  <2>2. CASE CleanupOnce \/ Tick \/ UNCHANGED vars
    BY <1>1, <2>2 DEF CleanupOnce, Tick, vars, opVars
  <2> QED
    BY <1>1, <2>1, <2>2 DEF Next
<1>2. Inv /\ [Next]_vars =>
        [(row.status = "processing" /\ row.locked > clock) =>
           (\A o \in Operations : pc'[o] = "held" => pc[o] = "held")]_vars
  BY <1>1
<1> QED
  BY <1>2, InvHolds, PTL DEF Spec, LeaseIsRespected

=============================================================================
