--------------------- MODULE AuthCacheInvalidationProofs ---------------------
(***************************************************************************)
(* Proofs about AuthCacheInvalidation for any number of instances, changes *)
(* and failures.                                                           *)
(***************************************************************************)
EXTENDS AuthCacheInvalidation, TLAPS

USE DEF Versions, Rows

-----------------------------------------------------------------------------
(* Types. *)

LEMMA InitTypeOK == Init => TypeOK
BY BoundAssumption DEF Init, TypeOK, NoRow, NoJob, Row, Job, Points

LEMMA RowKeepsType ==
    ASSUME TypeOK, NEW r \in Rows
    PROVE  /\ Released(r) \in Row
           /\ [Released(r) EXCEPT !.stage = 1, !.grace = Holding] \in Row
           /\ [NoRow EXCEPT !.state = "gone"] \in Row
           /\ \A i \in Instances : [rows[r] EXCEPT !.grace = @ \ {i}] \in Row
           /\ \A i \in Instances : [rows[r] EXCEPT !.state = "claimed", !.owner = i,
                                                   !.lease = TRUE] \in Row
           /\ [rows[r] EXCEPT !.lease = FALSE] \in Row
           /\ [rows[r] EXCEPT !.state = "ready"] \in Row
BY DEF TypeOK, Row, Released, NoRow, Holding

LEMMA LeaveKeepsType ==
    ASSUME TypeOK, NEW i \in Instances, Leave(i)
    PROVE  rows' \in [Rows -> Row] /\ pc' \in [Instances -> Points]
           /\ val' \in [Instances -> Versions]
<1>1. \A r \in Rows : [rows[r] EXCEPT !.grace = @ \ {i}] \in Row
  BY RowKeepsType
<1>2. 0 \in Versions
  BY BoundAssumption
<1> QED BY <1>1, <1>2 DEF Leave, Goto, TypeOK, Points

LEMMA JobHasType ==
    ASSUME TypeOK, NEW i \in Instances, NEW r \in Rows
    PROVE  job[i][r] \in Job
BY DEF TypeOK

LEMMA StepKeepsType ==
    ASSUME TypeOK, NEW i \in Instances, NEW r \in Rows,
           NEW p \in {"none", "delete", "publish", "retry", "finish"},
           Step(i, r, p) \/ Done(i, r)
    PROVE  job' \in [Instances -> [Rows -> Job]]
<1>1. CASE Step(i, r, p)
  <2>1. job[i] \in [Rows -> Job] /\ job[i][r] \in Job
    BY DEF TypeOK
  <2>2. [job[i][r] EXCEPT !.at = p] \in Job
    BY <2>1 DEF Job
  <2>3. job' = [job EXCEPT ![i] = [job[i] EXCEPT ![r] = [job[i][r] EXCEPT !.at = p]]]
    BY <1>1 DEF Step
  <2> QED BY <2>1, <2>2, <2>3 DEF TypeOK
<1>2. CASE Done(i, r)
  BY <1>2 DEF Done, TypeOK, NoJob, Job
<1> QED BY <1>1, <1>2

LEMMA NextTypeOK == TypeOK /\ [Next]_vars => TypeOK'
<1> SUFFICES ASSUME TypeOK, [Next]_vars PROVE TypeOK'
  OBVIOUS
<1> USE BoundAssumption
<1>1. CASE UNCHANGED vars
  BY <1>1 DEF vars, outboxVars, requestVars, TypeOK
<1>2. CASE Change
  <2>1. version + 1 \in Rows
    BY <1>2 DEF Change, TypeOK
  <2>2. rows' \in [Rows -> Row]
    BY <1>2, <2>1, RowKeepsType DEF Change, TypeOK
  <2> QED BY <1>2, <2>2 DEF Change, TypeOK, requestVars
<1>3. CASE ExpireShared
  BY <1>3 DEF ExpireShared, TypeOK, outboxVars, requestVars
<1>4. ASSUME NEW i \in Instances, Forget(i) PROVE TypeOK'
  <2>1. mail' \in SUBSET Instances /\ l2' \in Versions \union {None}
    BY <1>4 DEF Forget, TypeOK
  <2> QED BY <1>4, <2>1 DEF Forget, TypeOK, outboxVars, requestVars
<1>5. ASSUME NEW i \in Instances, Lookup(i) PROVE TypeOK'
  BY <1>5 DEF Lookup, Goto, TypeOK, outboxVars, Points
<1>6. ASSUME NEW i \in Instances, Copy(i) PROVE TypeOK'
  BY <1>6, LeaveKeepsType DEF Copy, TypeOK
<1>7. ASSUME NEW i \in Instances, Load(i) PROVE TypeOK'
  <2>1. CASE Leave(i)
    BY <1>7, <2>1, LeaveKeepsType DEF Load, TypeOK
  <2>2. CASE ~Leave(i)
    BY <1>7, <2>2 DEF Load, Goto, TypeOK, Points
  <2> QED BY <2>1, <2>2
<1>8. ASSUME NEW i \in Instances, StoreFirst(i) PROVE TypeOK'
  <2>1. CASE Leave(i)
    BY <1>8, <2>1, LeaveKeepsType DEF StoreFirst, TypeOK
  <2>2. CASE ~Leave(i)
    BY <1>8, <2>2 DEF StoreFirst, Goto, TypeOK, Points
  <2> QED BY <2>1, <2>2
<1>9. ASSUME NEW i \in Instances, StoreSecond(i) PROVE TypeOK'
  BY <1>9, LeaveKeepsType DEF StoreSecond, TypeOK
<1>10. ASSUME NEW i \in Instances, Claim(i) PROVE TypeOK'
  <2>1. rows' \in [Rows -> Row]
    BY <1>10, RowKeepsType DEF Claim, TypeOK
  <2>2. job' \in [Instances -> [Rows -> Job]]
    BY <1>10 DEF Claim, TypeOK, Row, Job, NoJob
  <2> QED BY <1>10, <2>1, <2>2 DEF Claim, TypeOK, requestVars
<1>11. ASSUME NEW i \in Instances, Receive(i) PROVE TypeOK'
  BY <1>11 DEF Receive, TypeOK, outboxVars, requestVars
<1>12. ASSUME NEW i \in Instances, Expire(i) PROVE TypeOK'
  BY <1>12 DEF Expire, TypeOK, outboxVars, requestVars
<1>13. ASSUME NEW i \in Instances, NEW r \in Rows, Delete(i, r) PROVE TypeOK'
  <2>1. job' \in [Instances -> [Rows -> Job]]
    BY <1>13, StepKeepsType DEF Delete
  <2>2. failures' \in 0 .. MaxFailures
    BY <1>13 DEF Delete, Failure, TypeOK
  <2> QED BY <1>13, <2>1, <2>2 DEF Delete, TypeOK, outboxVars, requestVars
<1>14. ASSUME NEW i \in Instances, NEW r \in Rows, Publish(i, r) PROVE TypeOK'
  <2>1. job' \in [Instances -> [Rows -> Job]]
    BY <1>14, StepKeepsType DEF Publish
  <2>2. failures' \in 0 .. MaxFailures
    BY <1>14 DEF Publish, Failure, TypeOK
  <2>3. mail' \in SUBSET Instances
    BY <1>14 DEF Publish, TypeOK
  <2> QED BY <1>14, <2>1, <2>2, <2>3 DEF Publish, TypeOK, outboxVars, requestVars
<1>15. ASSUME NEW i \in Instances, NEW r \in Rows, Retry(i, r) PROVE TypeOK'
  <2>1. job' \in [Instances -> [Rows -> Job]]
    BY <1>15, StepKeepsType DEF Retry
  <2>2. rows' \in [Rows -> Row]
    BY <1>15, RowKeepsType DEF Retry, TypeOK
  <2> QED BY <1>15, <2>1, <2>2 DEF Retry, TypeOK, requestVars
<1>16. ASSUME NEW i \in Instances, NEW r \in Rows, Finish(i, r) PROVE TypeOK'
  <2>1. job' \in [Instances -> [Rows -> Job]]
    BY <1>16, StepKeepsType DEF Finish
  <2>2. rows' \in [Rows -> Row]
    BY <1>16, RowKeepsType DEF Finish, SecondPass, DeleteClaimed, TypeOK
  <2> QED BY <1>16, <2>1, <2>2 DEF Finish, TypeOK, requestVars
<1>17. ASSUME NEW i \in Instances, NEW r \in Rows, Abandon(i, r) PROVE TypeOK'
  <2>1. job' \in [Instances -> [Rows -> Job]]
    BY <1>17, StepKeepsType DEF Abandon
  <2> QED BY <1>17, <2>1 DEF Abandon, Failure, TypeOK, outboxVars, requestVars
<1>18. ASSUME NEW r \in Rows, LeaseOver(r) PROVE TypeOK'
  <2>1. rows' \in [Rows -> Row]
    BY <1>18, RowKeepsType DEF LeaseOver, TypeOK
  <2>2. failures' \in 0 .. MaxFailures
    BY <1>18 DEF LeaseOver, Failure, TypeOK
  <2> QED BY <1>18, <2>1, <2>2 DEF LeaseOver, TypeOK, requestVars
<1> QED
  BY <1>1, <1>2, <1>3, <1>4, <1>5, <1>6, <1>7, <1>8, <1>9, <1>10, <1>11, <1>12, <1>13,
     <1>14, <1>15, <1>16, <1>17, <1>18 DEF Next, Request, Work

\* The caches, the outbox and the goroutines keep their types; in particular a row
\* is in the first or in the second pass, as the constraint of its table demands.
THEOREM TypeCorrect == Spec => []TypeOK
<1>1. Init => TypeOK
  BY InitTypeOK
<1>2. TypeOK /\ [Next]_vars => TypeOK'
  BY NextTypeOK
<1> QED BY <1>1, <1>2, PTL DEF Spec
-----------------------------------------------------------------------------
(* The inductive invariant. *)

\* A row that exists, or existed, is about a change that took place.
RowsOfChanges ==
    \A r \in Rows : rows[r].state # "none" \/ rows[r].stage = 1 => r <= version

\* After its first delivery a row waits for every request that may still store what
\* it read before the change.
GraceCovers ==
    \A r \in Rows, i \in Instances :
        rows[r].stage = 1 /\ i \in Holding /\ val[i] < r => i \in rows[r].grace

\* A worker delivers a row for the second time when it waits for nobody.
SecondIsLast ==
    \A i \in Instances, r \in Rows :
        job[i][r].at # "none" /\ job[i][r].stage = 1 =>
            rows[r].state = "gone" \/ (rows[r].stage = 1 /\ rows[r].grace = {})

Clean(r) == l2 # None => l2 >= r

\* After the deletion of the second pass nothing puts an old entry back.
DeliveredIsClean ==
    \A i \in Instances, r \in Rows :
        job[i][r].at \in {"publish", "finish"} /\ job[i][r].stage = 1 => Clean(r)

\* When the row is gone there is neither an old entry nor a request that has one.
GoneIsClean ==
    \A r \in Rows :
        rows[r].state = "gone" => Clean(r) /\ \A i \in Holding : val[i] >= r

IInv == TypeOK /\ RowsOfChanges /\ GraceCovers /\ SecondIsLast /\ DeliveredIsClean
        /\ GoneIsClean

LEMMA InitIInv == Init => IInv
<1> SUFFICES ASSUME Init PROVE IInv
  OBVIOUS
<1>1. TypeOK
  BY InitTypeOK
<1>2. RowsOfChanges /\ GraceCovers /\ SecondIsLast /\ DeliveredIsClean /\ GoneIsClean
  BY DEF Init, NoRow, NoJob, RowsOfChanges, GraceCovers, SecondIsLast, DeliveredIsClean,
         GoneIsClean, Clean
<1> QED BY <1>1, <1>2 DEF IInv

\* What a worker may rely on in the second pass: nobody holds an old version.
LEMMA NobodyHoldsOld ==
    ASSUME IInv, NEW i \in Instances, NEW r \in Rows,
           job[i][r].at # "none", job[i][r].stage = 1
    PROVE  \A k \in Holding : val[k] >= r
<1>1. CASE rows[r].state = "gone"
  BY <1>1 DEF IInv, GoneIsClean
<1>2. CASE rows[r].stage = 1 /\ rows[r].grace = {}
  BY <1>2 DEF IInv, GraceCovers, Holding, TypeOK
<1> QED BY <1>1, <1>2 DEF IInv, SecondIsLast

\* The end of a request takes it from the set of those that hold a version and from
\* what the rows wait for; all else of the rows stays.
LEMMA LeaveFacts ==
    ASSUME TypeOK, NEW i \in Instances, Leave(i)
    PROVE  /\ Holding' = Holding \ {i}
           /\ \A k \in Holding' : val'[k] = val[k]
           /\ \A r \in Rows : /\ rows'[r].state = rows[r].state
                             /\ rows'[r].stage = rows[r].stage
                             /\ rows'[r].grace = rows[r].grace \ {i}
BY DEF Leave, Goto, Holding, TypeOK, Row

\* A request that ends keeps the invariant when the shared entry it leaves is clean.
LEMMA LeaveKeepsInv ==
    ASSUME IInv, TypeOK', NEW i \in Instances, Leave(i), UNCHANGED <<version, job>>,
           l2' = l2 \/ (i \in Holding /\ l2' = val[i])
    PROVE  IInv'
<1> USE LeaveFacts DEF IInv
<1>1. RowsOfChanges'
  BY DEF RowsOfChanges
<1>2. GraceCovers'
  BY DEF GraceCovers
<1>3. SecondIsLast'
  BY DEF SecondIsLast
<1>4. ASSUME NEW r \in Rows, Clean(r), \A k \in Holding : val[k] >= r
      PROVE  Clean(r)'
  BY <1>4 DEF Clean
<1>5. DeliveredIsClean'
  <2> SUFFICES ASSUME NEW k \in Instances, NEW r \in Rows,
                      job[k][r].at \in {"publish", "finish"}, job[k][r].stage = 1
               PROVE  Clean(r)'
    BY DEF DeliveredIsClean
  <2>1. \A n \in Holding : val[n] >= r
    BY NobodyHoldsOld
  <2> QED BY <2>1, <1>4 DEF DeliveredIsClean
<1>6. GoneIsClean'
  <2> SUFFICES ASSUME NEW r \in Rows, rows'[r].state = "gone"
               PROVE  Clean(r)' /\ \A k \in Holding' : val'[k] >= r
    BY DEF GoneIsClean
  <2>1. Clean(r) /\ \A k \in Holding : val[k] >= r
    BY DEF GoneIsClean
  <2> QED BY <2>1, <1>4
<1> QED BY <1>1, <1>2, <1>3, <1>5, <1>6

\* What a step leaves alone keeps the parts that are about it.
LEMMA CacheStepKeepsInv ==
    ASSUME IInv, TypeOK', UNCHANGED <<version, rows, pc, val, job>>,
           l2' = l2 \/ l2' = None
    PROVE  IInv'
BY DEF IInv, RowsOfChanges, GraceCovers, SecondIsLast, DeliveredIsClean, GoneIsClean,
       Clean, Holding

\* A goroutine ends, or goes on to a place where it has nothing to show for, or
\* to the next place after it made Redis clean.
LEMMA JobStepKeepsInv ==
    ASSUME IInv, TypeOK', UNCHANGED <<version, rows, pc, val>>,
           l2' = l2 \/ l2' = None,
           NEW i \in Instances, NEW r \in Rows,
           \A k \in Instances, q \in Rows :
               /\ job'[k][q].at # "none" => job[k][q].at # "none"
                                            /\ job'[k][q].stage = job[k][q].stage
               /\ job'[k][q].at \in {"publish", "finish"} =>
                     job[k][q].at \in {"publish", "finish"} \/ l2' = None
    PROVE  IInv'
<1> USE DEF IInv
<1>1. RowsOfChanges' /\ GraceCovers' /\ GoneIsClean'
  BY DEF RowsOfChanges, GraceCovers, GoneIsClean, Clean, Holding
<1>2. SecondIsLast'
  BY DEF SecondIsLast
<1>3. DeliveredIsClean'
  BY DEF DeliveredIsClean, Clean
<1> QED BY <1>1, <1>2, <1>3

LEMMA NextIInv == IInv /\ [Next]_vars => IInv'
<1> SUFFICES ASSUME IInv, [Next]_vars PROVE IInv'
  OBVIOUS
<1>0. TypeOK /\ TypeOK'
  BY NextTypeOK DEF IInv
<1>1. CASE UNCHANGED vars
  BY <1>0, <1>1, CacheStepKeepsInv DEF vars, outboxVars, requestVars
<1>2. CASE Change
  <2>1. version + 1 \in Rows /\ version' = version + 1
    BY <1>0, <1>2 DEF Change, TypeOK
  <2>2. \A r \in Rows : /\ rows'[r].stage = rows[r].stage
                        /\ rows'[r].grace = rows[r].grace
                        /\ rows'[r].state = IF r = version + 1 THEN "ready" ELSE rows[r].state
    BY <1>0, <1>2, <2>1 DEF Change, TypeOK, Row
  <2>3. RowsOfChanges'
    <3> SUFFICES ASSUME NEW r \in Rows, rows'[r].state # "none" \/ rows'[r].stage = 1
                 PROVE  r <= version'
      BY DEF RowsOfChanges
    <3>1. CASE r = version + 1
      BY <2>1, <3>1
    <3>2. CASE r # version + 1
      <4>1. r <= version
        BY <2>2, <3>2 DEF IInv, RowsOfChanges
      <4> QED BY <1>0, <2>1, <4>1 DEF TypeOK
    <3> QED BY <3>1, <3>2
  <2>4. GraceCovers'
    BY <1>2, <2>2 DEF IInv, GraceCovers, Change, requestVars, Holding
  <2>5. \A r \in Rows : rows[r].state = "gone" => rows'[r].state = "gone"
    BY <1>0, <2>1, <2>2 DEF IInv, RowsOfChanges, TypeOK
  <2>6. SecondIsLast'
    BY <1>2, <2>2, <2>5 DEF IInv, SecondIsLast, Change
  <2>7. DeliveredIsClean'
    BY <1>2 DEF IInv, DeliveredIsClean, Change, Clean
  <2>8. GoneIsClean'
    BY <1>2, <2>2 DEF IInv, GoneIsClean, Change, Clean, requestVars, Holding
  <2> QED BY <1>0, <2>3, <2>4, <2>6, <2>7, <2>8 DEF IInv
<1>3. CASE ExpireShared
  BY <1>0, <1>3, CacheStepKeepsInv DEF ExpireShared, outboxVars, requestVars
<1>4. ASSUME NEW i \in Instances, Forget(i) PROVE IInv'
  BY <1>0, <1>4, CacheStepKeepsInv DEF Forget, outboxVars, requestVars
<1>5. ASSUME NEW i \in Instances, Lookup(i) PROVE IInv'
  <2>1. Holding' = Holding /\ \A k \in Holding : val'[k] = val[k]
    BY <1>0, <1>5 DEF Lookup, Goto, Holding, TypeOK
  <2> QED
    BY <1>0, <1>5, <2>1 DEF IInv, Lookup, outboxVars, RowsOfChanges, GraceCovers, SecondIsLast,
       DeliveredIsClean, GoneIsClean, Clean
<1>6. ASSUME NEW i \in Instances, Copy(i) PROVE IInv'
  BY <1>0, <1>6, LeaveKeepsInv DEF Copy
<1>7. ASSUME NEW i \in Instances, Load(i) PROVE IInv'
  <2>1. CASE Leave(i)
    BY <1>0, <1>7, <2>1, LeaveKeepsInv DEF Load
  <2>2. CASE ~Leave(i)
    <3>1. /\ Holding' = Holding \union {i} /\ val'[i] = version
          /\ \A k \in Instances \ {i} : val'[k] = val[k]
          /\ UNCHANGED <<version, rows, l2, job>>
      BY <1>0, <1>7, <2>2 DEF Load, Goto, Holding, TypeOK
    <3>2. RowsOfChanges' /\ SecondIsLast' /\ DeliveredIsClean'
      BY <3>1 DEF IInv, RowsOfChanges, SecondIsLast, DeliveredIsClean, Clean
    <3>3. GraceCovers'
      <4> SUFFICES ASSUME NEW r \in Rows, NEW k \in Instances,
                          rows[r].stage = 1, k \in Holding', val'[k] < r
                   PROVE  k \in rows[r].grace
        BY <3>1 DEF GraceCovers
      <4>1. r <= version
        BY DEF IInv, RowsOfChanges
      <4>2. k # i
        BY <1>0, <3>1, <4>1 DEF TypeOK
      <4> QED BY <3>1, <4>2 DEF IInv, GraceCovers
    <3>4. GoneIsClean'
      BY <1>0, <3>1 DEF IInv, GoneIsClean, RowsOfChanges, Clean, TypeOK, Holding
    <3> QED BY <1>0, <3>2, <3>3, <3>4 DEF IInv
  <2> QED BY <2>1, <2>2
<1>8. ASSUME NEW i \in Instances, StoreFirst(i) PROVE IInv'
  <2>1. CASE Leave(i)
    BY <1>0, <1>8, <2>1, LeaveKeepsInv DEF StoreFirst
  <2>2. CASE ~Leave(i)
    <3>1. Holding' = Holding /\ UNCHANGED <<version, rows, val, l2, job>>
      BY <1>0, <1>8, <2>2 DEF StoreFirst, Goto, Holding, TypeOK
    <3> QED
      BY <1>0, <3>1 DEF IInv, RowsOfChanges, GraceCovers, SecondIsLast, DeliveredIsClean,
         GoneIsClean, Clean
  <2> QED BY <2>1, <2>2
<1>9. ASSUME NEW i \in Instances, StoreSecond(i) PROVE IInv'
  <2>1. i \in Holding
    BY <1>9 DEF StoreSecond, Holding
  <2> QED BY <1>0, <1>9, <2>1, LeaveKeepsInv DEF StoreSecond
<1>10. ASSUME NEW i \in Instances, Claim(i) PROVE IInv'
  <2>1. \A r \in Rows : /\ rows'[r].stage = rows[r].stage
                        /\ rows'[r].grace = rows[r].grace
                        /\ rows'[r].state = IF Claimable(r) THEN "claimed" ELSE rows[r].state
    <3>1. \A r \in Rows :
             rows'[r] = IF Claimable(r)
                        THEN [rows[r] EXCEPT !.state = "claimed", !.owner = i, !.lease = TRUE]
                        ELSE rows[r]
      BY <1>10 DEF Claim
    <3>2. \A r \in Rows : rows[r] \in Row
      BY <1>0 DEF TypeOK
    <3> QED BY <3>1, <3>2 DEF Row
  <2>2. \A r \in Rows : job'[i][r] = IF Claimable(r) THEN [at |-> "delete", stage |-> rows[r].stage]
                                      ELSE NoJob
    BY <1>0, <1>10 DEF Claim, TypeOK
  <2>3. \A k \in Instances \ {i} : job'[k] = job[k]
    BY <1>0, <1>10 DEF Claim, TypeOK
  <2>4. UNCHANGED <<version, pc, val, l2>>
    BY <1>10 DEF Claim, requestVars
  <2>5. \A r \in Rows : rows'[r].state = "gone" <=> rows[r].state = "gone"
    BY <2>1 DEF Claimable
  <2>6. RowsOfChanges'
    BY <2>1, <2>4 DEF IInv, RowsOfChanges, Claimable
  <2>7. GraceCovers'
    BY <2>1, <2>4 DEF IInv, GraceCovers, Holding
  <2>8. SecondIsLast'
    <3> SUFFICES ASSUME NEW k \in Instances, NEW r \in Rows,
                        job'[k][r].at # "none", job'[k][r].stage = 1
                 PROVE  rows'[r].state = "gone" \/ (rows'[r].stage = 1 /\ rows'[r].grace = {})
      BY DEF SecondIsLast
    <3>1. CASE k = i
      <4>1. Claimable(r) /\ rows[r].stage = 1
        <5>1. CASE Claimable(r)
          <6>1. job'[k][r] = [at |-> "delete", stage |-> rows[r].stage]
            BY <2>2, <3>1, <5>1
          <6> QED BY <5>1, <6>1
        <5>2. CASE ~Claimable(r)
          <6>1. job'[k][r] = NoJob
            BY <2>2, <3>1, <5>2
          <6> QED BY <6>1 DEF NoJob
        <5> QED BY <5>1, <5>2
      <4>2. rows[r].grace = {}
        BY <4>1 DEF Claimable
      <4> QED BY <2>1, <4>1, <4>2
    <3>2. CASE k # i
      BY <2>1, <2>3, <2>5, <3>2 DEF IInv, SecondIsLast
    <3> QED BY <3>1, <3>2
  <2>9. DeliveredIsClean'
    <3> SUFFICES ASSUME NEW k \in Instances, NEW r \in Rows,
                        job'[k][r].at \in {"publish", "finish"}, job'[k][r].stage = 1
                 PROVE  Clean(r)'
      BY DEF DeliveredIsClean
    <3>1. k # i
      <4>1. job'[i][r].at \in {"delete", "none"}
        <5>1. CASE Claimable(r)
          <6>1. job'[i][r] = [at |-> "delete", stage |-> rows[r].stage]
            BY <2>2, <5>1
          <6> QED BY <6>1
        <5>2. CASE ~Claimable(r)
          <6>1. job'[i][r] = NoJob
            BY <2>2, <5>2
          <6> QED BY <6>1 DEF NoJob
        <5> QED BY <5>1, <5>2
      <4> QED BY <4>1
    <3> QED BY <2>3, <2>4, <3>1 DEF IInv, DeliveredIsClean, Clean
  <2>10. GoneIsClean'
    BY <2>4, <2>5 DEF IInv, GoneIsClean, Clean, Holding
  <2> QED BY <1>0, <2>6, <2>7, <2>8, <2>9, <2>10 DEF IInv
<1>11. ASSUME NEW i \in Instances, Receive(i) PROVE IInv'
  BY <1>0, <1>11, CacheStepKeepsInv DEF Receive, outboxVars, requestVars
<1>12. ASSUME NEW i \in Instances, Expire(i) PROVE IInv'
  BY <1>0, <1>12, CacheStepKeepsInv DEF Expire, outboxVars, requestVars
<1>13. ASSUME NEW i \in Instances, NEW r \in Rows, Delete(i, r) PROVE IInv'
  <2>1. UNCHANGED <<version, rows, pc, val>> /\ (l2' = l2 \/ l2' = None)
    BY <1>13 DEF Delete, outboxVars, requestVars
  <2>2. PICK p \in {"publish", "retry"} : Step(i, r, p) /\ (p = "publish" => l2' = None)
    BY <1>13 DEF Delete
  <2>3. \A k \in Instances, q \in Rows :
           job'[k][q] = IF k = i /\ q = r THEN [job[i][r] EXCEPT !.at = p] ELSE job[k][q]
    BY <1>0, <2>2 DEF Step, TypeOK
  <2>4. job[i][r] \in Job
    BY <1>0, JobHasType
  <2>5. job[i][r].at = "delete"
    BY <1>13 DEF Delete
  <2> QED BY <1>0, <2>1, <2>2, <2>3, <2>4, <2>5, JobStepKeepsInv DEF Job
<1>14. ASSUME NEW i \in Instances, NEW r \in Rows, Publish(i, r) PROVE IInv'
  <2>1. UNCHANGED <<version, rows, pc, val, l2>>
    BY <1>14 DEF Publish, outboxVars, requestVars
  <2>2. PICK p \in {"finish", "retry"} : Step(i, r, p)
    BY <1>14 DEF Publish
  <2>3. \A k \in Instances, q \in Rows :
           job'[k][q] = IF k = i /\ q = r THEN [job[i][r] EXCEPT !.at = p] ELSE job[k][q]
    BY <1>0, <2>2 DEF Step, TypeOK
  <2>4. job[i][r] \in Job
    BY <1>0, JobHasType
  <2>5. job[i][r].at = "publish"
    BY <1>14 DEF Publish
  <2> QED BY <1>0, <2>1, <2>2, <2>3, <2>4, <2>5, JobStepKeepsInv DEF Job
<1>15. ASSUME NEW i \in Instances, NEW r \in Rows, Retry(i, r) PROVE IInv'
  <2>1. \A k \in Instances, q \in Rows :
           job'[k][q] = IF k = i /\ q = r THEN NoJob ELSE job[k][q]
    BY <1>0, <1>15 DEF Retry, Done, TypeOK
  <2>2. \A q \in Rows : /\ rows'[q].stage = rows[q].stage
                        /\ rows'[q].grace = rows[q].grace
                        /\ rows'[q].state = "gone" <=> rows[q].state = "gone"
                        /\ rows'[q].state = "none" <=> rows[q].state = "none"
    BY <1>0, <1>15 DEF Retry, Released, Owns, TypeOK, Row
  <2>3. UNCHANGED <<version, pc, val, l2>>
    BY <1>15 DEF Retry, requestVars
  <2>4. RowsOfChanges' /\ GraceCovers'
    BY <2>2, <2>3 DEF IInv, RowsOfChanges, GraceCovers, Holding
  <2>5. SecondIsLast'
    BY <2>1, <2>2 DEF IInv, SecondIsLast, NoJob
  <2>6. DeliveredIsClean'
    BY <2>1, <2>3 DEF IInv, DeliveredIsClean, NoJob, Clean
  <2>7. GoneIsClean'
    BY <2>2, <2>3 DEF IInv, GoneIsClean, Clean, Holding
  <2> QED BY <1>0, <2>4, <2>5, <2>6, <2>7 DEF IInv
<1>16. ASSUME NEW i \in Instances, NEW r \in Rows, Finish(i, r) PROVE IInv'
  <2>1. \A k \in Instances, q \in Rows :
           job'[k][q] = IF k = i /\ q = r THEN NoJob ELSE job[k][q]
    BY <1>0, <1>16 DEF Finish, Done, TypeOK
  <2>2. UNCHANGED <<version, pc, val, l2>>
    BY <1>16 DEF Finish, requestVars
  <2>3. CASE rows' = rows
    BY <1>0, <2>1, <2>2, <2>3, JobStepKeepsInv DEF NoJob
  <2>4. CASE job[i][r].stage = 0 /\ Owns(i, r) /\ rows[r].stage = 0
    <3>1. /\ rows'[r].stage = 1 /\ rows'[r].grace = Holding /\ rows'[r].state = "ready"
          /\ \A q \in Rows \ {r} : rows'[q] = rows[q]
          /\ rows[r].state = "claimed"
      BY <1>0, <1>16, <2>4 DEF Finish, SecondPass, Released, Owns, TypeOK, Row
    <3>2. RowsOfChanges'
      BY <2>2, <3>1 DEF IInv, RowsOfChanges
    <3>3. GraceCovers'
      BY <2>2, <3>1 DEF IInv, GraceCovers, Holding
    <3>4. SecondIsLast'
      <4> SUFFICES ASSUME NEW k \in Instances, NEW q \in Rows,
                          job'[k][q].at # "none", job'[k][q].stage = 1
                   PROVE  rows'[q].state = "gone" \/ (rows'[q].stage = 1 /\ rows'[q].grace = {})
        BY DEF SecondIsLast
      <4>1. job[k][q].at # "none" /\ job[k][q].stage = 1
        BY <2>1 DEF NoJob
      <4>2. q # r
        BY <2>4, <3>1, <4>1 DEF IInv, SecondIsLast
      <4> QED BY <3>1, <4>1, <4>2 DEF IInv, SecondIsLast
    <3>5. DeliveredIsClean'
      BY <2>1, <2>2 DEF IInv, DeliveredIsClean, NoJob, Clean
    <3>6. GoneIsClean'
      BY <2>2, <3>1 DEF IInv, GoneIsClean, Clean, Holding
    <3> QED BY <1>0, <3>2, <3>3, <3>4, <3>5, <3>6 DEF IInv
  <2>5. CASE job[i][r].stage = 1 /\ Owns(i, r)
    <3>1. /\ rows'[r].stage = 0 /\ rows'[r].state = "gone"
          /\ \A q \in Rows \ {r} : rows'[q] = rows[q]
          /\ rows[r].state = "claimed"
      BY <1>0, <1>16, <2>5 DEF Finish, DeleteClaimed, NoRow, Owns, TypeOK, Row
    <3>2. RowsOfChanges'
      BY <2>2, <3>1 DEF IInv, RowsOfChanges
    <3>3. GraceCovers'
      BY <2>2, <3>1 DEF IInv, GraceCovers, Holding
    <3>4. SecondIsLast'
      BY <2>1, <3>1 DEF IInv, SecondIsLast, NoJob
    <3>5. DeliveredIsClean'
      BY <2>1, <2>2 DEF IInv, DeliveredIsClean, NoJob, Clean
    <3>6. Clean(r) /\ \A k \in Holding : val[k] >= r
      <4>1. job[i][r].at = "finish"
        BY <1>16 DEF Finish
      <4>2. Clean(r)
        BY <2>5, <4>1 DEF IInv, DeliveredIsClean
      <4> QED BY <2>5, <4>1, <4>2, NobodyHoldsOld
    <3>7. GoneIsClean'
      BY <2>2, <3>1, <3>6 DEF IInv, GoneIsClean, Clean, Holding
    <3> QED BY <1>0, <3>2, <3>3, <3>4, <3>5, <3>7 DEF IInv
  <2>6. job[i][r].stage \in {0, 1}
    <3>1. job[i][r] \in Job
      BY <1>0, JobHasType
    <3> QED BY <3>1 DEF Job
  <2> QED BY <1>16, <2>3, <2>4, <2>5, <2>6 DEF Finish, SecondPass, DeleteClaimed
<1>17. ASSUME NEW i \in Instances, NEW r \in Rows, Abandon(i, r) PROVE IInv'
  <2>1. \A k \in Instances, q \in Rows :
           job'[k][q] = IF k = i /\ q = r THEN NoJob ELSE job[k][q]
    BY <1>0, <1>17 DEF Abandon, Done, TypeOK
  <2>2. UNCHANGED <<version, rows, pc, val, l2>>
    BY <1>17 DEF Abandon, outboxVars, requestVars
  <2> QED BY <1>0, <2>1, <2>2, JobStepKeepsInv DEF NoJob
<1>18. ASSUME NEW r \in Rows, LeaseOver(r) PROVE IInv'
  <2>1. \A q \in Rows : /\ rows'[q].stage = rows[q].stage
                        /\ rows'[q].grace = rows[q].grace
                        /\ rows'[q].state = rows[q].state
    BY <1>0, <1>18 DEF LeaseOver, TypeOK, Row
  <2>2. UNCHANGED <<version, pc, val, l2, job>>
    BY <1>18 DEF LeaseOver, requestVars
  <2>3. RowsOfChanges' /\ GraceCovers' /\ SecondIsLast'
    BY <2>1, <2>2 DEF IInv, RowsOfChanges, GraceCovers, SecondIsLast, Holding
  <2>4. DeliveredIsClean' /\ GoneIsClean'
    BY <2>1, <2>2 DEF IInv, DeliveredIsClean, GoneIsClean, Clean, Holding
  <2> QED BY <1>0, <2>3, <2>4 DEF IInv
<1> QED
  BY <1>1, <1>2, <1>3, <1>4, <1>5, <1>6, <1>7, <1>8, <1>9, <1>10, <1>11, <1>12, <1>13,
     <1>14, <1>15, <1>16, <1>17, <1>18 DEF Next, Request, Work

\* For any number of instances, changes, claims lost and deliveries repeated: once the
\* row of a change is deleted, Redis has no entry from before the change.
THEOREM SharedCacheStaysClean == Spec => []SharedCacheIsClean
<1>1. Init => IInv
  BY InitIInv
<1>2. IInv /\ [Next]_vars => IInv'
  BY NextIInv
<1>3. IInv => SharedCacheIsClean
  BY DEF IInv, GoneIsClean, Clean, SharedCacheIsClean
<1> QED BY <1>1, <1>2, <1>3, PTL DEF Spec
=============================================================================
