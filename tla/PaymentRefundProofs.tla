------------------------ MODULE PaymentRefundProofs ------------------------
(***************************************************************************)
(* Proofs about PaymentRefund, for any number of requests, any amount and  *)
(* any faults unless a theorem excludes some.                              *)
(***************************************************************************)
EXTENDS PaymentRefund, TLAPS

Steps == Executing \cup {"idle", "claim", "query", "finalize", "declined"}

(* A pending order has a refund amount: what QueryAndFinalizeRefund reads. *)
PendingHasAmount == status = "REFUND_PENDING" => refundAmt \in Amounts

TypeInv == TypeOK /\ PendingHasAmount

-----------------------------------------------------------------------------
(* Type correctness                                                        *)

\* A completed order before any refund is well typed.
LEMMA InitTypeInv == Init => TypeInv
<1>1. Init => FlagsOK
  BY Zenon DEF Init, FlagsOK
<1>2. Init => OrderOK /\ PendingHasAmount
  BY AmountAssumption DEF AmountAssumption, Init, OrderOK, PendingHasAmount, Open, Amounts
<1>3. Init => RequestsOK
  BY AmountAssumption DEF AmountAssumption, Init, RequestsOK, Plans, Open, Amounts
<1> QED
  BY <1>1, <1>2, <1>3 DEF TypeInv, TypeOK

\* Every step keeps the flags two-valued.
LEMMA NextFlagsOK == FlagsOK /\ [Next]_vars => FlagsOK'
<1> SUFFICES ASSUME FlagsOK, [Next]_vars PROVE FlagsOK'
  OBVIOUS
<1> USE DEF FlagsOK, rows, fixed, writeAuditLog, RollbackRefund
<1>1. CASE RequestRefund \/ SettleRefund
  BY <1>1, Zenon DEF RequestRefund, SettleRefund
<1>2. ASSUME NEW w \in Admins, PrepareRefund(w) \/ ReadPending(w) \/ Crash(w)
      PROVE FlagsOK'
  BY <1>2, Zenon DEF PrepareRefund, ReadPending, Crash
<1>3. ASSUME NEW w \in Admins, Continue(w) PROVE FlagsOK'
  <2>1. CASE ClaimRefund(w) \/ DeductRefund(w) \/ gwRefund(w) \/ restoreStatus(w)
               \/ markRefundFailed(w) \/ QueryRefund(w) \/ finalizeRefundFailed(w)
    BY <2>1, Zenon DEF ClaimRefund, DeductRefund, gwRefund, restoreStatus,
                       markRefundFailed, QueryRefund, finalizeRefundFailed
  <2>2. CASE markRefundOk(w)
    BY <2>2, Zenon DEF markRefundOk
  <2>3. CASE handleGwFail(w)
    BY <2>3, Zenon DEF handleGwFail
  <2>4. CASE markRefundPending(w)
    BY <2>4, Zenon DEF markRefundPending
  <2>5. CASE finalizePendingRefundSuccess(w)
    BY <2>5, Zenon DEF finalizePendingRefundSuccess
  <2> QED
    BY <1>3, <2>1, <2>2, <2>3, <2>4, <2>5 DEF Continue
<1>4. CASE UNCHANGED vars
  BY <1>4, Zenon DEF vars
<1> QED
  BY <1>1, <1>2, <1>3, <1>4 DEF Next

\* Every step sends its request to a step that exists.
LEMMA NextPcOK == RequestsOK /\ [Next]_vars => pc' \in [Admins -> Steps]
<1> SUFFICES ASSUME RequestsOK, [Next]_vars PROVE pc' \in [Admins -> Steps]
  OBVIOUS
<1> USE DEF RequestsOK, Goto, Steps, Executing
<1>1. CASE RequestRefund \/ SettleRefund \/ UNCHANGED vars
  BY <1>1 DEF RequestRefund, SettleRefund, vars
<1>2. ASSUME NEW w \in Admins, PrepareRefund(w) \/ ReadPending(w) \/ Crash(w)
      PROVE pc' \in [Admins -> Steps]
  BY <1>2 DEF PrepareRefund, ReadPending, Crash
<1>3. ASSUME NEW w \in Admins, Continue(w) PROVE pc' \in [Admins -> Steps]
  <2> SUFFICES \E s \in Steps : pc' = [pc EXCEPT ![w] = s]
    OBVIOUS
  <2>1. CASE ClaimRefund(w)
    BY <2>1 DEF ClaimRefund
  <2>2. CASE DeductRefund(w)
    BY <2>2 DEF DeductRefund, AbortDeduction
  <2>3. CASE gwRefund(w)
    BY <2>3 DEF gwRefund
  <2>4. CASE restoreStatus(w) \/ markRefundFailed(w) \/ markRefundOk(w)
               \/ finalizePendingRefundSuccess(w) \/ finalizeRefundFailed(w)
    BY <2>4 DEF restoreStatus, markRefundFailed, markRefundOk,
                finalizePendingRefundSuccess, finalizeRefundFailed
  <2>5. CASE handleGwFail(w)
    BY <2>5 DEF handleGwFail, RollbackRefund
  <2>6. CASE markRefundPending(w)
    BY <2>6 DEF markRefundPending, RollbackRefund
  <2>7. CASE QueryRefund(w)
    BY <2>7 DEF QueryRefund
  <2> QED
    BY <1>3, <2>1, <2>2, <2>3, <2>4, <2>5, <2>6, <2>7 DEF Continue
<1> QED
  BY <1>1, <1>2, <1>3 DEF Next

\* What a deduction takes is within what was asked for.
LEMMA DeductionsBound ==
  ASSUME OrderOK, NEW want \in 0..Amount, NEW d \in Deductions(want)
  PROVE  d \in Int /\ 0 <= d /\ d <= want
BY AmountAssumption DEF AmountAssumption, Deductions

\* What a plan may ask for is within the order, and within the refund for balance.
LEMMA prepDeductBound ==
  ASSUME OrderOK, NEW amt \in Amounts, NEW want \in prepDeduct(amt)
  PROVE  want \in 0..Amount /\ (otype = "balance" => want <= amt)
BY AmountAssumption DEF AmountAssumption, prepDeduct, Amounts

\* Every step keeps the plans well typed.
LEMMA NextPlanOK == TypeInv /\ [Next]_vars => plan' \in [Admins -> Plans]
<1> SUFFICES ASSUME TypeInv, [Next]_vars PROVE plan' \in [Admins -> Plans]
  OBVIOUS
<1> USE DEF TypeInv, TypeOK, RequestsOK
<1>1. CASE RequestRefund \/ SettleRefund \/ UNCHANGED vars
  BY <1>1 DEF RequestRefund, SettleRefund, vars
<1>2. ASSUME NEW w \in Admins, PrepareRefund(w) PROVE plan' \in [Admins -> Plans]
  <2>1. PICK amt \in Amounts, deduct \in Deducts :
          \E want \in IF deduct THEN prepDeduct(amt) ELSE {0} :
             plan' = [plan EXCEPT ![w] = [amt |-> amt, want |-> want, snap |-> status,
                                          revoked |-> FALSE, key |-> amt]]
    BY <1>2 DEF PrepareRefund
  <2>2. PICK want \in IF deduct THEN prepDeduct(amt) ELSE {0} :
             plan' = [plan EXCEPT ![w] = [amt |-> amt, want |-> want, snap |-> status,
                                          revoked |-> FALSE, key |-> amt]]
    BY <2>1
  <2>3. want \in 0..Amount
    BY prepDeductBound, AmountAssumption DEF AmountAssumption
  <2>4. status \in Open
    BY <1>2 DEF PrepareRefund
  <2> QED
    BY <2>2, <2>3, <2>4 DEF Plans
<1>3. ASSUME NEW w \in Admins, ReadPending(w) PROVE plan' \in [Admins -> Plans]
  <2>1. refundAmt \in Amounts /\ status \in Open
    BY <1>3 DEF ReadPending, PendingHasAmount, Open
  <2>0. PICK detail \in latestRefundPendingDetail :
          \E want \in IF ~detail.rollbackOK THEN {0}
               ELSE IF otype = "balance" THEN {refundAmt} ELSE prepDeduct(refundAmt) :
             plan' = [plan EXCEPT ![w] = [amt |-> refundAmt, want |-> want,
                                snap |-> status, revoked |-> FALSE, key |-> detail.key]]
    BY <1>3 DEF ReadPending
  <2>2. detail.key \in Amounts
    BY <2>1 DEF latestRefundPendingDetail, OrderOK
  <2>3. PICK want : want \in (IF ~detail.rollbackOK THEN {0}
               ELSE IF otype = "balance" THEN {refundAmt} ELSE prepDeduct(refundAmt))
             /\ plan' = [plan EXCEPT ![w] = [amt |-> refundAmt, want |-> want,
                                snap |-> status, revoked |-> FALSE, key |-> detail.key]]
    BY <2>0
  <2>4. want \in 0..Amount
    BY <2>1, <2>3, prepDeductBound, AmountAssumption DEF AmountAssumption, Amounts
  <2> QED
    BY <2>1, <2>2, <2>3, <2>4 DEF Plans
<1>4. ASSUME NEW w \in Admins, DeductRefund(w) PROVE plan' \in [Admins -> Plans]
  <2>1. CASE plan' = [plan EXCEPT ![w].want = 0]
    BY <2>1, AmountAssumption DEF AmountAssumption, Plans
  <2>2. CASE \E d \in Deductions(plan[w].want), r \in BOOLEAN :
               plan' = [plan EXCEPT ![w].want = d, ![w].revoked = r]
    <3>1. PICK d \in Deductions(plan[w].want), r \in BOOLEAN :
               plan' = [plan EXCEPT ![w].want = d, ![w].revoked = r]
      BY <2>2
    <3>2. d \in 0..Amount
      BY DeductionsBound, AmountAssumption DEF AmountAssumption, Plans
    <3> QED
      BY <3>1, <3>2 DEF Plans
  <2>3. CASE UNCHANGED plan
    BY <2>3
  <2> QED
    BY <1>4, <2>1, <2>2, <2>3 DEF DeductRefund, AbortDeduction
<1>5. ASSUME NEW w \in Admins, Crash(w) \/ (Continue(w) /\ ~DeductRefund(w))
      PROVE plan' \in [Admins -> Plans]
  BY <1>5 DEF Crash, Continue, ClaimRefund, gwRefund, markRefundOk, handleGwFail,
              restoreStatus, markRefundFailed, markRefundPending, QueryRefund,
              finalizePendingRefundSuccess, finalizeRefundFailed
<1> QED
  BY <1>1, <1>2, <1>3, <1>4, <1>5 DEF Next


\* The provider's refunds stay well typed, and one that was made stays made.
LEMMA NextGwOK ==
  OrderOK /\ RequestsOK /\ [Next]_vars =>
    /\ gw' \in [Amounts -> {"none", "pending", "done", "failed"}]
    /\ \A a \in Amounts : gw[a] = "done" => gw'[a] = "done"
<1> SUFFICES ASSUME OrderOK, RequestsOK, [Next]_vars
             PROVE  /\ gw' \in [Amounts -> {"none", "pending", "done", "failed"}]
                    /\ \A a \in Amounts : gw[a] = "done" => gw'[a] = "done"
  OBVIOUS
<1> USE DEF OrderOK
<1>1. CASE SettleRefund
  BY <1>1 DEF SettleRefund
<1>2. ASSUME NEW w \in Admins, gwRefund(w)
      PROVE  /\ gw' \in [Amounts -> {"none", "pending", "done", "failed"}]
             /\ \A a \in Amounts : gw[a] = "done" => gw'[a] = "done"
  <2>1. plan[w].amt \in Amounts
    BY DEF RequestsOK, Plans
  <2>2. UNCHANGED gw \/ gw' \in gwAfter(plan[w].amt)
    BY <1>2 DEF gwRefund
  <2>3. UNCHANGED gw \/ (gw[plan[w].amt] = "none" /\
            \E s \in {"pending", "done"} : gw' = [gw EXCEPT ![plan[w].amt] = s])
    BY <2>2 DEF gwAfter
  <2> QED
    BY <2>1, <2>3
<1>3. ASSUME ~SettleRefund, \A w \in Admins : ~gwRefund(w) PROVE UNCHANGED gw
  <2>1. CASE RequestRefund \/ UNCHANGED vars
    BY <2>1 DEF RequestRefund, vars
  <2>2. ASSUME NEW w \in Admins, PrepareRefund(w) \/ ReadPending(w) \/ Crash(w)
        PROVE UNCHANGED gw
    BY <2>2 DEF PrepareRefund, ReadPending, Crash
  <2>3. ASSUME NEW w \in Admins, Continue(w) PROVE UNCHANGED gw
    BY <1>3, <2>3 DEF Continue, ClaimRefund, DeductRefund, markRefundOk, handleGwFail,
              restoreStatus, markRefundFailed, markRefundPending, QueryRefund,
              finalizePendingRefundSuccess, finalizeRefundFailed
  <2> QED
    BY <1>3, <2>1, <2>2, <2>3 DEF Next
<1> QED
  BY <1>1, <1>2, <1>3

\* A rollback gives back what the plan took, or nothing.
LEMMA RollbackTakes ==
  ASSUME NEW w \in Admins, NEW next, NEW otherwise, RollbackRefund(w, next, otherwise)
  PROVE  taken' \in {taken, taken - plan[w].want} /\ lost' = lost
BY DEF RollbackRefund

\* Every step keeps the order, its audit rows and the deduction well typed.
LEMMA NextOrderOK == TypeInv /\ [Next]_vars => OrderOK' /\ PendingHasAmount'
<1> SUFFICES ASSUME TypeInv, [Next]_vars PROVE OrderOK' /\ PendingHasAmount'
  OBVIOUS
<1>1. gw' \in [Amounts -> {"none", "pending", "done", "failed"}]
  BY NextGwOK DEF TypeInv, TypeOK
<1> DEFINE Rest == /\ status' \in Open \cup Refunded \cup {"REFUNDING"}
                   /\ refundAmt' \in 0..Amount
                   /\ otype' \in Otypes /\ faults' \in Scenarios
                   /\ taken' \in Int /\ lost' \in Nat
                   /\ pendingRow' \in {<<>>} \cup {<<d>> : d \in [key: Amounts, rollbackOK: BOOLEAN]}
                   /\ PendingHasAmount'
<1> USE AmountAssumption DEF AmountAssumption, TypeInv, TypeOK, OrderOK, order, fixed,
                             rows, PendingHasAmount
<1>2. CASE RequestRefund \/ SettleRefund \/ UNCHANGED vars
  BY <1>2 DEF RequestRefund, SettleRefund, vars, Open
<1>3. ASSUME NEW w \in Admins, PrepareRefund(w) \/ ReadPending(w) \/ Crash(w)
      PROVE Rest
  BY <1>3 DEF PrepareRefund, ReadPending, Crash
<1>4. ASSUME NEW w \in Admins, Continue(w) PROVE Rest
  <2>1. plan[w].amt \in Amounts /\ plan[w].want \in 0..Amount
    BY DEF RequestsOK, Plans
  <2>2. Amounts \subseteq 0..Amount
    BY DEF Amounts
  <2>3. CASE ClaimRefund(w) \/ gwRefund(w) \/ QueryRefund(w)
    BY <2>3 DEF ClaimRefund, gwRefund, QueryRefund
  <2>4. CASE restoreStatus(w) \/ markRefundFailed(w) \/ finalizeRefundFailed(w)
    BY <2>4 DEF restoreStatus, markRefundFailed, finalizeRefundFailed, Open
  <2>5. CASE DeductRefund(w)
    <3>1. \/ UNCHANGED <<taken, lost>>
          \/ \E d \in {0} \cup Deductions(plan[w].want) :
               taken' = taken + d /\ lost' \in {lost, lost + d}
      BY <2>5 DEF DeductRefund, AbortDeduction
    <3>2. taken' \in Int /\ lost' \in Nat
      BY <2>1, <3>1, DeductionsBound
    <3> QED
      BY <2>5, <3>2 DEF DeductRefund
  <2>6. CASE markRefundOk(w)
    BY <2>1, <2>2, <2>6 DEF markRefundOk, FinalStatus, Refunded
  <2>7. CASE handleGwFail(w)
    <3>1. taken' \in {taken, taken - plan[w].want} /\ lost' = lost
      BY <2>7, RollbackTakes DEF handleGwFail
    <3> QED
      BY <2>1, <2>7, <3>1 DEF handleGwFail
  <2>8. CASE markRefundPending(w)
    <3>1. CASE pc[w] = "giveback"
      <4>1. taken' \in {taken, taken - plan[w].want} /\ lost' = lost
        BY <2>8, <3>1, RollbackTakes DEF markRefundPending
      <4> QED
        BY <2>1, <2>8, <3>1, <4>1 DEF markRefundPending
    <3>2. CASE pc[w] # "giveback"
      <4> DEFINE row == [key |-> plan[w].amt, rollbackOK |-> (pc[w] = "pending")]
      <4>1. (pc[w] = "pending") \in BOOLEAN
        BY Zenon
      <4>2. row \in [key: Amounts, rollbackOK: BOOLEAN]
        BY <2>1, <4>1, Zenon
      <4>3. UNCHANGED pendingRow \/ pendingRow' = <<>> \/ pendingRow' = <<row>>
        BY <2>8, <3>2 DEF markRefundPending, writeAuditLog
      <4>4. UNCHANGED order \/ (status' = "REFUND_PENDING" /\ refundAmt' = plan[w].amt)
        BY <2>8, <3>2 DEF markRefundPending
      <4>5. UNCHANGED <<fixed, taken, lost>>
        BY <2>8, <3>2 DEF markRefundPending
      <4> HIDE DEF row
      <4>6. pendingRow' \in {<<>>} \cup {<<d>> : d \in [key: Amounts, rollbackOK: BOOLEAN]}
        BY <4>2, <4>3
      <4> QED
        BY <2>1, <2>2, <4>4, <4>5, <4>6 DEF Open
    <3> QED
      BY <3>1, <3>2
  <2>9. CASE finalizePendingRefundSuccess(w)
    <3>1. taken' \in Int
      BY <2>1, <2>9, DeductionsBound DEF finalizePendingRefundSuccess
    <3> QED
      BY <2>1, <2>2, <2>9, <3>1 DEF finalizePendingRefundSuccess, FinalStatus, Refunded
  <2> QED
    BY <1>4, <2>3, <2>4, <2>5, <2>6, <2>7, <2>8, <2>9 DEF Continue
<1> QED
  BY <1>1, <1>2, <1>3, <1>4 DEF Next

\* Every step keeps the types.
LEMMA NextTypeInv == TypeInv /\ [Next]_vars => TypeInv'
<1> SUFFICES ASSUME TypeInv, [Next]_vars PROVE TypeInv'
  OBVIOUS
<1>1. FlagsOK'
  BY NextFlagsOK DEF TypeInv, TypeOK
<1>2. OrderOK' /\ PendingHasAmount'
  BY NextOrderOK
<1>3. RequestsOK'
  BY NextPcOK, NextPlanOK DEF TypeInv, TypeOK, RequestsOK, Steps
<1> QED
  BY <1>1, <1>2, <1>3 DEF TypeInv, TypeOK

\* The variables of PaymentRefund keep their types, whatever goes wrong in
\* RequestRefund, ExecuteRefund and QueryAndFinalizeRefund.
THEOREM TypeCorrect == Spec => []TypeOK
<1>1. Spec => []TypeInv
  BY InitTypeInv, NextTypeInv, PTL DEF Spec
<1> QED
  BY <1>1, PTL DEF TypeInv

-----------------------------------------------------------------------------
(* A refund is recorded only when the provider made one                    *)

Made == \E a \in Amounts : gw[a] = "done"

(* Neither the order nor a request about to record the refund is ahead of  *)
(* the provider.                                                           *)
GatewayInv ==
  traded => \/ Made
            \/ status \notin Refunded /\ \A w \in Admins : pc[w] \notin {"ok", "finalize"}

\* No step changes the type of the order or its trade number.
LEMMA NextFixed == [Next]_vars => UNCHANGED fixed
<1> SUFFICES ASSUME [Next]_vars PROVE UNCHANGED fixed
  OBVIOUS
<1>1. CASE RequestRefund \/ SettleRefund \/ UNCHANGED vars
  BY <1>1 DEF RequestRefund, SettleRefund, vars, fixed
<1>2. ASSUME NEW w \in Admins, PrepareRefund(w) \/ ReadPending(w) \/ Crash(w)
      PROVE UNCHANGED fixed
  BY <1>2 DEF PrepareRefund, ReadPending, Crash
<1>3. ASSUME NEW w \in Admins, Continue(w) PROVE UNCHANGED fixed
  BY <1>3, Zenon DEF Continue, ClaimRefund, DeductRefund, gwRefund, markRefundOk,
           handleGwFail, restoreStatus, markRefundFailed, markRefundPending,
           QueryRefund, finalizePendingRefundSuccess, finalizeRefundFailed
<1> QED
  BY <1>1, <1>2, <1>3 DEF Next

\* No step gets ahead of the provider.
LEMMA NextGatewayInv == TypeInv /\ GatewayInv /\ [Next]_vars => GatewayInv'
<1> SUFFICES ASSUME TypeInv, GatewayInv, [Next]_vars PROVE GatewayInv'
  OBVIOUS
<1>1. Made => Made'
  BY NextGwOK DEF Made, TypeInv, TypeOK
<1>2. CASE Made
  BY <1>1, <1>2 DEF GatewayInv
<1>3. CASE ~Made /\ traded
  <2> DEFINE Quiet == status' \notin Refunded /\ \A w \in Admins : pc'[w] \notin {"ok", "finalize"}
  <2>1. status \notin Refunded /\ \A w \in Admins : pc[w] \notin {"ok", "finalize"}
    BY <1>3 DEF GatewayInv
  <2>2. \A a \in Amounts : gw[a] # "done"
    BY <1>3 DEF Made
  <2> USE DEF TypeInv, TypeOK, RequestsOK, order, Goto
  <2>3. ASSUME RequestRefund \/ SettleRefund \/ UNCHANGED vars PROVE Quiet
    BY <2>1, <2>3 DEF RequestRefund, SettleRefund, vars, Refunded
  <2>4. ASSUME NEW w \in Admins, PrepareRefund(w) \/ ReadPending(w) \/ Crash(w) PROVE Quiet
    BY <2>1, <2>4 DEF PrepareRefund, ReadPending, Crash
  <2>5. ASSUME NEW w \in Admins, Continue(w) PROVE Quiet \/ Made'
    <3>1. plan[w].amt \in Amounts /\ plan[w].key \in Amounts
      BY DEF Plans
    <3>2. CASE ClaimRefund(w)
      BY <2>1, <3>2 DEF ClaimRefund, Refunded
    <3>3. CASE DeductRefund(w)
      BY <2>1, <3>3 DEF DeductRefund, AbortDeduction
    <3>4. CASE gwRefund(w)
      <4>1. CASE pc'[w] = "ok"
        <5>1. gw'[plan[w].amt] = "done"
          BY <1>3, <3>4, <4>1 DEF gwRefund
        <5> QED
          BY <3>1, <5>1 DEF Made
      <4>2. CASE pc'[w] # "ok"
        <5>1. pc'[w] # "finalize" /\ status' = status
          BY <3>4 DEF gwRefund
        <5>2. \A v \in Admins : v # w => pc'[v] = pc[v]
          BY <3>4 DEF gwRefund
        <5> QED
          BY <2>1, <4>2, <5>1, <5>2
      <4> QED
        BY <4>1, <4>2
    <3>5. CASE markRefundOk(w) \/ finalizePendingRefundSuccess(w)
      BY <2>1, <3>5 DEF markRefundOk, finalizePendingRefundSuccess
    <3>6. CASE restoreStatus(w) \/ markRefundFailed(w) \/ finalizeRefundFailed(w)
      BY <2>1, <3>6 DEF restoreStatus, markRefundFailed, finalizeRefundFailed, Refunded
    <3>7. CASE handleGwFail(w)
      BY <2>1, <3>7 DEF handleGwFail, RollbackRefund
    <3>8. CASE markRefundPending(w)
      BY <2>1, <3>8 DEF markRefundPending, RollbackRefund, Refunded
    <3>9. CASE QueryRefund(w)
      BY <2>1, <2>2, <3>1, <3>9 DEF QueryRefund
    <3> QED
      BY <2>5, <3>2, <3>3, <3>4, <3>5, <3>6, <3>7, <3>8, <3>9 DEF Continue
  <2>6. Quiet \/ Made'
    BY <2>3, <2>4, <2>5 DEF Next
  <2> QED
    BY <2>6 DEF GatewayInv
<1>4. CASE ~traded
  <2>1. traded' = traded
    BY NextFixed DEF fixed
  <2> QED
    BY <1>4, <2>1 DEF GatewayInv
<1> QED
  BY <1>2, <1>3, <1>4

\* An order is marked refunded only after the provider made a refund: a
\* pending, failed or lost answer in gwRefund or QueryRefund never counts,
\* whatever else fails and however requests overlap.
THEOREM RefundedOnlyByGateway == Spec => []NoRefundWithoutGateway
<1>1. Init => GatewayInv
  BY DEF Init, GatewayInv, Refunded
<1>2. Spec => [](TypeInv /\ GatewayInv)
  BY <1>1, InitTypeInv, NextTypeInv, NextGatewayInv, PTL DEF Spec
<1>3. GatewayInv => NoRefundWithoutGateway
  BY DEF GatewayInv, NoRefundWithoutGateway, Made
<1> QED
  BY <1>2, <1>3, PTL

-----------------------------------------------------------------------------
(* What is given back was taken                                            *)

(* What a request has taken and may still give back. A request that fails  *)
(* to give back, crashes or refunds keeps it.                              *)
Owed == [w \in Admins |-> IF pc[w] \in {"refund", "rollback", "giveback"}
                          THEN plan[w].want ELSE 0]

(* t covers the sum of h over all requests. The sum is certified by a      *)
(* function on sets of requests rather than computed: any number of        *)
(* requests may owe at the same time, and none of the steps adds them up.  *)
Covers(t, h) ==
  \E sum \in [SUBSET Admins -> Nat] :
    /\ sum[{}] = 0
    /\ \A S \in SUBSET Admins : \A w \in Admins \ S : sum[S \cup {w}] = sum[S] + h[w]
    /\ sum[Admins] <= t

\* One request's share may change by no more than the total does.
LEMMA CoversUpdate ==
  ASSUME NEW h \in [Admins -> Nat], NEW w \in Admins, NEW n \in Nat,
         NEW t \in Int, NEW u \in Int, Covers(t, h), t - h[w] <= u - n
  PROVE  Covers(u, [h EXCEPT ![w] = n])
<1>1. PICK sum \in [SUBSET Admins -> Nat] :
        /\ sum[{}] = 0
        /\ \A S \in SUBSET Admins : \A v \in Admins \ S : sum[S \cup {v}] = sum[S] + h[v]
        /\ sum[Admins] <= t
  BY DEF Covers
<1> DEFINE new == [S \in SUBSET Admins |-> IF w \in S THEN sum[S] - h[w] + n ELSE sum[S]]
           g == [h EXCEPT ![w] = n]
<1>2. ASSUME NEW S \in SUBSET Admins, w \in S
      PROVE  sum[S] - h[w] \in Nat
  <2>1. S \ {w} \in SUBSET Admins /\ w \in Admins \ (S \ {w}) /\ (S \ {w}) \cup {w} = S
    BY <1>2
  <2>2. sum[S] = sum[S \ {w}] + h[w]
    BY <1>1, <2>1
  <2>3. sum[S] \in Nat /\ sum[S \ {w}] \in Nat /\ h[w] \in Nat
    BY <2>1
  <2> QED
    BY <2>2, <2>3
<1>3. new \in [SUBSET Admins -> Nat]
  <2>1. ASSUME NEW S \in SUBSET Admins
        PROVE  (IF w \in S THEN sum[S] - h[w] + n ELSE sum[S]) \in Nat
    BY <1>2
  <2> QED
    BY <2>1
<1>4. new[{}] = 0
  BY <1>1
<1>5. ASSUME NEW S \in SUBSET Admins, NEW v \in Admins \ S
      PROVE  new[S \cup {v}] = new[S] + g[v]
  <2>1. S \cup {v} \in SUBSET Admins
    OBVIOUS
  <2>2. sum[S \cup {v}] = sum[S] + h[v]
    BY <1>1
  <2>3. sum[S] \in Nat /\ h[v] \in Nat /\ h[w] \in Nat
    OBVIOUS
  <2>4. CASE v = w
    BY <2>1, <2>2, <2>3, <2>4
  <2>5. CASE v # w
    <3>1. g[v] = h[v] /\ (w \in S \cup {v} <=> w \in S)
      BY <2>5
    <3> QED
      BY <2>1, <2>2, <2>3, <3>1
  <2> QED
    BY <2>4, <2>5
<1>6. new[Admins] <= u
  <2>1. Admins \in SUBSET Admins /\ sum[Admins] \in Nat /\ h[w] \in Nat
    OBVIOUS
  <2>2. new[Admins] = sum[Admins] - h[w] + n
    BY <2>1
  <2> QED
    BY <1>1, <2>1, <2>2
<1> HIDE DEF new
<1> QED
  BY <1>3, <1>4, <1>5, <1>6 DEF Covers

\* What a request owes is a number.
LEMMA OwedType == TypeInv => Owed \in [Admins -> Nat]
BY AmountAssumption DEF AmountAssumption, TypeInv, TypeOK, RequestsOK, Plans, Owed

\* A step of one request that leaves the others' steps and plans alone, and
\* changes the total by no less than its own share, keeps the others covered.
LEMMA OwedStep ==
  ASSUME TypeInv, TypeInv', Covers(taken - lost, Owed), NEW w \in Admins,
         \A v \in Admins \ {w} : pc'[v] = pc[v] /\ plan'[v] = plan[v],
         taken - lost - Owed[w] <= taken' - lost' - Owed'[w]
  PROVE  Covers(taken' - lost', Owed')
<1>0. (TypeInv => Owed \in [Admins -> Nat])'
  BY OwedType, PTL
<1>1. Owed \in [Admins -> Nat] /\ Owed' \in [Admins -> Nat]
  BY <1>0, OwedType
<1>2. Owed' = [Owed EXCEPT ![w] = Owed'[w]]
  <2>1. \A v \in Admins \ {w} : Owed'[v] = Owed[v]
    BY DEF Owed
  <2> QED
    BY <1>1, <2>1
<1>3. taken - lost \in Int /\ taken' - lost' \in Int
  BY DEF TypeInv, TypeOK, OrderOK
<1>4. Owed'[w] \in Nat
  BY <1>1
<1>5. Covers(taken' - lost', [Owed EXCEPT ![w] = Owed'[w]])
  BY <1>1, <1>3, <1>4, CoversUpdate
<1> QED
  BY <1>2, <1>5

\* Every step keeps what the requests owe covered by what was taken.
LEMMA NextCovers ==
  ASSUME TypeInv, TypeInv', Covers(taken - lost, Owed), [Next]_vars
  PROVE  Covers(taken' - lost', Owed')
<1> USE DEF Goto
<1>0. pc \in [Admins -> Steps] /\ plan \in [Admins -> Plans]
      /\ taken \in Int /\ lost \in Nat
  BY DEF TypeInv, TypeOK, RequestsOK, OrderOK, Steps
<1>1. CASE RequestRefund \/ SettleRefund \/ UNCHANGED vars
  <2>1. UNCHANGED <<pc, plan, taken, lost>>
    BY <1>1 DEF RequestRefund, SettleRefund, vars
  <2>2. Owed' = Owed
    BY <2>1 DEF Owed
  <2> QED
    BY <2>1, <2>2
<1>2. ASSUME NEW w \in Admins, PrepareRefund(w) \/ ReadPending(w) \/ Crash(w)
      PROVE Covers(taken' - lost', Owed')
  <2>1. \A v \in Admins \ {w} : pc'[v] = pc[v] /\ plan'[v] = plan[v]
    BY <1>0, <1>2 DEF PrepareRefund, ReadPending, Crash
  <2>2. pc'[w] \in {"claim", "query", "idle"} /\ taken' = taken /\ lost' = lost
    BY <1>0, <1>2 DEF PrepareRefund, ReadPending, Crash
  <2>3. Owed'[w] = 0 /\ Owed[w] \in Nat
    BY <2>2, OwedType DEF Owed
  <2>4. taken - lost - Owed[w] <= taken' - lost' - Owed'[w]
    BY <1>0, <2>2, <2>3
  <2> QED
    BY <2>1, <2>4, OwedStep
<1>3. ASSUME NEW w \in Admins, Continue(w) PROVE Covers(taken' - lost', Owed')
  <2>0. plan[w].want \in Nat /\ plan[w].want \in 0..Amount /\ Owed[w] \in Nat
    BY <1>0, OwedType, AmountAssumption DEF AmountAssumption, Plans
  <2>1. CASE DeductRefund(w)
    <3>1. \A v \in Admins \ {w} : pc'[v] = pc[v] /\ plan'[v] = plan[v]
      BY <1>0, <2>1 DEF DeductRefund, AbortDeduction
    <3>2. Owed[w] = 0
      BY <2>1 DEF DeductRefund, Owed
    <3>3. taken - lost <= taken' - lost' - Owed'[w]
      <4>1. CASE plan' = [plan EXCEPT ![w].want = 0] /\ UNCHANGED <<taken, lost>>
        <5>1. plan'[w].want = 0
          BY <1>0, <4>1 DEF Plans
        <5>2. Owed'[w] = 0
          BY <5>1 DEF Owed
        <5> QED
          BY <1>0, <4>1, <5>2
      <4>2. CASE \E d \in Deductions(plan[w].want), r \in BOOLEAN :
                  /\ plan' = [plan EXCEPT ![w].want = d, ![w].revoked = r]
                  /\ taken' = taken + d /\ lost' = lost
        <5>1. PICK d \in Deductions(plan[w].want), r \in BOOLEAN :
                  /\ plan' = [plan EXCEPT ![w].want = d, ![w].revoked = r]
                  /\ taken' = taken + d /\ lost' = lost
          BY <4>2
        <5>2. d \in Int /\ 0 <= d
          BY <2>0, DeductionsBound DEF TypeInv, TypeOK
        <5>3. plan'[w].want = d
          BY <1>0, <5>1 DEF Plans
        <5>4. Owed'[w] \in {0, d}
          BY <5>3 DEF Owed
        <5> QED
          BY <1>0, <5>1, <5>2, <5>4
      <4>3. CASE pc'[w] = "restore" /\ \E d \in {0} \cup Deductions(plan[w].want) :
                  taken' = taken + d /\ lost' = lost + d
        <5>1. PICK d \in {0} \cup Deductions(plan[w].want) :
                  taken' = taken + d /\ lost' = lost + d
          BY <4>3
        <5>2. d \in Int
          BY <2>0, DeductionsBound DEF TypeInv, TypeOK
        <5>3. Owed'[w] = 0
          BY <4>3 DEF Owed
        <5> QED
          BY <1>0, <5>1, <5>2, <5>3
      <4> QED
        BY <1>0, <2>1, <4>1, <4>2, <4>3 DEF DeductRefund, AbortDeduction
    <3>4. taken - lost - Owed[w] <= taken' - lost' - Owed'[w]
      BY <1>0, <3>2, <3>3
    <3> QED
      BY <3>1, <3>4, OwedStep
  <2>2. CASE ~DeductRefund(w)
    <3>1. /\ UNCHANGED plan
          /\ \A v \in Admins \ {w} : pc'[v] = pc[v]
      <4>1. UNCHANGED plan /\ \E s : pc' = [pc EXCEPT ![w] = s]
        BY <1>3, <2>2, Zenon DEF Continue, ClaimRefund, gwRefund, markRefundOk,
           handleGwFail, restoreStatus, markRefundFailed, markRefundPending, QueryRefund,
           RollbackRefund, finalizePendingRefundSuccess, finalizeRefundFailed
      <4> QED
        BY <1>0, <4>1
    <3>0. lost' = lost
      BY <1>3, <2>2 DEF Continue, ClaimRefund, gwRefund, markRefundOk, handleGwFail,
         restoreStatus, markRefundFailed, markRefundPending, QueryRefund, RollbackRefund,
         finalizePendingRefundSuccess, finalizeRefundFailed
    <3>2. \/ taken' = taken - plan[w].want /\ Owed[w] = plan[w].want /\ Owed'[w] = 0
          \/ taken' = taken /\ Owed'[w] \in {0, Owed[w]}
          \/ taken' \in Int /\ taken' >= taken /\ Owed'[w] = 0
      <4>1. CASE handleGwFail(w) \/ (markRefundPending(w) /\ pc[w] = "giveback")
        <5>1. /\ pc[w] \in {"rollback", "giveback"}
              /\ pc'[w] \in {"restore", "failed", "pending", "pendingHeld"}
              /\ taken' \in {taken, taken - plan[w].want}
          BY <1>0, <4>1 DEF handleGwFail, markRefundPending, RollbackRefund
        <5> QED
          BY <5>1 DEF Owed
      <4>2. CASE gwRefund(w)
        <5>1. pc[w] = "refund" /\ UNCHANGED <<taken, plan>>
          BY <4>2 DEF gwRefund
        <5> QED
          BY <5>1 DEF Owed
      <4>3. CASE finalizePendingRefundSuccess(w)
        <5>1. UNCHANGED taken \/ \E d \in Deductions(plan[w].want) : taken' = taken + d
          BY <4>3 DEF finalizePendingRefundSuccess
        <5>2. taken' \in Int /\ taken' >= taken
          BY <1>0, <2>0, <5>1, DeductionsBound DEF TypeInv, TypeOK
        <5>3. pc'[w] = "idle"
          BY <1>0, <4>3 DEF finalizePendingRefundSuccess
        <5> QED
          BY <5>2, <5>3 DEF Owed
      <4>4. CASE \/ ClaimRefund(w) \/ markRefundOk(w) \/ restoreStatus(w)
                 \/ markRefundFailed(w) \/ QueryRefund(w) \/ finalizeRefundFailed(w)
                 \/ (markRefundPending(w) /\ pc[w] # "giveback")
        <5>1. taken' = taken /\ pc'[w] \in {"deduct", "idle", "finalize", "declined"}
          BY <1>0, <4>4 DEF ClaimRefund, markRefundOk, restoreStatus, markRefundFailed,
             QueryRefund, finalizeRefundFailed, markRefundPending
        <5> QED
          BY <5>1 DEF Owed
      <4> QED
        BY <1>3, <2>2, <4>1, <4>2, <4>3, <4>4 DEF Continue
    <3>3. taken - lost - Owed[w] <= taken' - lost' - Owed'[w]
      BY <1>0, <2>0, <3>0, <3>2
    <3> QED
      BY <3>1, <3>3, OwedStep
  <2> QED
    BY <2>1, <2>2
<1> QED
  BY <1>1, <1>2, <1>3 DEF Next

\* However many requests overlap, fail, crash or lose their answers, refunds
\* never give back more than they took: RollbackRefund returns what its own
\* attempt deducted, nobody else returns that, and nobody returns a deduction
\* that was reported as failed.
THEOREM RollbacksAreCovered == Spec => []NeverGivesBackMore
<1>1. Init => Covers(taken - lost, Owed)
  <2> SUFFICES ASSUME Init PROVE Covers(taken - lost, Owed)
    OBVIOUS
  <2> DEFINE none == [S \in SUBSET Admins |-> 0]
  <2>1. Owed = [w \in Admins |-> 0] /\ taken - lost = 0
    BY DEF Init, Owed
  <2>2. none \in [SUBSET Admins -> Nat] /\ none[{}] = 0 /\ none[Admins] <= taken - lost
    BY <2>1
  <2>3. \A S \in SUBSET Admins : \A w \in Admins \ S : none[S \cup {w}] = none[S] + Owed[w]
    BY <2>1
  <2> HIDE DEF none
  <2> QED
    BY <2>2, <2>3 DEF Covers
<1>2. TypeInv /\ Covers(taken - lost, Owed) => NeverGivesBackMore
  <2> SUFFICES ASSUME TypeInv, Covers(taken - lost, Owed) PROVE taken >= lost
    BY DEF NeverGivesBackMore
  <2>1. PICK sum \in [SUBSET Admins -> Nat] : sum[Admins] <= taken - lost
    BY DEF Covers
  <2>2. sum[Admins] \in Nat /\ taken \in Int /\ lost \in Nat
    BY DEF TypeInv, TypeOK, OrderOK
  <2> QED
    BY <2>1, <2>2
<1>3. TypeInv /\ TypeInv' /\ Covers(taken - lost, Owed) /\ [Next]_vars => Covers(taken - lost, Owed)'
  BY NextCovers
<1>4. Spec => [](TypeInv /\ Covers(taken - lost, Owed))
  BY <1>1, <1>3, InitTypeInv, NextTypeInv, PTL DEF Spec
<1> QED
  BY <1>2, <1>4, PTL

-----------------------------------------------------------------------------
(* A claimed refund has its executor                                       *)

\* Where crashes and failed writes are excluded, an order leaves REFUNDING
\* with the request that brought it there: whatever the provider answers and
\* whichever deduction or rollback fails, every way out of ExecuteRefund
\* writes the status.
THEOREM RefundingIsOwned == Spec => []RefundingHasOwner
<1>1. Init => RefundingHasOwner
  BY DEF Init, RefundingHasOwner
<1>2. TypeInv /\ RefundingHasOwner /\ [Next]_vars => RefundingHasOwner'
  <2> SUFFICES ASSUME TypeInv, RefundingHasOwner, [Next]_vars,
                      status' = "REFUNDING", faults' \cap {"crash", "save"} = {}
               PROVE  \E w \in Admins : pc'[w] \in Executing
    BY DEF RefundingHasOwner
  <2> USE DEF Goto, order
  <2>0. "crash" \notin faults /\ "save" \notin faults
    BY NextFixed DEF fixed
  <2>1. pc \in [Admins -> Steps]
    BY DEF TypeInv, TypeOK, RequestsOK, Steps
  <2>2. CASE status # "REFUNDING"
    <3>1. PICK w \in Admins : ClaimRefund(w) /\ status \in Open
      <4>1. ~RequestRefund /\ ~SettleRefund /\ ~UNCHANGED vars
        BY <2>2 DEF RequestRefund, SettleRefund, vars
      <4>2. ASSUME NEW w \in Admins, PrepareRefund(w) \/ ReadPending(w) \/ Crash(w)
            PROVE FALSE
        BY <2>2, <4>2 DEF PrepareRefund, ReadPending, Crash
      <4>3. ASSUME NEW w \in Admins, Continue(w), ~ClaimRefund(w) PROVE FALSE
        BY <2>2, <4>3 DEF Continue, DeductRefund, gwRefund, markRefundOk, handleGwFail,
           restoreStatus, markRefundFailed, markRefundPending, QueryRefund, FinalStatus,
           finalizePendingRefundSuccess, finalizeRefundFailed
      <4> QED
        BY <2>2, <4>1, <4>2, <4>3 DEF Next, ClaimRefund
    <3> QED
      BY <2>1, <3>1 DEF ClaimRefund, Executing, Open
  <2>3. CASE status = "REFUNDING"
    <3>1. PICK o \in Admins : pc[o] \in Executing
      BY <2>0, <2>3 DEF RefundingHasOwner
    <3>2. CASE pc'[o] = pc[o]
      BY <3>1, <3>2
    <3>3. CASE pc'[o] # pc[o]
      <4>1. ~RequestRefund /\ ~SettleRefund /\ ~UNCHANGED vars
        BY <3>3 DEF RequestRefund, SettleRefund, vars
      <4>2. ASSUME NEW w \in Admins, PrepareRefund(w) \/ ReadPending(w) \/ Crash(w)
            PROVE pc'[o] = pc[o]
        BY <2>0, <2>1, <2>3, <3>1, <4>2 DEF PrepareRefund, ReadPending, Crash, Open
      <4>3. ASSUME NEW w \in Admins, Continue(w) PROVE pc'[o] = pc[o] \/ pc'[o] \in Executing
        <5>1. CASE w # o
          <6>1. \E s : pc' = [pc EXCEPT ![w] = s]
            BY <4>3, Zenon DEF Continue, ClaimRefund, DeductRefund, AbortDeduction, gwRefund,
               markRefundOk, handleGwFail, restoreStatus, markRefundFailed, RollbackRefund,
               markRefundPending, QueryRefund, finalizePendingRefundSuccess, finalizeRefundFailed
          <6> QED
            BY <2>1, <5>1, <6>1
        <5>2. CASE w = o
          <6>1. CASE DeductRefund(o) \/ gwRefund(o) \/ handleGwFail(o)
            BY <2>1, <6>1 DEF DeductRefund, AbortDeduction, gwRefund, handleGwFail,
               RollbackRefund, Executing
          <6>2. CASE markRefundPending(o)
            BY <2>0, <2>1, <6>2 DEF markRefundPending, RollbackRefund, Executing
          <6>3. ~markRefundOk(o) /\ ~restoreStatus(o) /\ ~markRefundFailed(o)
            BY <2>0 DEF markRefundOk, restoreStatus, markRefundFailed, FinalStatus
          <6>4. /\ ~ClaimRefund(o) /\ ~QueryRefund(o)
                /\ ~finalizePendingRefundSuccess(o) /\ ~finalizeRefundFailed(o)
            BY <3>1 DEF Executing, ClaimRefund, QueryRefund, finalizePendingRefundSuccess,
               finalizeRefundFailed
          <6> QED
            BY <4>3, <5>2, <6>1, <6>2, <6>3, <6>4 DEF Continue
        <5> QED
          BY <5>1, <5>2
      <4> QED
        BY <3>3, <4>1, <4>2, <4>3 DEF Next
    <3> QED
      BY <3>2, <3>3
  <2> QED
    BY <2>2, <2>3
<1> QED
  BY <1>1, <1>2, InitTypeInv, NextTypeInv, PTL DEF Spec

-----------------------------------------------------------------------------
(* Overlapping refunds                                                     *)

Cap(amt) == IF otype = "balance" THEN amt ELSE Amount

(* The claim is a lock: whoever executes holds the order in REFUNDING.     *)
LockInv ==
  /\ OneExecutor
  /\ \A w \in Admins : pc[w] \in Executing => status = "REFUNDING"
  /\ \A w \in Admins : pc[w] \notin {"failed", "pendingHeld", "declined"}
  /\ \A a \in Amounts : gw[a] # "failed"

(* A plan under way stays within its refund and has revoked nothing.       *)
PlanInv ==
  \A w \in Admins : pc[w] # "idle" => ~plan[w].revoked /\ plan[w].want <= Cap(plan[w].amt)

(* What is held back is what the one executing request knows it took, and  *)
(* what failed deductions took.                                            *)
HeldInv ==
  \A w \in Admins :
    /\ pc[w] \in {"deduct", "restore", "pending"} => taken = lost
    /\ pc[w] \in {"refund", "ok", "rollback", "giveback"} => taken - lost = plan[w].want

BenignInv == LockInv /\ PlanInv /\ HeldInv /\ NothingHeldWhenOpen /\ RefundedTakesOnce


\* A completed order before any refund satisfies the invariant.
LEMMA InitBenignInv == Init => BenignInv
BY AmountAssumption DEF AmountAssumption, Init, BenignInv, LockInv, OneExecutor, PlanInv,
   HeldInv, NothingHeldWhenOpen, RefundedTakesOnce, Executing, Refunded, Open

\* The lock: no step lets a second request in or loses the status it holds.
LEMMA NextLockInv ==
  ASSUME Benign, TypeInv, BenignInv, [Next]_vars
  PROVE  LockInv'
<1> USE DEF TypeInv, TypeOK, RequestsOK, BenignInv, LockInv, OneExecutor, order, Goto,
            Executing, Open
<1>1. CASE RequestRefund
  BY <1>1 DEF RequestRefund
<1>2. CASE SettleRefund
  <2>1. \A a \in Amounts : gw'[a] # "failed"
    BY <1>2 DEF SettleRefund, Benign, OrderOK
  <2> QED
    BY <1>2, <2>1 DEF SettleRefund
<1>3. CASE UNCHANGED vars
  BY <1>3 DEF vars
<1>4. ASSUME NEW w \in Admins, PrepareRefund(w) \/ ReadPending(w) \/ Crash(w)
      PROVE LockInv'
  BY <1>4 DEF PrepareRefund, ReadPending, Crash
<1>5. ASSUME NEW w \in Admins, Continue(w) PROVE LockInv'
  <2>1. plan[w].amt \in Amounts /\ plan[w].key \in Amounts
    BY DEF Plans
  <2>2. CASE ClaimRefund(w)
    BY <2>2 DEF ClaimRefund
  <2>3. CASE DeductRefund(w)
    BY <2>3 DEF DeductRefund, AbortDeduction
  <2>4. CASE gwRefund(w)
    <3>1. \A a \in Amounts : gw'[a] # "failed"
      BY <2>1, <2>4 DEF gwRefund, gwAfter, OrderOK
    <3>2. status' = status /\ pc[w] \in Executing
      BY <2>4 DEF gwRefund
    <3>3. \E s \in {"ok", "giveback", "rollback"} : pc' = [pc EXCEPT ![w] = s]
      BY <2>4 DEF gwRefund
    <3> QED
      BY <3>1, <3>2, <3>3
  <2>5. CASE markRefundOk(w) \/ restoreStatus(w)
    BY <2>5 DEF markRefundOk, restoreStatus
  <2>6. CASE markRefundFailed(w) \/ finalizeRefundFailed(w)
    BY <2>6 DEF markRefundFailed, finalizeRefundFailed
  <2>7. CASE handleGwFail(w)
    <3>1. pc[w] = "rollback" /\ ~plan[w].revoked
      BY <2>7 DEF handleGwFail, PlanInv
    <3>2. pc' = [pc EXCEPT ![w] = "restore"] /\ status' = status /\ gw' = gw
      BY <2>7, <3>1 DEF handleGwFail, RollbackRefund, Benign
    <3> QED
      BY <3>1, <3>2
  <2>8. CASE markRefundPending(w)
    <3>1. CASE pc[w] = "giveback"
      <4>1. ~plan[w].revoked
        BY <3>1 DEF PlanInv
      <4>2. pc' = [pc EXCEPT ![w] = "pending"] /\ status' = status /\ gw' = gw
        BY <2>8, <3>1, <4>1 DEF markRefundPending, RollbackRefund, Benign
      <4> QED
        BY <3>1, <4>2
    <3>2. CASE pc[w] # "giveback"
      BY <2>8, <3>2 DEF markRefundPending
    <3> QED
      BY <3>1, <3>2
  <2>9. CASE QueryRefund(w)
    BY <2>1, <2>9 DEF QueryRefund
  <2>10. CASE finalizePendingRefundSuccess(w)
    BY <2>10 DEF finalizePendingRefundSuccess
  <2> QED
    BY <1>5, <2>2, <2>3, <2>4, <2>5, <2>6, <2>7, <2>8, <2>9, <2>10 DEF Continue
<1> QED
  BY <1>1, <1>2, <1>3, <1>4, <1>5 DEF Next


\* Plans stay within their refund.
LEMMA NextPlanInv ==
  ASSUME Benign, TypeInv, BenignInv, [Next]_vars
  PROVE  PlanInv'
<1> USE DEF TypeInv, TypeOK, RequestsOK, BenignInv, PlanInv, Goto
<1>0. otype' = otype
  BY NextFixed DEF fixed
<1>1. CASE RequestRefund \/ SettleRefund \/ UNCHANGED vars
  BY <1>0, <1>1 DEF RequestRefund, SettleRefund, vars, Cap
<1>2. ASSUME NEW w \in Admins, PrepareRefund(w) PROVE PlanInv'
  <2>1. PICK amt \in Amounts, deduct \in Deducts :
          \E want \in IF deduct THEN prepDeduct(amt) ELSE {0} :
             plan' = [plan EXCEPT ![w] = [amt |-> amt, want |-> want, snap |-> status,
                                          revoked |-> FALSE, key |-> amt]]
    BY <1>2 DEF PrepareRefund
  <2>2. PICK want \in IF deduct THEN prepDeduct(amt) ELSE {0} :
             plan' = [plan EXCEPT ![w] = [amt |-> amt, want |-> want, snap |-> status,
                                          revoked |-> FALSE, key |-> amt]]
    BY <2>1
  <2>3. want <= Cap(amt)
    BY prepDeductBound, AmountAssumption DEF AmountAssumption, Cap, Amounts
  <2>4. pc' = [pc EXCEPT ![w] = "claim"]
    BY <1>2 DEF PrepareRefund
  <2> QED
    BY <1>0, <2>2, <2>3, <2>4 DEF Cap
<1>3. ASSUME NEW w \in Admins, ReadPending(w) PROVE PlanInv'
  <2>1. refundAmt \in Amounts
    BY <1>3 DEF ReadPending, PendingHasAmount
  <2>0. PICK detail \in latestRefundPendingDetail :
          \E want \in IF ~detail.rollbackOK THEN {0}
               ELSE IF otype = "balance" THEN {refundAmt} ELSE prepDeduct(refundAmt) :
             plan' = [plan EXCEPT ![w] = [amt |-> refundAmt, want |-> want,
                                snap |-> status, revoked |-> FALSE, key |-> detail.key]]
    BY <1>3 DEF ReadPending
  <2>2. PICK want : want \in (IF ~detail.rollbackOK THEN {0}
               ELSE IF otype = "balance" THEN {refundAmt} ELSE prepDeduct(refundAmt))
             /\ plan' = [plan EXCEPT ![w] = [amt |-> refundAmt, want |-> want,
                                snap |-> status, revoked |-> FALSE, key |-> detail.key]]
    BY <2>0
  <2>3. want <= Cap(refundAmt)
    BY <2>1, <2>2, prepDeductBound, AmountAssumption DEF AmountAssumption, Cap, Amounts
  <2>4. pc' = [pc EXCEPT ![w] = "query"]
    BY <1>3 DEF ReadPending
  <2> QED
    BY <1>0, <2>2, <2>3, <2>4 DEF Cap
<1>4. ASSUME NEW w \in Admins, DeductRefund(w) PROVE PlanInv'
  <2>1. plan[w].want \in 0..Amount /\ plan[w].amt \in Amounts
    BY DEF Plans
  <2>2. pc[w] # "idle" /\ ~plan[w].revoked /\ plan[w].want <= Cap(plan[w].amt)
    BY <1>4 DEF DeductRefund
  <2>3. \A v \in Admins : v # w => pc'[v] = pc[v] /\ plan'[v] = plan[v]
    BY <1>4 DEF DeductRefund, AbortDeduction
  <2>4. /\ plan'[w].amt = plan[w].amt
        /\ plan'[w].revoked = plan[w].revoked \/ plan'[w].revoked = FALSE
        /\ plan'[w].want \in {0, plan[w].want} \cup Deductions(plan[w].want)
    <3>1. CASE plan' = [plan EXCEPT ![w].want = 0]
      BY <3>1 DEF Plans
    <3>2. CASE \E d \in Deductions(plan[w].want), r \in BOOLEAN :
               /\ r => "revoke" \in faults
               /\ plan' = [plan EXCEPT ![w].want = d, ![w].revoked = r]
      <4>1. PICK d \in Deductions(plan[w].want), r \in BOOLEAN :
               /\ r => "revoke" \in faults
               /\ plan' = [plan EXCEPT ![w].want = d, ![w].revoked = r]
        BY <3>2
      <4>2. r = FALSE
        BY <4>1 DEF Benign
      <4> QED
        BY <4>1, <4>2 DEF Plans
    <3>3. CASE UNCHANGED plan
      BY <3>3
    <3> QED
      BY <1>4, <3>1, <3>2, <3>3 DEF DeductRefund, AbortDeduction
  <2>5. plan'[w].want <= Cap(plan[w].amt)
    <3>1. plan'[w].want = 0 \/ plan'[w].want = plan[w].want
            \/ plan'[w].want \in Deductions(plan[w].want)
      BY <2>4
    <3>2. Cap(plan[w].amt) \in Nat
      BY <2>1, AmountAssumption DEF AmountAssumption, Cap, Amounts
    <3>3. CASE plan'[w].want \in Deductions(plan[w].want)
      <4>1. plan'[w].want \in Int /\ plan'[w].want <= plan[w].want
        BY <2>1, <3>3, DeductionsBound
      <4> QED
        BY <2>1, <2>2, <3>2, <4>1
    <3> QED
      BY <2>2, <3>1, <3>2, <3>3
  <2> QED
    BY <1>0, <2>2, <2>3, <2>4, <2>5 DEF Cap
<1>5. ASSUME NEW w \in Admins, Crash(w) \/ (Continue(w) /\ ~DeductRefund(w))
      PROVE PlanInv'
  <2>1. UNCHANGED plan
    BY <1>5 DEF Crash, Continue, ClaimRefund, gwRefund, markRefundOk, handleGwFail,
                restoreStatus, markRefundFailed, markRefundPending, QueryRefund,
                finalizePendingRefundSuccess, finalizeRefundFailed
  <2>2. pc[w] # "idle" /\ \E s : pc' = [pc EXCEPT ![w] = s]
    BY <1>5, Zenon DEF Crash, Continue, ClaimRefund, gwRefund, markRefundOk, handleGwFail,
                restoreStatus, markRefundFailed, markRefundPending, QueryRefund,
                RollbackRefund, finalizePendingRefundSuccess, finalizeRefundFailed
  <2> QED
    BY <1>0, <2>1, <2>2 DEF Cap
<1> QED
  BY <1>1, <1>2, <1>3, <1>4, <1>5 DEF Next


\* The deduction: what is held is known to the one request that executes, and
\* nothing is held while the order is open.
LEMMA NextMoneyInv ==
  ASSUME Benign, TypeInv, BenignInv, [Next]_vars
  PROVE  HeldInv' /\ NothingHeldWhenOpen' /\ RefundedTakesOnce'
<1> DEFINE Goal == HeldInv' /\ NothingHeldWhenOpen' /\ RefundedTakesOnce'
<1> USE DEF TypeInv, TypeOK, RequestsOK, BenignInv, HeldInv, NothingHeldWhenOpen,
            RefundedTakesOnce, order, Goto
<1>0. otype' = otype
  BY NextFixed DEF fixed
<1>1. ASSUME RequestRefund \/ SettleRefund \/ UNCHANGED vars PROVE Goal
  BY <1>0, <1>1 DEF RequestRefund, SettleRefund, vars, Open, Refunded
<1>2. ASSUME NEW w \in Admins, PrepareRefund(w) \/ ReadPending(w) PROVE Goal
  <2>1. UNCHANGED <<status, refundAmt, taken, lost>>
    BY <1>2 DEF PrepareRefund, ReadPending
  <2>2. pc'[w] \in {"claim", "query"}
    BY <1>2 DEF PrepareRefund, ReadPending
  <2>3. \A v \in Admins : v # w => pc'[v] = pc[v] /\ plan'[v] = plan[v]
    BY <1>2 DEF PrepareRefund, ReadPending
  <2> QED
    BY <1>0, <2>1, <2>2, <2>3
<1>3. ASSUME NEW w \in Admins, Crash(w) PROVE Goal
  BY <1>0, <1>3 DEF Crash
<1>4. ASSUME NEW w \in Admins, Continue(w) PROVE Goal
  <2>1. plan[w].amt \in Amounts /\ plan[w].want \in 0..Amount
        /\ taken \in Int /\ lost \in Nat
    BY DEF Plans, OrderOK
  <2>2. \A v \in Admins : pc[v] \in Executing => status = "REFUNDING"
    BY DEF LockInv
  <2>3. pc[w] \in Executing => \A v \in Admins : v # w => pc[v] \notin Executing
    BY DEF LockInv, OneExecutor
  <2>4. CASE ClaimRefund(w)
    <3>1. CASE status \in Open
      <4>1. taken' = lost' /\ status' = "REFUNDING" /\ UNCHANGED plan
        BY <2>4, <3>1 DEF ClaimRefund
      <4>2. \A v \in Admins : pc[v] \notin Executing
        BY <2>2, <3>1 DEF Open
      <4>3. pc' = [pc EXCEPT ![w] = "deduct"]
        BY <2>4, <3>1 DEF ClaimRefund
      <4> QED
        BY <4>1, <4>2, <4>3 DEF Executing, Open, Refunded
    <3>2. CASE status \notin Open
      BY <1>0, <2>4, <3>2 DEF ClaimRefund
    <3> QED
      BY <3>1, <3>2
  <2>5. CASE DeductRefund(w)
    <3>1. pc[w] = "deduct" /\ status' = status /\ taken = lost /\ status = "REFUNDING"
      BY <2>2, <2>5 DEF DeductRefund, Executing
    <3>2. \A v \in Admins : v # w => pc'[v] = pc[v] /\ pc[v] \notin Executing
      BY <2>3, <2>5, <3>1 DEF DeductRefund, AbortDeduction, Executing
    <3>3. \/ pc'[w] = "refund" /\ taken' - lost' = plan'[w].want
          \/ pc'[w] = "restore" /\ taken' = lost'
      <4>1. CASE plan' = [plan EXCEPT ![w].want = 0] /\ pc'[w] = "refund"
                   /\ taken' = taken /\ lost' = lost
        BY <2>1, <3>1, <4>1 DEF Plans
      <4>2. CASE pc'[w] = "refund" /\ \E d \in Deductions(plan[w].want), r \in BOOLEAN :
                  /\ plan' = [plan EXCEPT ![w].want = d, ![w].revoked = r]
                  /\ taken' = taken + d /\ lost' = lost
        <5>1. PICK d \in Deductions(plan[w].want), r \in BOOLEAN :
                  /\ plan' = [plan EXCEPT ![w].want = d, ![w].revoked = r]
                  /\ taken' = taken + d /\ lost' = lost
          BY <4>2
        <5>2. d \in Int
          BY <2>1, DeductionsBound
        <5>3. taken' - lost' = d
          BY <2>1, <3>1, <5>1, <5>2
        <5>4. plan'[w].want = d
          BY <5>1 DEF Plans
        <5> QED
          BY <4>2, <5>3, <5>4
      <4>3. CASE pc'[w] = "restore" /\ \E d : taken' = taken + d /\ lost' = lost + d
        BY <3>1, <4>3
      <4> QED
        BY <2>5, <4>1, <4>2, <4>3 DEF DeductRefund, AbortDeduction
    <3> QED
      BY <3>1, <3>2, <3>3 DEF Executing, Open, Refunded
  <2>6. CASE gwRefund(w)
    <3>1. pc[w] = "refund" /\ UNCHANGED <<status, refundAmt, taken, lost, plan>>
      BY <2>6 DEF gwRefund
    <3>2. \E s \in {"ok", "giveback", "rollback"} : pc' = [pc EXCEPT ![w] = s]
      BY <2>6 DEF gwRefund
    <3> QED
      BY <1>0, <3>1, <3>2
  <2>7. CASE markRefundOk(w)
    <3>1. taken - lost <= Cap(plan[w].amt)
      BY <2>7 DEF markRefundOk, PlanInv
    <3>2. pc[w] \in Executing /\ status = "REFUNDING"
      BY <2>2, <2>7 DEF markRefundOk, Executing
    <3>3. taken' = taken /\ lost' = lost /\ pc' = [pc EXCEPT ![w] = "idle"] /\ plan' = plan
      BY <2>7 DEF markRefundOk
    <3>4. \/ status' \in Refunded /\ refundAmt' = plan[w].amt
          \/ status' = status
      BY <2>7 DEF markRefundOk, FinalStatus, Refunded
    <3> QED
      BY <1>0, <3>1, <3>2, <3>3, <3>4 DEF Cap, Open, Refunded
  <2>8. CASE handleGwFail(w)
    <3>1. pc[w] = "rollback" /\ ~plan[w].revoked /\ taken - lost = plan[w].want
      BY <2>8 DEF handleGwFail, PlanInv
    <3>2. pc' = [pc EXCEPT ![w] = "restore"] /\ taken' = taken - plan[w].want
          /\ lost' = lost
      BY <2>8, <3>1 DEF handleGwFail, RollbackRefund, Benign
    <3>3. UNCHANGED <<status, refundAmt, plan>>
      BY <2>8 DEF handleGwFail
    <3>4. taken' = lost' /\ status = "REFUNDING"
      BY <2>1, <2>2, <3>1, <3>2 DEF Executing
    <3>5. \A v \in Admins : v # w => pc[v] \notin Executing
      BY <2>3, <3>1 DEF Executing
    <3> QED
      BY <3>2, <3>3, <3>4, <3>5 DEF Executing, Open, Refunded
  <2>9. CASE restoreStatus(w)
    <3>1. pc[w] = "restore" /\ taken = lost /\ taken' = lost' /\ plan' = plan /\ refundAmt' = refundAmt
      BY <2>9 DEF restoreStatus
    <3>2. pc' = [pc EXCEPT ![w] = "idle"] /\ status' \notin Refunded
      BY <2>2, <2>9 DEF restoreStatus, Refunded, Executing
    <3>3. \A v \in Admins : v # w => pc[v] \notin Executing
      BY <2>3, <3>1 DEF Executing
    <3> QED
      BY <3>1, <3>2, <3>3 DEF Executing
  <2>10. CASE markRefundFailed(w) \/ finalizeRefundFailed(w)
    BY <2>10 DEF markRefundFailed, finalizeRefundFailed, LockInv
  <2>11. CASE markRefundPending(w)
    <3>1. CASE pc[w] = "giveback"
      <4>1. ~plan[w].revoked /\ taken - lost = plan[w].want
        BY <3>1 DEF PlanInv
      <4>2. pc' = [pc EXCEPT ![w] = "pending"] /\ taken' = taken - plan[w].want
          /\ lost' = lost
        BY <2>11, <3>1, <4>1 DEF markRefundPending, RollbackRefund, Benign
      <4>3. UNCHANGED <<status, refundAmt, plan>>
        BY <2>11, <3>1 DEF markRefundPending
      <4>4. taken' = lost' /\ status = "REFUNDING"
        BY <2>1, <2>2, <3>1, <4>1, <4>2 DEF Executing
      <4>5. \A v \in Admins : v # w => pc[v] \notin Executing
        BY <2>3, <3>1 DEF Executing
      <4> QED
        BY <4>2, <4>3, <4>4, <4>5 DEF Executing, Open, Refunded
    <3>2. CASE pc[w] # "giveback"
      <4>1. pc[w] = "pending" /\ taken = lost /\ taken' = lost' /\ plan' = plan
        BY <2>11, <3>2 DEF markRefundPending, LockInv
      <4>2. pc' = [pc EXCEPT ![w] = "idle"] /\ status' \notin Refunded
        BY <2>2, <2>11, <3>2, <4>1 DEF markRefundPending, Refunded, Executing
      <4>3. \A v \in Admins : v # w => pc[v] \notin Executing
        BY <2>3, <4>1 DEF Executing
      <4> QED
        BY <4>1, <4>2, <4>3 DEF Executing
    <3> QED
      BY <3>1, <3>2
  <2>12. CASE QueryRefund(w)
    BY <1>0, <2>12 DEF QueryRefund
  <2>13. CASE finalizePendingRefundSuccess(w)
    <3>1. pc[w] = "finalize" /\ pc' = [pc EXCEPT ![w] = "idle"] /\ plan' = plan
      BY <2>13 DEF finalizePendingRefundSuccess
    <3>4. lost' = lost
      BY <2>13 DEF finalizePendingRefundSuccess
    <3>2. CASE UNCHANGED <<status, refundAmt, taken>>
      BY <1>0, <3>1, <3>2, <3>4
    <3>3. CASE /\ status = "REFUND_PENDING"
               /\ status' = FinalStatus(plan[w].amt) /\ refundAmt' = plan[w].amt
               /\ \E d \in Deductions(plan[w].want) : taken' = taken + d
      <4>1. \A v \in Admins : pc[v] \notin Executing
        BY <2>2, <3>3
      <4>2. taken = lost /\ status' \in Refunded
        BY <3>3 DEF Open, FinalStatus, Refunded
      <4>3. taken' \in Int /\ taken' - lost' <= plan[w].want
        BY <2>1, <3>3, <3>4, <4>2, DeductionsBound
      <4>4. plan[w].want <= Cap(plan[w].amt)
        BY <3>1 DEF PlanInv
      <4>5. taken' - lost' <= Cap(plan[w].amt)
        BY <2>1, <3>4, <4>3, <4>4, AmountAssumption DEF AmountAssumption, Cap, Amounts
      <4> QED
        BY <1>0, <3>1, <3>3, <3>4, <4>1, <4>2, <4>5 DEF Cap, Executing, Open, Refunded
    <3> QED
      BY <2>13, <3>2, <3>3 DEF finalizePendingRefundSuccess
  <2> QED
    BY <1>4, <2>4, <2>5, <2>6, <2>7, <2>8, <2>9, <2>10, <2>11, <2>12, <2>13 DEF Continue
<1> QED
  BY <1>1, <1>2, <1>3, <1>4 DEF Next

\* The invariant of overlapping refunds holds in every benign behaviour.
LEMMA BenignInvariance == Spec => [](TypeInv /\ (Benign => BenignInv))
<1>1. TypeInv /\ (Benign => BenignInv) /\ [Next]_vars => (Benign => BenignInv)'
  <2> SUFFICES ASSUME TypeInv, Benign => BenignInv, [Next]_vars, Benign'
               PROVE  BenignInv'
    OBVIOUS
  <2>1. Benign
    BY NextFixed DEF fixed, Benign
  <2> QED
    BY <2>1, NextLockInv, NextPlanInv, NextMoneyInv DEF BenignInv
<1> QED
  BY <1>1, InitTypeInv, InitBenignInv, NextTypeInv, PTL DEF Spec

\* However many administrators refund, query and finalize one order at once,
\* and whatever crashes or times out, at most one is between the claim of
\* ExecuteRefund and its final write, as long as giving back works and the
\* provider keeps the refunds it accepted.
THEOREM RefundsAreExclusive == Spec => []OneExecutor
<1>1. (Benign => BenignInv) => OneExecutor
  BY DEF BenignInv, LockInv, OneExecutor
<1> QED
  BY <1>1, BenignInvariance, PTL

\* Under the same conditions a failed or pending attempt has returned what it
\* took once the order is open again: what is still held back from the user
\* was taken by deductions that reported an error although they were made.
THEOREM OpenOrdersHoldNothing == Spec => []NothingHeldWhenOpen
<1>1. (Benign => BenignInv) => NothingHeldWhenOpen
  BY DEF BenignInv, NothingHeldWhenOpen
<1> QED
  BY <1>1, BenignInvariance, PTL

\* Under the same conditions a refunded order has cost its user at most its
\* refund and what such deductions took, however ExecuteRefund and
\* QueryAndFinalizeRefund overlap.
THEOREM RefundsTakeOnce == Spec => []RefundedTakesOnce
<1>1. (Benign => BenignInv) => RefundedTakesOnce
  BY DEF BenignInv, RefundedTakesOnce
<1> QED
  BY <1>1, BenignInvariance, PTL

\* Under the same conditions a refunded order is never reopened or charged
\* again: no stale request gets past its claim.
THEOREM RefundedStaysRefunded == Spec => RefundedIsFinal
<1>1. ASSUME TypeInv, Benign => BenignInv, [Next]_vars, Benign, status \in Refunded
      PROVE  status' = status /\ taken' = taken
  <2>1. \A w \in Admins : pc[w] \notin Executing \cup {"declined"}
    BY <1>1 DEF BenignInv, LockInv, Refunded
  <2>2. status \notin Open
    BY <1>1 DEF Refunded, Open
  <2>3. ASSUME RequestRefund \/ SettleRefund \/ UNCHANGED vars
        PROVE status' = status /\ taken' = taken
    BY <2>2, <2>3 DEF RequestRefund, SettleRefund, vars, order, Open
  <2>4. ASSUME NEW w \in Admins, PrepareRefund(w) \/ ReadPending(w) \/ Crash(w)
        PROVE status' = status /\ taken' = taken
    BY <2>4 DEF PrepareRefund, ReadPending, Crash, order
  <2>5. ASSUME NEW w \in Admins, Continue(w)
        PROVE status' = status /\ taken' = taken
    <3>1. ClaimRefund(w) \/ QueryRefund(w) \/ finalizePendingRefundSuccess(w)
      BY <2>1, <2>5 DEF Continue, Executing, DeductRefund, gwRefund, markRefundOk,
           handleGwFail, restoreStatus, markRefundFailed, markRefundPending,
           finalizeRefundFailed
    <3> QED
      BY <2>2, <3>1 DEF ClaimRefund, QueryRefund, finalizePendingRefundSuccess, order, Open
  <2> QED
    BY <1>1, <2>3, <2>4, <2>5 DEF Next
<1>2. TypeInv /\ (Benign => BenignInv) /\ [Next]_vars
        => [(Benign /\ status \in Refunded) => (status' = status /\ taken' = taken)]_vars
  BY <1>1
<1> QED
  BY <1>2, BenignInvariance, PTL DEF Spec, RefundedIsFinal

=============================================================================
