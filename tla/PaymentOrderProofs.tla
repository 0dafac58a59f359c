------------------------- MODULE PaymentOrderProofs -------------------------
(***************************************************************************)
(* Proofs about PaymentOrder, for any set of workers.                      *)
(***************************************************************************)
EXTENDS PaymentOrder, TLAPS

-----------------------------------------------------------------------------
(* Type correctness                                                        *)

\* The initial state of a new order is well typed.
LEMMA InitTypeOK == Init => TypeOK
<1>1. Init => FlagsOK
  BY Zenon DEF Init, FlagsOK
<1>2. Init => DataOK
  BY TypesAssumption DEF TypesAssumption, Init, DataOK, Statuses, OrderTypes,
                         Upstreams, AuditActions
<1>3. Init => WorkersOK
  BY DEF Init, WorkersOK, Steps, Jobs
<1> QED
  BY <1>1, <1>2, <1>3 DEF TypeOK

\* Every step keeps the two-valued variables of the order two-valued.
LEMMA NextFlagsOK == FlagsOK /\ [Next]_vars => FlagsOK'
<1> SUFFICES ASSUME FlagsOK, [Next]_vars PROVE FlagsOK'
  OBVIOUS
<1> USE DEF FlagsOK, orderVars, envVars
<1>1. CASE Environment
  BY <1>1, Zenon DEF Environment, CreateSucceeds, CreateFails, CreateDies, Pay, Age,
              BecomeDue, CalmDown, Touch
<1>2. ASSUME NEW w \in Workers, Start(w) PROVE FlagsOK'
  BY <1>2, Zenon DEF Start, Webhook, VerifyOrderByOutTradeNo,
              ReconcilePendingPaymentOrders, CancelOrder, ExpireTimedOutOrders,
              RetryFulfillment, StartCheck, StartUnchanged
<1>3. ASSUME NEW w \in Workers, Step(w) PROVE FlagsOK'
  <2> USE DEF ReturnOnly, ReturnAfterWrite, StepUnchanged, Touch, NoTouch
  <2>1. CASE QueryOrder(w) \/ CancelPayment(w) \/ CancelUpdate(w) \/ PersistTradeNo(w)
    BY <2>1, Zenon DEF QueryOrder, NotPaid, CancelPayment, CancelUpdate, PersistTradeNo
  <2>2. CASE ConfirmPayment(w) \/ ToPaid(w) \/ AlreadyProcessed(w)
    BY <2>2, Zenon DEF ConfirmPayment, ReadFails, ToPaid, AlreadyProcessed, LatePayment, writeAuditLog
  <2>3. CASE ExecuteFulfillment(w) \/ AcquireLease(w) \/ ReloadLease(w)
    BY <2>3, Zenon DEF ExecuteFulfillment, AcquireLease, ReloadLease
  <2>4. CASE LookupCode(w) \/ CreateCode(w) \/ Redeem(w) \/ CheckAssigned(w)
               \/ Assign(w) \/ CheckRebate(w) \/ ClaimRebate(w)
    BY <2>4, Zenon DEF LookupCode, CreateCode, Redeem, CheckAssigned, Assign, CheckRebate,
                ClaimRebate
  <2>5. CASE MarkCompleted(w) \/ MarkFailed(w)
    BY <2>5, Zenon DEF MarkCompleted, MarkFailed
  <2> QED
    BY <1>3, <2>1, <2>2, <2>3, <2>4, <2>5 DEF Step
<1>4. ASSUME NEW w \in Workers, Fault(w) PROVE FlagsOK'
  BY <1>4, Zenon DEF Fault, FulfillmentError, Abort, ReturnOnly, StepUnchanged
<1>5. CASE UNCHANGED vars
  BY <1>5, Zenon DEF vars
<1> QED
  BY <1>1, <1>2, <1>3, <1>4, <1>5 DEF Next

\* Every step keeps the types of the row, the goods and the provider's side.
LEMMA NextDataOK == DataOK /\ [Next]_vars => DataOK'
<1> SUFFICES ASSUME DataOK, [Next]_vars PROVE DataOK'
  OBVIOUS
<1> USE DEF DataOK, orderVars, goodsVars, envVars
<1>1. CASE Environment
  BY <1>1 DEF Environment, CreateSucceeds, CreateFails, CreateDies, Pay, Age,
              BecomeDue, CalmDown, Statuses, Upstreams
<1>2. ASSUME NEW w \in Workers, Start(w) PROVE DataOK'
  BY <1>2 DEF Start, Webhook, VerifyOrderByOutTradeNo,
              ReconcilePendingPaymentOrders, CancelOrder, ExpireTimedOutOrders,
              RetryFulfillment, StartCheck, StartUnchanged
<1>3. ASSUME NEW w \in Workers, Step(w) PROVE DataOK'
  <2> USE DEF Return, ReturnOnly, ReturnAfterWrite, StepUnchanged
  <2>1. CASE QueryOrder(w)
    BY <2>1 DEF QueryOrder, NotPaid
  <2>2. CASE CancelPayment(w)
    BY <2>2 DEF CancelPayment, Upstreams
  <2>3. CASE CancelUpdate(w)
    BY <2>3 DEF CancelUpdate, CancelStatus, Statuses
  <2>4. CASE PersistTradeNo(w)
    BY <2>4 DEF PersistTradeNo
  <2>5. CASE ConfirmPayment(w) \/ ToPaid(w)
    BY <2>5 DEF ConfirmPayment, ReadFails, ToPaid, Statuses
  <2>6. CASE AlreadyProcessed(w)
    BY <2>6 DEF AlreadyProcessed, LatePayment, writeAuditLog, ReadFails, AuditActions
  <2>7. CASE ExecuteFulfillment(w) \/ AcquireLease(w) \/ ReloadLease(w)
    BY <2>7 DEF ExecuteFulfillment, AcquireLease, ReloadLease, Statuses
  <2>8. CASE LookupCode(w) \/ CreateCode(w) \/ Redeem(w)
    BY <2>8 DEF LookupCode, CreateCode, Redeem
  <2>9. CASE CheckAssigned(w) \/ CheckRebate(w)
    BY <2>9 DEF CheckAssigned, CheckRebate
  <2>10. CASE Assign(w) \/ ClaimRebate(w)
    <3>1. audits' \subseteq AuditActions
      BY <2>10 DEF Assign, ClaimRebate, AuditActions
    <3>2. credits' \in Nat /\ rebates' \in Nat
      BY <2>10 DEF Assign, ClaimRebate
    <3> QED
      BY <2>10, <3>1, <3>2 DEF Assign, ClaimRebate
  <2>11. CASE MarkCompleted(w)
    BY <2>11 DEF MarkCompleted, writeAuditLog, Statuses, AuditActions
  <2>12. CASE MarkFailed(w)
    BY <2>12 DEF MarkFailed, Statuses
  <2> QED
    BY <1>3, <2>1, <2>2, <2>3, <2>4, <2>5, <2>6, <2>7, <2>8, <2>9, <2>10,
       <2>11, <2>12 DEF Step
<1>4. ASSUME NEW w \in Workers, Fault(w) PROVE DataOK'
  BY <1>4 DEF Fault, FulfillmentError, Abort, Return, ReturnOnly, StepUnchanged
<1>5. CASE UNCHANGED vars
  BY <1>5 DEF vars
<1> QED
  BY <1>1, <1>2, <1>3, <1>4, <1>5 DEF Next

\* The names of the steps that actions send a worker to.
LEMMA StepNames ==
  /\ {"idle", "confirm", "markCompleted", "markFailed"} \subseteq Steps
  /\ {"query", "cancelPayment", "cancelUpdate", "persistTradeNo"} \subseteq Steps
  /\ {"toPaid", "alreadyProcessed", "execute", "acquire", "reload"} \subseteq Steps
  /\ {"lookupCode", "createCode", "redeem", "checkAssigned", "assign"} \subseteq Steps
  /\ {"checkRebate", "claimRebate"} \subseteq Steps
BY DEF Steps, CheckSteps, PaidSteps, GoodsSteps, RebateSteps

\* Every step keeps the types of the workers' local states.
LEMMA NextWorkersOK == TypeOK /\ [Next]_vars => WorkersOK'
<1> SUFFICES ASSUME TypeOK, [Next]_vars PROVE WorkersOK'
  OBVIOUS
<1> USE StepNames DEF WorkersOK, Goto, workerVars, Touch, NoTouch
<1>0. WorkersOK /\ tradeNo \in BOOLEAN /\ code \in {"none", "unused", "used"}
  BY DEF TypeOK, FlagsOK, DataOK
<1>1. CASE Environment
  BY <1>0, <1>1 DEF Environment, CreateSucceeds, CreateFails, CreateDies, Pay, Age,
              BecomeDue, CalmDown
<1>2. ASSUME NEW w \in Workers, Start(w) PROVE WorkersOK'
  BY <1>0, <1>2 DEF Start, Webhook, VerifyOrderByOutTradeNo,
              ReconcilePendingPaymentOrders, CancelOrder, ExpireTimedOutOrders,
              RetryFulfillment, StartCheck, StartUnchanged, Begin, Jobs
<1>3. ASSUME NEW w \in Workers, Step(w) PROVE WorkersOK'
  <2> USE DEF Return, ReturnOnly, ReturnAfterWrite, StepUnchanged
  <2>1. CASE QueryOrder(w) \/ CancelPayment(w)
    <3>1. pc' \in [Workers -> Steps]
      BY <1>0, <2>1 DEF QueryOrder, NotPaid, CancelPayment
    <3>2. job' \in [Workers -> Jobs]
      BY <1>0, <2>1 DEF QueryOrder, NotPaid, CancelPayment, Jobs
    <3>3. lease' \in [Workers -> {"none", "current", "lost"}]
      BY <1>0, <2>1 DEF QueryOrder, NotPaid, CancelPayment
    <3>4. seenTrade' \in [Workers -> BOOLEAN]
      BY <1>0, <2>1 DEF QueryOrder, NotPaid, CancelPayment
    <3> QED
      BY <3>1, <3>2, <3>3, <3>4
  <2>2. CASE CancelUpdate(w) \/ PersistTradeNo(w)
    <3>1. pc' \in [Workers -> Steps]
      BY <1>0, <2>2 DEF CancelUpdate, PersistTradeNo
    <3>2. job' \in [Workers -> Jobs]
      BY <1>0, <2>2 DEF CancelUpdate, PersistTradeNo, Jobs
    <3>3. lease' \in [Workers -> {"none", "current", "lost"}]
      BY <1>0, <2>2 DEF CancelUpdate, PersistTradeNo
    <3>4. seenTrade' \in [Workers -> BOOLEAN]
      BY <1>0, <2>2 DEF CancelUpdate, PersistTradeNo
    <3> QED
      BY <3>1, <3>2, <3>3, <3>4
  <2>3. CASE ConfirmPayment(w) \/ ToPaid(w) \/ AlreadyProcessed(w)
    <3>1. pc' \in [Workers -> Steps]
      BY <1>0, <2>3 DEF ConfirmPayment, ReadFails, ToPaid, AlreadyProcessed, LatePayment, writeAuditLog
    <3>2. job' \in [Workers -> Jobs]
      BY <1>0, <2>3 DEF ConfirmPayment, ReadFails, ToPaid, AlreadyProcessed, LatePayment, writeAuditLog, Jobs
    <3>3. lease' \in [Workers -> {"none", "current", "lost"}]
      BY <1>0, <2>3 DEF ConfirmPayment, ReadFails, ToPaid, AlreadyProcessed, LatePayment, writeAuditLog
    <3>4. seenTrade' \in [Workers -> BOOLEAN]
      BY <1>0, <2>3 DEF ConfirmPayment, ReadFails, ToPaid, AlreadyProcessed, LatePayment, writeAuditLog
    <3> QED
      BY <3>1, <3>2, <3>3, <3>4
  <2>4. CASE ExecuteFulfillment(w) \/ AcquireLease(w)
    <3>1. pc' \in [Workers -> Steps]
      BY <1>0, <2>4 DEF ExecuteFulfillment, AcquireLease
    <3>2. job' \in [Workers -> Jobs]
      BY <1>0, <2>4 DEF ExecuteFulfillment, AcquireLease, Jobs
    <3>3. lease' \in [Workers -> {"none", "current", "lost"}]
      BY <1>0, <2>4 DEF ExecuteFulfillment, AcquireLease
    <3>4. seenTrade' \in [Workers -> BOOLEAN]
      BY <1>0, <2>4 DEF ExecuteFulfillment, AcquireLease
    <3> QED
      BY <3>1, <3>2, <3>3, <3>4
  <2>8. CASE ReloadLease(w)
    <3>1. pc' \in [Workers -> Steps]
      BY <1>0, <2>8 DEF ReloadLease
    <3>2. job' \in [Workers -> Jobs]
      BY <1>0, <2>8 DEF ReloadLease, Jobs
    <3>3. lease' \in [Workers -> {"none", "current", "lost"}]
      BY <1>0, <2>8 DEF ReloadLease
    <3>4. seenTrade' \in [Workers -> BOOLEAN]
      BY <1>0, <2>8 DEF ReloadLease
    <3> QED
      BY <3>1, <3>2, <3>3, <3>4
  <2>5. CASE LookupCode(w) \/ CreateCode(w) \/ Redeem(w)
    <3>1. pc' \in [Workers -> Steps]
      BY <1>0, <2>5 DEF LookupCode, resolveRedeemAction, CreateCode, Redeem
    <3>2. job' \in [Workers -> Jobs]
      BY <1>0, <2>5 DEF LookupCode, resolveRedeemAction, CreateCode, Redeem, Jobs
    <3>3. lease' \in [Workers -> {"none", "current", "lost"}]
      BY <1>0, <2>5 DEF LookupCode, resolveRedeemAction, CreateCode, Redeem
    <3>4. seenTrade' \in [Workers -> BOOLEAN]
      BY <1>0, <2>5 DEF LookupCode, resolveRedeemAction, CreateCode, Redeem
    <3> QED
      BY <3>1, <3>2, <3>3, <3>4
  <2>6. CASE CheckAssigned(w) \/ Assign(w) \/ CheckRebate(w) \/ ClaimRebate(w)
    <3>1. pc' \in [Workers -> Steps]
      BY <1>0, <2>6 DEF CheckAssigned, Assign, CheckRebate, ClaimRebate
    <3>2. job' \in [Workers -> Jobs]
      BY <1>0, <2>6 DEF CheckAssigned, Assign, CheckRebate, ClaimRebate, Jobs
    <3>3. lease' \in [Workers -> {"none", "current", "lost"}]
      BY <1>0, <2>6 DEF CheckAssigned, Assign, CheckRebate, ClaimRebate
    <3>4. seenTrade' \in [Workers -> BOOLEAN]
      BY <1>0, <2>6 DEF CheckAssigned, Assign, CheckRebate, ClaimRebate
    <3> QED
      BY <3>1, <3>2, <3>3, <3>4
  <2>7. CASE MarkCompleted(w)
    <3>1. pc' \in [Workers -> Steps]
      BY <1>0, <2>7 DEF MarkCompleted
    <3>2. job' \in [Workers -> Jobs]
      BY <1>0, <2>7 DEF MarkCompleted, Jobs
    <3>3. lease' \in [Workers -> {"none", "current", "lost"}]
      BY <1>0, <2>7 DEF MarkCompleted
    <3>4. seenTrade' \in [Workers -> BOOLEAN]
      BY <1>0, <2>7 DEF MarkCompleted
    <3> QED
      BY <3>1, <3>2, <3>3, <3>4
  <2>9. CASE MarkFailed(w)
    <3>1. pc' \in [Workers -> Steps]
      BY <1>0, <2>9 DEF MarkFailed
    <3>2. job' \in [Workers -> Jobs]
      BY <1>0, <2>9 DEF MarkFailed, Jobs
    <3>3. lease' \in [Workers -> {"none", "current", "lost"}]
      BY <1>0, <2>9 DEF MarkFailed
    <3>4. seenTrade' \in [Workers -> BOOLEAN]
      BY <1>0, <2>9 DEF MarkFailed
    <3> QED
      BY <3>1, <3>2, <3>3, <3>4
  <2> QED
    BY <1>3, <2>1, <2>2, <2>3, <2>4, <2>5, <2>6, <2>7, <2>8, <2>9 DEF Step
<1>4. ASSUME NEW w \in Workers, Fault(w) PROVE WorkersOK'
  <2>1. pc' \in [Workers -> Steps]
    BY <1>0, <1>4 DEF Fault, FulfillmentError, Abort, Return, ReturnOnly,
                       StepUnchanged
  <2>2. job' \in [Workers -> Jobs]
    BY <1>0, <1>4 DEF Fault, FulfillmentError, Abort, Return, ReturnOnly,
                       StepUnchanged, Jobs
  <2>3. lease' \in [Workers -> {"none", "current", "lost"}]
    BY <1>0, <1>4 DEF Fault, FulfillmentError, Abort, Return, ReturnOnly,
                       StepUnchanged
  <2>4. seenTrade' \in [Workers -> BOOLEAN]
    BY <1>0, <1>4 DEF Fault, FulfillmentError, Abort, Return, ReturnOnly,
                       StepUnchanged
  <2> QED
    BY <2>1, <2>2, <2>3, <2>4
<1>5. CASE UNCHANGED vars
  BY <1>0, <1>5 DEF vars
<1> QED
  BY <1>1, <1>2, <1>3, <1>4, <1>5 DEF Next

\* In every behaviour of the payment service the variables have their types.
THEOREM TypeCorrect == Spec => []TypeOK
<1>1. TypeOK /\ [Next]_vars => TypeOK'
  BY NextFlagsOK, NextDataOK, NextWorkersOK DEF TypeOK
<1> QED
  BY InitTypeOK, <1>1, PTL DEF Spec

-----------------------------------------------------------------------------
(* The inductive invariant                                                 *)

HeldSteps == GoodsSteps \cup RebateSteps \cup {"markCompleted", "markFailed"}

\* What a payment in the right amount must precede; while CreateOrder is still
\* talking to the provider there is nothing to pay.
PaidInv ==
  /\ creating => upstream = "none"
  /\ upstream # "paid" =>
       /\ ~paidAt /\ credits = 0
       /\ status \notin {"PAID", "RECHARGING", "COMPLETED"}
       /\ \A w \in Workers : pc[w] \notin PaidSteps \cup HeldSteps

\* An order in one of the paid statuses stays in them, and so does the order
\* of a worker that has reached the fulfilment.
StatusInv ==
  /\ paidAt \/ credits > 0 => status \in PaidStatuses
  /\ \A w \in Workers : pc[w] \in HeldSteps \cup {"reload"} => status \in PaidStatuses

Delivered == IF otype = "balance" THEN code = "used"
                                  ELSE "SUBSCRIPTION_ASSIGNED" \in audits

RebateDecided == \/ "AFFILIATE_REBATE_APPLIED" \in audits
                 \/ "AFFILIATE_REBATE_SKIPPED" \in audits

\* The redeem code, or the assignment's audit row, says whether the order was
\* delivered, and the rebate's audit row whether the inviter was credited.
LedgerInv ==
  /\ credits = IF Delivered THEN 1 ELSE 0
  /\ rebates = IF "AFFILIATE_REBATE_APPLIED" \in audits THEN 1 ELSE 0
  /\ \A w \in Workers :
       /\ pc[w] \in {"lookupCode", "createCode", "redeem"} => otype = "balance"
       /\ pc[w] \in {"checkAssigned", "assign"} => otype # "balance"

\* What a worker knows from the steps it has behind it.
ProgressInv ==
  /\ status = "COMPLETED" \/ "SUCCESS" \in audits => Delivered /\ RebateDecided
  /\ \A w \in Workers :
       /\ pc[w] \in RebateSteps \cup {"markCompleted"} => Delivered
       /\ pc[w] = "markCompleted" => RebateDecided

IInv == TypeOK /\ PaidInv /\ StatusInv /\ LedgerInv /\ ProgressInv

\* A new order satisfies the invariant.
LEMMA InitIInv == Init => IInv
<1> SUFFICES ASSUME Init PROVE IInv
  OBVIOUS
<1>1. PaidInv
  BY DEF Init, PaidInv, PaidSteps, HeldSteps, GoodsSteps, RebateSteps
<1>2. StatusInv
  BY DEF Init, StatusInv, HeldSteps, GoodsSteps, RebateSteps
<1>3. LedgerInv
  BY DEF Init, LedgerInv, Delivered
<1>4. ProgressInv
  BY DEF Init, ProgressInv, RebateSteps
<1> QED
  BY InitTypeOK, <1>1, <1>2, <1>3, <1>4 DEF IInv

\* Nothing of a paid order happens before the payment.
LEMMA NextPaidInv == TypeOK /\ PaidInv /\ [Next]_vars => PaidInv'
<1> SUFFICES ASSUME TypeOK, PaidInv, [Next]_vars PROVE PaidInv'
  OBVIOUS
<1>0. pc \in [Workers -> Steps]
  BY DEF TypeOK, WorkersOK
<1> USE <1>0 DEF PaidInv, Goto, orderVars, goodsVars, envVars, workerVars
<1> USE DEF PaidSteps, HeldSteps, GoodsSteps, RebateSteps
<1>1. CASE Environment
  <2>1. CASE CreateSucceeds
    BY <2>1 DEF CreateSucceeds
  <2>2. CASE CreateFails
    BY <2>2 DEF CreateFails
  <2>3. CASE CreateDies
    BY <2>3 DEF CreateDies
  <2>4. CASE Pay
    BY <2>4 DEF Pay
  <2>5. CASE Age \/ BecomeDue \/ CalmDown
    BY <2>5 DEF Age, BecomeDue, CalmDown
  <2> QED
    BY <1>1, <2>1, <2>2, <2>3, <2>4, <2>5 DEF Environment
<1>2. ASSUME NEW w \in Workers, Start(w) PROVE PaidInv'
  BY <1>2 DEF Start, Webhook, VerifyOrderByOutTradeNo,
              ReconcilePendingPaymentOrders, CancelOrder, ExpireTimedOutOrders,
              CanRetry, RetryFulfillment, StartCheck, StartUnchanged, Begin
<1>3. ASSUME NEW w \in Workers, Step(w) PROVE PaidInv'
  <2> USE DEF Return, ReturnOnly, ReturnAfterWrite, StepUnchanged
  <2>1. CASE QueryOrder(w) \/ CancelPayment(w)
    BY <2>1 DEF QueryOrder, NotPaid, CancelPayment
  <2>2. CASE CancelUpdate(w) \/ PersistTradeNo(w)
    BY <2>2 DEF CancelUpdate, CancelStatus, PersistTradeNo
  <2>3. CASE ConfirmPayment(w)
    BY <2>3 DEF ConfirmPayment, AmountMatches, ReadFails
  <2>4. CASE ToPaid(w) \/ AlreadyProcessed(w)
    BY <2>4 DEF ToPaid, AlreadyProcessed, LatePayment, writeAuditLog, ReadFails
  <2>5. CASE ExecuteFulfillment(w) \/ AcquireLease(w) \/ ReloadLease(w)
    BY <2>5 DEF ExecuteFulfillment, AcquireLease, ReloadLease
  <2>6. CASE LookupCode(w) \/ CreateCode(w) \/ Redeem(w)
    BY <2>6 DEF LookupCode, CreateCode, Redeem
  <2>7. CASE CheckAssigned(w) \/ Assign(w)
    BY <2>7 DEF CheckAssigned, Assign
  <2>8. CASE CheckRebate(w) \/ ClaimRebate(w)
    BY <2>8 DEF CheckRebate, ClaimRebate
  <2>9. CASE MarkCompleted(w) \/ MarkFailed(w)
    BY <2>9 DEF MarkCompleted, writeAuditLog, MarkFailed
  <2> QED
    BY <1>3, <2>1, <2>2, <2>3, <2>4, <2>5, <2>6, <2>7, <2>8, <2>9 DEF Step
<1>4. ASSUME NEW w \in Workers, Fault(w) PROVE PaidInv'
  BY <1>4 DEF Fault, FulfillmentError, Abort, Return, ReturnOnly, StepUnchanged
<1>5. CASE UNCHANGED vars
  BY <1>5 DEF vars
<1> QED
  BY <1>1, <1>2, <1>3, <1>4, <1>5 DEF Next

\* An order in fulfilment cannot be cancelled or expired.
LEMMA NextStatusInv == TypeOK /\ PaidInv /\ StatusInv /\ [Next]_vars => StatusInv'
<1> SUFFICES ASSUME TypeOK, PaidInv, StatusInv, [Next]_vars PROVE StatusInv'
  OBVIOUS
<1>0. pc \in [Workers -> Steps] /\ credits \in Nat
  BY DEF TypeOK, WorkersOK, DataOK
<1> USE <1>0 DEF StatusInv, PaidStatuses, Goto, orderVars, goodsVars, envVars, workerVars
<1> USE DEF HeldSteps, GoodsSteps, RebateSteps
<1>1. CASE Environment
  <2>1. CASE CreateSucceeds
    BY <2>1 DEF CreateSucceeds
  <2>2. CASE CreateFails
    BY <2>2 DEF CreateFails
  <2>3. CASE CreateDies
    BY <2>3 DEF CreateDies
  <2>4. CASE Pay
    BY <2>4 DEF Pay
  <2>5. CASE Age \/ BecomeDue \/ CalmDown
    BY <2>5 DEF Age, BecomeDue, CalmDown
  <2> QED
    BY <1>1, <2>1, <2>2, <2>3, <2>4, <2>5 DEF Environment
<1>2. ASSUME NEW w \in Workers, Start(w) PROVE StatusInv'
  BY <1>2 DEF Start, Webhook, VerifyOrderByOutTradeNo,
              ReconcilePendingPaymentOrders, CancelOrder, ExpireTimedOutOrders,
              RetryFulfillment, StartCheck, StartUnchanged, Begin
<1>3. ASSUME NEW w \in Workers, Step(w) PROVE StatusInv'
  <2> USE DEF Return, ReturnOnly, ReturnAfterWrite, StepUnchanged
  <2>1. CASE QueryOrder(w) \/ CancelPayment(w)
    BY <2>1 DEF QueryOrder, NotPaid, CancelPayment
  <2>2. CASE CancelUpdate(w) \/ PersistTradeNo(w)
    BY <2>2 DEF CancelUpdate, CanCancel, PersistTradeNo
  <2>3. CASE ConfirmPayment(w) \/ ToPaid(w) \/ AlreadyProcessed(w)
    BY <2>3 DEF ConfirmPayment, ReadFails, ToPaid, AlreadyProcessed, LatePayment, writeAuditLog
  <2>5. CASE ExecuteFulfillment(w) \/ AcquireLease(w) \/ ReloadLease(w)
    BY <2>5 DEF ExecuteFulfillment, AcquireLease, ReloadLease
  <2>6. CASE LookupCode(w) \/ CreateCode(w) \/ Redeem(w)
    BY <2>6 DEF LookupCode, resolveRedeemAction, CreateCode, Redeem
  <2>7. CASE CheckAssigned(w) \/ Assign(w)
    BY <2>7 DEF CheckAssigned, Assign
  <2>8. CASE CheckRebate(w) \/ ClaimRebate(w)
    BY <2>8 DEF CheckRebate, ClaimRebate
  <2>9. CASE MarkCompleted(w) \/ MarkFailed(w)
    BY <2>9 DEF MarkCompleted, writeAuditLog, MarkFailed
  <2> QED
    BY <1>3, <2>1, <2>2, <2>3, <2>5, <2>6, <2>7, <2>8, <2>9 DEF Step
<1>4. ASSUME NEW w \in Workers, Fault(w) PROVE StatusInv'
  BY <1>4 DEF Fault, FulfillmentError, Abort, Return, ReturnOnly, StepUnchanged
<1>5. CASE UNCHANGED vars
  BY <1>5 DEF vars
<1> QED
  BY <1>1, <1>2, <1>3, <1>4, <1>5 DEF Next

\* The ledger agrees with the redeem code and the audit rows.
LEMMA NextLedgerInv == TypeOK /\ LedgerInv /\ [Next]_vars => LedgerInv'
<1> SUFFICES ASSUME TypeOK, LedgerInv, [Next]_vars PROVE LedgerInv'
  OBVIOUS
<1>0. pc \in [Workers -> Steps] /\ credits \in Nat /\ rebates \in Nat
  BY DEF TypeOK, WorkersOK, DataOK
<1> USE <1>0 DEF LedgerInv, Delivered, Goto, orderVars, goodsVars, envVars, workerVars
<1>1. CASE Environment
  BY <1>1 DEF Environment, CreateSucceeds, CreateFails, CreateDies, Pay, Age,
              BecomeDue, CalmDown
<1>2. ASSUME NEW w \in Workers, Start(w) PROVE LedgerInv'
  BY <1>2 DEF Start, Webhook, VerifyOrderByOutTradeNo,
              ReconcilePendingPaymentOrders, CancelOrder, ExpireTimedOutOrders,
              RetryFulfillment, StartCheck, StartUnchanged, Begin
<1>3. ASSUME NEW w \in Workers, Step(w) PROVE LedgerInv'
  <2> USE DEF Return, ReturnOnly, ReturnAfterWrite, StepUnchanged
  <2>1. CASE QueryOrder(w) \/ CancelPayment(w)
    BY <2>1 DEF QueryOrder, NotPaid, CancelPayment
  <2>2. CASE CancelUpdate(w) \/ PersistTradeNo(w)
    BY <2>2 DEF CancelUpdate, PersistTradeNo
  <2>3. CASE ConfirmPayment(w) \/ ToPaid(w) \/ AlreadyProcessed(w)
    BY <2>3 DEF ConfirmPayment, ReadFails, ToPaid, AlreadyProcessed, LatePayment, writeAuditLog
  <2>4. CASE ExecuteFulfillment(w) \/ AcquireLease(w) \/ ReloadLease(w)
    BY <2>4 DEF ExecuteFulfillment, AcquireLease, ReloadLease
  <2>5. CASE LookupCode(w)
    BY <2>5 DEF LookupCode, resolveRedeemAction, TypeOK, DataOK
  <2>6. CASE CreateCode(w) \/ Redeem(w)
    BY <2>6 DEF CreateCode, Redeem, CanUse
  <2>7. CASE CheckAssigned(w) \/ Assign(w)
    BY <2>7 DEF CheckAssigned, Assign, CanAssign
  <2>8. CASE CheckRebate(w) \/ ClaimRebate(w)
    BY <2>8 DEF CheckRebate, ClaimRebate, CanClaim
  <2>9. CASE MarkCompleted(w) \/ MarkFailed(w)
    BY <2>9 DEF MarkCompleted, writeAuditLog, MarkFailed
  <2> QED
    BY <1>3, <2>1, <2>2, <2>3, <2>4, <2>5, <2>6, <2>7, <2>8, <2>9 DEF Step
<1>4. ASSUME NEW w \in Workers, Fault(w) PROVE LedgerInv'
  BY <1>4 DEF Fault, FulfillmentError, Abort, Return, ReturnOnly, StepUnchanged
<1>5. CASE UNCHANGED vars
  BY <1>5 DEF vars
<1> QED
  BY <1>1, <1>2, <1>3, <1>4, <1>5 DEF Next

\* A worker that is past the delivery or the rebate finds them done.
LEMMA NextProgressInv ==
  TypeOK /\ LedgerInv /\ ProgressInv /\ [Next]_vars => ProgressInv'
<1> SUFFICES ASSUME TypeOK, LedgerInv, ProgressInv, [Next]_vars PROVE ProgressInv'
  OBVIOUS
<1>0. pc \in [Workers -> Steps]
  BY DEF TypeOK, WorkersOK
<1> USE <1>0 DEF ProgressInv, Delivered, RebateDecided, RebateSteps
<1> USE DEF Goto, orderVars, goodsVars, envVars, workerVars
<1>1. CASE Environment
  BY <1>1 DEF Environment, CreateSucceeds, CreateFails, CreateDies, Pay, Age,
              BecomeDue, CalmDown
<1>2. ASSUME NEW w \in Workers, Start(w) PROVE ProgressInv'
  BY <1>2 DEF Start, Webhook, VerifyOrderByOutTradeNo,
              ReconcilePendingPaymentOrders, CancelOrder, ExpireTimedOutOrders,
              RetryFulfillment, StartCheck, StartUnchanged, Begin
<1>3. ASSUME NEW w \in Workers, Step(w) PROVE ProgressInv'
  <2> USE DEF Return, ReturnOnly, ReturnAfterWrite, StepUnchanged
  <2>1. CASE QueryOrder(w) \/ CancelPayment(w)
    BY <2>1 DEF QueryOrder, NotPaid, CancelPayment
  <2>2. CASE CancelUpdate(w) \/ PersistTradeNo(w)
    BY <2>2 DEF CancelUpdate, CancelStatus, PersistTradeNo
  <2>3. CASE ConfirmPayment(w) \/ ToPaid(w) \/ AlreadyProcessed(w)
    BY <2>3 DEF ConfirmPayment, ReadFails, ToPaid, AlreadyProcessed, LatePayment, writeAuditLog
  <2>4. CASE ExecuteFulfillment(w) \/ AcquireLease(w) \/ ReloadLease(w)
    BY <2>4 DEF ExecuteFulfillment, AcquireLease, ReloadLease
  <2>5. CASE LookupCode(w)
    BY <2>5 DEF LookupCode, resolveRedeemAction, LedgerInv, TypeOK, DataOK
  <2>6. CASE CreateCode(w) \/ Redeem(w)
    BY <2>6 DEF CreateCode, Redeem, LedgerInv
  <2>7. CASE CheckAssigned(w) \/ Assign(w)
    BY <2>7 DEF CheckAssigned, Assign, CanAssign, LedgerInv
  <2>8. CASE CheckRebate(w) \/ ClaimRebate(w)
    BY <2>8 DEF CheckRebate, ClaimRebate, CanClaim
  <2>9. CASE MarkCompleted(w)
    BY <2>9 DEF MarkCompleted, writeAuditLog
  <2>10. CASE MarkFailed(w)
    BY <2>10 DEF MarkFailed
  <2> QED
    BY <1>3, <2>1, <2>2, <2>3, <2>4, <2>5, <2>6, <2>7, <2>8, <2>9, <2>10 DEF Step
<1>4. ASSUME NEW w \in Workers, Fault(w) PROVE ProgressInv'
  BY <1>4 DEF Fault, FulfillmentError, Abort, Return, ReturnOnly, StepUnchanged
<1>5. CASE UNCHANGED vars
  BY <1>5 DEF vars
<1> QED
  BY <1>1, <1>2, <1>3, <1>4, <1>5 DEF Next

\* The invariant is inductive.
LEMMA NextIInv == IInv /\ [Next]_vars => IInv'
<1>1. TypeOK /\ [Next]_vars => TypeOK'
  BY NextFlagsOK, NextDataOK, NextWorkersOK DEF TypeOK
<1> QED
  BY <1>1, NextPaidInv, NextStatusInv, NextLedgerInv, NextProgressInv DEF IInv

THEOREM Invariance == Spec => []IInv
BY InitIInv, NextIInv, PTL DEF Spec

-----------------------------------------------------------------------------
(* What it implies                                                         *)

\* Whatever overlaps and fails, an order is delivered at most once and its
\* inviter credited at most once.
THEOREM DeliveryIsExactlyOnce == Spec => []DeliveredAtMostOnce
<1>1. IInv => DeliveredAtMostOnce
  BY DEF IInv, LedgerInv, DeliveredAtMostOnce
<1> QED
  BY Invariance, <1>1, PTL

\* Only a payment of the right amount leads to a delivery.
THEOREM DeliveryNeedsPayment == Spec => []NoDeliveryWithoutPayment
<1>1. IInv => NoDeliveryWithoutPayment
  BY DEF IInv, PaidInv, NoDeliveryWithoutPayment
<1> QED
  BY Invariance, <1>1, PTL

\* A completed order was delivered and its rebate decided.
THEOREM CompletionMeansDelivery == Spec => []CompletedIsDelivered
<1>1. IInv => CompletedIsDelivered
  BY DEF IInv, LedgerInv, ProgressInv, RebateDecided, CompletedIsDelivered
<1> QED
  BY Invariance, <1>1, PTL

\* No cancellation or expiry hits a paid order.
THEOREM PaidOrdersSurvive == Spec => []PaidOrderStaysPaid
<1>1. IInv => PaidOrderStaysPaid
  BY DEF IInv, StatusInv, PaidOrderStaysPaid
<1> QED
  BY Invariance, <1>1, PTL

\* COMPLETED is final for every handler of this module.
THEOREM CompletionIsFinal == Spec => CompletedIsFinal
<1>1. IInv /\ [Next]_vars => [status = "COMPLETED" => status' = "COMPLETED"]_vars
  <2> SUFFICES ASSUME IInv, Next, status = "COMPLETED" PROVE status' = "COMPLETED"
    OBVIOUS
  <2>1. ~creating
    BY DEF IInv, PaidInv
  <2> USE DEF orderVars, goodsVars, envVars, workerVars
  <2>2. CASE Environment
    BY <2>1, <2>2 DEF Environment, CreateSucceeds, CreateFails, CreateDies, Pay, Age,
                      BecomeDue, CalmDown
  <2>3. ASSUME NEW w \in Workers, Start(w) PROVE status' = "COMPLETED"
    BY <2>3 DEF Start, Webhook, VerifyOrderByOutTradeNo,
                ReconcilePendingPaymentOrders, CancelOrder, ExpireTimedOutOrders,
                RetryFulfillment, StartCheck, StartUnchanged
  <2>4. ASSUME NEW w \in Workers, Step(w) PROVE status' = "COMPLETED"
    BY <2>4 DEF Step, StepUnchanged, QueryOrder, NotPaid, CancelPayment, CancelUpdate,
                CanCancel, PersistTradeNo, ConfirmPayment, ReadFails, ToPaid,
                CanBecomePaid, AlreadyProcessed, LatePayment, ExecuteFulfillment, AcquireLease,
                CanAcquire, ReloadLease, LookupCode, CreateCode, Redeem,
                CheckAssigned, Assign, CheckRebate, ClaimRebate, MarkCompleted,
                MarkFailed, HoldsLease
  <2>5. ASSUME NEW w \in Workers, Fault(w) PROVE status' = "COMPLETED"
    BY <2>5 DEF Fault, FulfillmentError, Abort, StepUnchanged
  <2> QED
    BY <2>2, <2>3, <2>4, <2>5 DEF Next
<1> QED
  BY Invariance, <1>1, PTL DEF Spec, CompletedIsFinal

=============================================================================
