---------------------------- MODULE PaymentOrder ----------------------------
(***************************************************************************)
(* The life of one payment order of backend/internal/service: creation at  *)
(* the provider, cancellation and expiry, confirmation of a payment by     *)
(* webhook or by querying the provider, and fulfilment (crediting the      *)
(* balance or assigning the subscription, then the affiliate rebate).      *)
(*                                                                         *)
(* Every handler is run by a worker (an HTTP request, an admin call or the *)
(* expiry ticker, on any instance).  A step of a worker is one database    *)
(* statement or transaction, or one provider call, with the code up to the *)
(* next one; workers interleave between steps.                             *)
(*                                                                         *)
(* Time.  The code compares updated_at with now - 5 minutes in two places  *)
(* (the lease and the grace period, both five minutes) and expires_at with *)
(* now; aged and due hold the outcome of those comparisons.                *)
(*                                                                         *)
(* Lease versions.  ent sets updated_at on EVERY update of the row, to a   *)
(* fresh microsecond timestamp, and the lease version is the updated_at a  *)
(* worker reloaded.  Versions are only compared for equality with the row, *)
(* so a worker's version is "current" or, after any later write, "lost".   *)
(***************************************************************************)
EXTENDS Naturals

CONSTANTS Workers,      \* concurrent executions of the handlers
          Types,        \* the order types of the instance
          Callers       \* the optional requests: a user's check, a cancellation,
                        \* an administrator's retry, a notification that is
                        \* repeated although it was answered

OrderTypes == {"balance", "subscription"}

ASSUME TypesAssumption == Types \subseteq OrderTypes
ASSUME CallersAssumption == Callers \subseteq {"verify", "cancel", "retry", "repeat"}

VARIABLES
  status,     \* payment_orders.status
  otype,      \* payment_orders.order_type
  tradeNo,    \* the provider's own trade number is stored in payment_trade_no
  paidAt,     \* payment_orders.paid_at is set
  aged,       \* updated_at <= now - 5 minutes
  due,        \* expires_at <= now
  code,       \* the order's redeem code: "none", "unused" or "used"
  credits,    \* times the user received what the order pays for
  rebates,    \* times the inviter was credited for the order
  audits,     \* rows of payment_audit_logs the code reads back, by action
  creating,   \* CreateOrder has inserted the row, invokeProvider is running
  upstream,   \* the payment at the provider
  acked,      \* the reply that made the provider stop notifying: "no" (none
              \* yet), "ok", "blind" (the handler could not read the order) or
              \* "untold" (it could not record that the payment came too late)
  calm,       \* from now on no call fails, no worker dies or stalls
  pc,         \* pc[w]: the next step of worker w
  job,        \* job[w]: the handler w runs
  lease,      \* lease[w]: state of w's lease version
  seenTrade   \* seenTrade[w]: tradeNo as it was when w read the order

orderVars == <<status, otype, tradeNo, paidAt, aged, due>>
goodsVars == <<code, credits, rebates, audits>>
envVars == <<creating, upstream, acked, calm>>
workerVars == <<pc, job, lease, seenTrade>>
vars == <<orderVars, goodsVars, envVars, workerVars>>

Statuses == {"PENDING", "PAID", "RECHARGING", "COMPLETED", "EXPIRED",
             "CANCELLED", "FAILED"}
AuditActions == {"SUBSCRIPTION_ASSIGNED", "SUCCESS", "AFFILIATE_REBATE_APPLIED",
                 "AFFILIATE_REBATE_SKIPPED", "PAYMENT_AFTER_EXPIRY"}
Upstreams == {"none", "open", "paid", "mispaid", "closed"}
Jobs == {"none", "webhook", "check", "cancel", "expire", "retry"}

CheckSteps == {"query", "cancelPayment", "cancelUpdate", "persistTradeNo"}
PaidSteps == {"toPaid", "alreadyProcessed", "execute", "acquire", "reload"}
GoodsSteps == {"lookupCode", "createCode", "redeem", "checkAssigned", "assign"}
RebateSteps == {"checkRebate", "claimRebate"}
Steps == {"idle", "confirm", "markCompleted", "markFailed"}
           \cup CheckSteps \cup PaidSteps \cup GoodsSteps \cup RebateSteps

-----------------------------------------------------------------------------
(* Helpers                                                                 *)

\* Worker w goes on with step s.
Goto(w, s) == pc' = [pc EXCEPT ![w] = s]

\* A statement wrote the order row: a fresh updated_at makes every lease
\* version that was read before different from the row's.
Touch == /\ aged' = FALSE
         /\ lease' = [v \in Workers |->
                        IF lease[v] = "current" THEN "lost" ELSE lease[v]]

NoTouch == UNCHANGED <<aged, lease>>

\* Worker w returns.  A webhook that returns no error is answered with the
\* provider's success reply, any error with a 500, and the provider sends the
\* notification again.
Return(w, reply) ==
  /\ Goto(w, "idle")
  /\ job' = [job EXCEPT ![w] = "none"]
  /\ seenTrade' = [seenTrade EXCEPT ![w] = FALSE]
  /\ acked' = IF job[w] = "webhook" /\ acked = "no" /\ reply # "error"
              THEN reply ELSE acked

\* The same, for a worker that leaves the order row as it is.
ReturnOnly(w, reply) ==
  /\ Return(w, reply)
  /\ lease' = [lease EXCEPT ![w] = "none"]
  /\ UNCHANGED aged

\* The same, for a worker whose last statement wrote the order row.
ReturnAfterWrite(w, reply) ==
  /\ Return(w, reply)
  /\ aged' = FALSE
  /\ lease' = [v \in Workers |->
                 IF v = w THEN "none"
                 ELSE IF lease[v] = "current" THEN "lost" ELSE lease[v]]

Begin(w, j, s) ==
  /\ pc[w] = "idle"
  /\ Goto(w, s)
  /\ job' = [job EXCEPT ![w] = j]

-----------------------------------------------------------------------------
(* Creation and the payer                                                  *)

Init ==
  /\ status = "PENDING"
  /\ otype \in Types
  /\ tradeNo = FALSE /\ paidAt = FALSE /\ aged = FALSE /\ due = FALSE
  /\ code = "none" /\ credits = 0 /\ rebates = 0 /\ audits = {}
  /\ creating = TRUE /\ upstream = "none" /\ acked = "no" /\ calm = FALSE
  /\ pc = [w \in Workers |-> "idle"]
  /\ job = [w \in Workers |-> "none"]
  /\ lease = [w \in Workers |-> "none"]
  /\ seenTrade = [w \in Workers |-> FALSE]

\* invokeProvider: CreatePayment succeeded and the payment details are stored
\* (some providers return their trade number at once); the payer gets the URL.
CreateSucceeds ==
  /\ creating
  /\ creating' = FALSE
  /\ upstream' = "open"
  /\ tradeNo' \in {tradeNo, TRUE}
  /\ Touch
  /\ UNCHANGED <<status, otype, paidAt, due, acked, calm, goodsVars, pc, job,
                 seenTrade>>

\* invokeProvider failed: CreateOrder writes FAILED whatever the status is now.
CreateFails ==
  /\ creating
  /\ creating' = FALSE
  /\ status' = "FAILED"
  /\ Touch
  /\ UNCHANGED <<otype, tradeNo, paidAt, due, upstream, acked, calm, goodsVars,
                 pc, job, seenTrade>>

\* The payer pays the right amount, or another one.
Pay ==
  /\ upstream = "open"
  /\ upstream' \in {"paid", "mispaid"}
  /\ UNCHANGED <<orderVars, goodsVars, creating, acked, calm, workerVars>>

\* The process dies before invokeProvider returns: the order stays PENDING.
CreateDies ==
  /\ creating
  /\ creating' = FALSE
  /\ UNCHANGED <<orderVars, goodsVars, upstream, acked, calm, workerVars>>

\* Five minutes without a write of the order row.  Once calm, a worker that has
\* the lease does not need that long.
Age ==
  /\ ~aged
  /\ calm => \A w \in Workers : lease[w] # "current" /\ pc[w] # "reload"
  /\ aged' = TRUE
  /\ UNCHANGED <<status, otype, tradeNo, paidAt, due, goodsVars, envVars,
                 workerVars>>

\* expires_at passes, minutes after CreateOrder has returned.
BecomeDue ==
  /\ ~due /\ ~creating
  /\ due' = TRUE
  /\ UNCHANGED <<status, otype, tradeNo, paidAt, aged, goodsVars, envVars,
                 workerVars>>

\* Failures are finite: from some moment on there are none.
CalmDown ==
  /\ ~calm
  /\ calm' = TRUE
  /\ UNCHANGED <<orderVars, goodsVars, creating, upstream, acked, workerVars>>

-----------------------------------------------------------------------------
(* Entry points                                                            *)

StartUnchanged == UNCHANGED <<orderVars, goodsVars, envVars, lease>>

\* HandlePaymentNotification for a delivery, the first one or a repetition.
Webhook(w) ==
  /\ upstream \in {"paid", "mispaid"}
  /\ acked = "no" \/ "repeat" \in Callers
  /\ Begin(w, "webhook", "confirm")
  /\ UNCHANGED seenTrade
  /\ StartUnchanged

\* Reading the order before checkPaid; the copy's trade number is used later.
StartCheck(w, j) ==
  /\ Begin(w, j, "query")
  /\ seenTrade' = [seenTrade EXCEPT ![w] = tradeNo]
  /\ StartUnchanged

VerifyOrderByOutTradeNo(w) ==
  /\ "verify" \in Callers
  /\ status \in {"PENDING", "EXPIRED"}
  /\ StartCheck(w, "check")

ReconcilePendingPaymentOrders(w) ==
  /\ status = "PENDING" /\ ~due
  /\ StartCheck(w, "check")

CancelOrder(w) ==
  /\ "cancel" \in Callers
  /\ status = "PENDING"
  /\ StartCheck(w, "cancel")

ExpireTimedOutOrders(w) ==
  /\ status = "PENDING" /\ due
  /\ StartCheck(w, "expire")

\* Mutant: an administrator may retry an order nobody paid.
CanRetryWithoutPaidAt == status \in {"FAILED", "PAID", "RECHARGING"}

CanRetry == paidAt /\ status \in {"FAILED", "PAID", "RECHARGING"}

RetryFulfillment(w) ==
  /\ "retry" \in Callers
  /\ CanRetry
  /\ Begin(w, "retry", "execute")
  /\ UNCHANGED seenTrade
  /\ StartUnchanged

-----------------------------------------------------------------------------
(* checkPaid and cancelCore                                                *)

StepUnchanged ==
  UNCHANGED <<orderVars, goodsVars, envVars, job, lease, seenTrade>>

\* Mutant: expiry gives up when the provider does not report a payment.
NotPaidKeepsExpired(w, s) ==
  \/ job[w] \in {"check", "expire"} /\ ReturnOnly(w, "ok")
       /\ UNCHANGED <<status, otype, tradeNo, paidAt, due, goodsVars, creating,
                      upstream, calm>>
  \/ job[w] = "cancel" /\ Goto(w, s) /\ StepUnchanged

\* The order was not found paid: cancelCore goes on, the others return.
NotPaid(w, s) ==
  \/ job[w] = "check" /\ ReturnOnly(w, "ok")
       /\ UNCHANGED <<status, otype, tradeNo, paidAt, due, goodsVars, creating,
                      upstream, calm>>
  \/ job[w] \in {"cancel", "expire"} /\ Goto(w, s) /\ StepUnchanged

\* prov.QueryOrder.  Once the order is found paid checkPaid returns
\* already_paid whatever happens next, so the kind of caller is dropped.
QueryOrder(w) ==
  /\ pc[w] = "query"
  /\ \/ /\ upstream \in {"paid", "mispaid"}
        /\ job' = [job EXCEPT ![w] = "check"]
        /\ Goto(w, IF seenTrade[w] THEN "confirm" ELSE "persistTradeNo")
        /\ UNCHANGED <<orderVars, goodsVars, envVars, lease, seenTrade>>
     \/ /\ upstream \notin {"paid", "mispaid"}
        /\ NotPaid(w, "cancelPayment")
     \/ ~calm /\ NotPaid(w, "cancelUpdate")      \* the query fails

\* cp.CancelPayment, whose error is ignored; not every provider has it.
CancelPayment(w) ==
  /\ pc[w] = "cancelPayment"
  /\ Goto(w, "cancelUpdate")
  /\ upstream' \in {upstream, IF upstream = "open" THEN "closed" ELSE upstream}
  /\ UNCHANGED <<orderVars, goodsVars, creating, acked, calm, job, lease,
                 seenTrade>>

\* Mutant: the update does not require the order to be still pending.
CanCancelAnyStatus == TRUE

CanCancel == status = "PENDING"

\* The status ExpireTimedOutOrders and CancelOrder pass to cancelCore.
CancelStatus(w) == IF job[w] = "expire" THEN "EXPIRED" ELSE "CANCELLED"

\* cancelCore's conditional update.
CancelUpdate(w) ==
  /\ pc[w] = "cancelUpdate"
  /\ \/ /\ CanCancel
        /\ status' = CancelStatus(w)
        /\ ReturnAfterWrite(w, "ok")
     \/ ~CanCancel /\ ReturnOnly(w, "ok") /\ UNCHANGED status
  /\ UNCHANGED <<otype, tradeNo, paidAt, due, goodsVars, creating, upstream,
                 calm>>

\* The provider's trade number is stored by an update with no condition on the
\* status.  When it fails the error is logged and the handler goes on.
PersistTradeNo(w) ==
  /\ pc[w] = "persistTradeNo"
  /\ Goto(w, "confirm")
  /\ \/ tradeNo' = TRUE /\ Touch
     \/ ~calm /\ UNCHANGED tradeNo /\ NoTouch
  /\ UNCHANGED <<status, otype, paidAt, due, goodsVars, envVars, job, seenTrade>>

-----------------------------------------------------------------------------
(* Confirming the payment                                                  *)

\* confirmPayment and alreadyProcessed return nil when they cannot read the
\* order, whatever the error, and the webhook is answered with success.
ReadFails(w) ==
  /\ ~calm
  /\ ReturnOnly(w, "blind")
  /\ UNCHANGED <<status, otype, tradeNo, paidAt, due, goodsVars, creating,
                 upstream, calm>>

AmountMatches == upstream = "paid"

\* confirmPayment's checks of the notification against the order.
ConfirmPayment(w) ==
  /\ pc[w] = "confirm"
  /\ \/ AmountMatches /\ Goto(w, "toPaid") /\ StepUnchanged
     \/ /\ ~AmountMatches
        /\ ReturnOnly(w, "error")
        /\ UNCHANGED <<status, otype, tradeNo, paidAt, due, goodsVars, creating,
                       upstream, calm>>
     \/ ReadFails(w)

CanBecomePaid == \/ status \in {"PENDING", "CANCELLED"}
                 \/ status = "EXPIRED" /\ ~aged

\* toPaid's conditional update.
ToPaid(w) ==
  /\ pc[w] = "toPaid"
  /\ \/ /\ CanBecomePaid
        /\ status' = "PAID" /\ paidAt' = TRUE /\ tradeNo' = TRUE
        /\ Touch
        /\ Goto(w, "execute")
     \/ /\ ~CanBecomePaid
        /\ Goto(w, "alreadyProcessed")
        /\ NoTouch
        /\ UNCHANGED <<status, paidAt, tradeNo>>
  /\ UNCHANGED <<otype, due, goodsVars, envVars, job, seenTrade>>

\* writeAuditLog: an insert that fails is only logged.
writeAuditLog(action) ==
  \/ audits' = audits \cup {action}
  \/ ~calm /\ UNCHANGED audits

\* A payment that comes after the grace period is left to an administrator,
\* who finds it by its audit row; the answer is success with or without it.
LatePayment(w) ==
  /\ writeAuditLog("PAYMENT_AFTER_EXPIRY")
  /\ ReturnOnly(w, IF "PAYMENT_AFTER_EXPIRY" \in audits' THEN "ok" ELSE "untold")

\* alreadyProcessed reads the order again; what it does not know is answered
\* with success.
AlreadyProcessed(w) ==
  /\ pc[w] = "alreadyProcessed"
  /\ \/ /\ status \in {"FAILED", "PAID", "RECHARGING"}
        /\ Goto(w, "execute")
        /\ StepUnchanged
     \/ /\ status \notin {"FAILED", "PAID", "RECHARGING"}
        /\ \/ status = "EXPIRED" /\ LatePayment(w)
           \/ status # "EXPIRED" /\ ReturnOnly(w, "ok") /\ UNCHANGED audits
        /\ UNCHANGED <<status, otype, tradeNo, paidAt, due, code, credits,
                       rebates, creating, upstream, calm>>
     \/ ReadFails(w)

-----------------------------------------------------------------------------
(* The fulfilment lease                                                    *)

\* executeFulfillment and Execute{Balance,Subscription}Fulfillment up to the
\* lease: the status as read decides.
ExecuteFulfillment(w) ==
  /\ pc[w] = "execute"
  /\ \/ /\ status \in {"PAID", "FAILED", "RECHARGING"}
        /\ Goto(w, "acquire")
        /\ StepUnchanged
     \/ /\ status \notin {"PAID", "FAILED", "RECHARGING"}
        /\ ReturnOnly(w, IF status = "COMPLETED" THEN "ok" ELSE "error")
        /\ UNCHANGED <<status, otype, tradeNo, paidAt, due, goodsVars, creating,
                       upstream, calm>>

\* Mutant: a stale lease is never taken over.
CanAcquireFresh == status \in {"PAID", "FAILED"}

CanAcquire == \/ status \in {"PAID", "FAILED"}
              \/ status = "RECHARGING" /\ aged

\* acquirePaymentFulfillmentLease's conditional update.
AcquireLease(w) ==
  /\ pc[w] = "acquire"
  /\ \/ /\ CanAcquire
        /\ status' = "RECHARGING"
        /\ Touch
        /\ Goto(w, "reload")
        /\ UNCHANGED <<job, seenTrade, acked>>
     \/ /\ ~CanAcquire
        /\ ReturnOnly(w, IF status = "COMPLETED" THEN "ok" ELSE "error")
        /\ UNCHANGED status
  /\ UNCHANGED <<otype, tradeNo, paidAt, due, goodsVars, creating, upstream,
                 calm>>

\* The reload that gives the lease its version, and the dispatch on the type.
ReloadLease(w) ==
  /\ pc[w] = "reload"
  /\ \/ /\ status = "RECHARGING"
        /\ lease' = [lease EXCEPT ![w] = "current"]
        /\ Goto(w, IF otype = "balance" THEN "lookupCode" ELSE "checkAssigned")
        /\ UNCHANGED <<aged, job, seenTrade, acked>>
     \/ status # "RECHARGING" /\ ReturnOnly(w, "error")
  /\ UNCHANGED <<status, otype, tradeNo, paidAt, due, goodsVars, creating,
                 upstream, calm>>

-----------------------------------------------------------------------------
(* Delivering what was paid for                                            *)

\* Mutant: a code that exists is taken for a code that was redeemed.
RedeemActionExistsIsDone ==
  IF code = "none" THEN "createCode" ELSE "checkRebate"

resolveRedeemAction ==
  CASE code = "none" -> "createCode"
    [] code = "unused" -> "redeem"
    [] code = "used" -> "checkRebate"

\* doBalance: GetByCode.
LookupCode(w) ==
  /\ pc[w] = "lookupCode"
  /\ Goto(w, resolveRedeemAction)
  /\ StepUnchanged

\* CreateCode; redeem_codes.code is unique, so only one creation succeeds.
CreateCode(w) ==
  /\ pc[w] = "createCode"
  /\ \/ code = "none" /\ code' = "unused" /\ Goto(w, "redeem")
     \/ code # "none" /\ UNCHANGED code /\ Goto(w, "markFailed")
  /\ UNCHANGED <<orderVars, credits, rebates, audits, envVars, job, lease,
                 seenTrade>>

\* Mutant: the code is marked used without the WHERE status = 'unused'.
CanUseAny == code # "none"

CanUse == code = "unused"

\* redeemForPaymentFulfillment: one transaction marks the code used and adds
\* the amount to the balance.  The reply to its commit may be lost.
Redeem(w) ==
  /\ pc[w] = "redeem"
  /\ \/ /\ CanUse
        /\ code' = "used"
        /\ credits' = credits + 1
        /\ \/ Goto(w, "checkRebate")
           \/ ~calm /\ Goto(w, "markFailed")
     \/ ~CanUse /\ UNCHANGED <<code, credits>> /\ Goto(w, "markFailed")
  /\ UNCHANGED <<orderVars, rebates, audits, envVars, job, lease, seenTrade>>

\* ensurePaymentSubscriptionAssigned: the transaction's check of the audit.
CheckAssigned(w) ==
  /\ pc[w] = "checkAssigned"
  /\ Goto(w, IF audits \cap {"SUBSCRIPTION_ASSIGNED", "SUCCESS"} # {}
             THEN "checkRebate" ELSE "assign")
  /\ StepUnchanged

CanAssign == "SUBSCRIPTION_ASSIGNED" \notin audits

\* The rest of the transaction: the subscription is assigned or extended and
\* the unique audit row inserted; on a conflict all of it is rolled back and
\* the other worker's assignment counts.
Assign(w) ==
  /\ pc[w] = "assign"
  /\ \/ /\ CanAssign
        /\ audits' = audits \cup {"SUBSCRIPTION_ASSIGNED"}
        /\ credits' = credits + 1
        /\ \/ Goto(w, "checkRebate")
           \/ ~calm /\ Goto(w, "markFailed")
     \/ ~CanAssign /\ UNCHANGED <<audits, credits>> /\ Goto(w, "checkRebate")
  /\ UNCHANGED <<orderVars, code, rebates, envVars, job, lease, seenTrade>>

-----------------------------------------------------------------------------
(* The affiliate rebate                                                    *)

\* The INSERT ... WHERE NOT EXISTS of the claim, as of its snapshot.
CheckRebate(w) ==
  /\ pc[w] = "checkRebate"
  /\ Goto(w, IF audits \cap {"AFFILIATE_REBATE_APPLIED",
                             "AFFILIATE_REBATE_SKIPPED"} # {}
             THEN "markCompleted" ELSE "claimRebate")
  /\ StepUnchanged

CanClaim == "AFFILIATE_REBATE_APPLIED" \notin audits

\* The claim's insert and the rest of its transaction: the rebate is accrued
\* (APPLIED), or there is none and the row is renamed to SKIPPED, which fails
\* when a SKIPPED row was committed since the snapshot.
ClaimRebate(w) ==
  /\ pc[w] = "claimRebate"
  /\ \/ /\ CanClaim
        /\ rebates' = rebates + 1
        /\ audits' = audits \cup {"AFFILIATE_REBATE_APPLIED"}
        /\ \/ Goto(w, "markCompleted")
           \/ ~calm /\ Goto(w, "markFailed")
     \/ /\ CanClaim
        /\ UNCHANGED rebates
        /\ audits' = audits \cup {"AFFILIATE_REBATE_SKIPPED"}
        /\ Goto(w, IF "AFFILIATE_REBATE_SKIPPED" \in audits
                   THEN "markFailed" ELSE "markCompleted")
     \/ ~CanClaim /\ UNCHANGED <<rebates, audits>> /\ Goto(w, "markCompleted")
  /\ UNCHANGED <<orderVars, code, credits, envVars, job, lease, seenTrade>>

-----------------------------------------------------------------------------
(* Completion and failure                                                  *)

\* Mutant: the update has no condition besides the order's id.
HoldsLeaseUnchecked(w) == TRUE

HoldsLease(w) == status = "RECHARGING" /\ lease[w] = "current"

MarkCompleted(w) ==
  /\ pc[w] = "markCompleted"
  /\ \/ /\ HoldsLease(w)
        /\ status' = "COMPLETED"
        /\ writeAuditLog("SUCCESS")
        /\ ReturnAfterWrite(w, "ok")
     \/ /\ ~HoldsLease(w)
        /\ status = "COMPLETED"
        /\ ReturnOnly(w, "ok")
        /\ UNCHANGED <<status, audits>>
     \/ /\ ~HoldsLease(w)
        /\ status # "COMPLETED"
        /\ Goto(w, "markFailed")
        /\ UNCHANGED <<status, audits, acked, aged, lease, job, seenTrade>>
  /\ UNCHANGED <<otype, tradeNo, paidAt, due, code, credits, rebates, creating,
                 upstream, calm>>

MarkFailed(w) ==
  /\ pc[w] = "markFailed"
  /\ \/ HoldsLease(w) /\ status' = "FAILED" /\ ReturnAfterWrite(w, "error")
     \/ ~HoldsLease(w) /\ UNCHANGED status /\ ReturnOnly(w, "error")
  /\ UNCHANGED <<otype, tradeNo, paidAt, due, goodsVars, creating, upstream,
                 calm>>

-----------------------------------------------------------------------------
(* Failures                                                                *)

\* A call made under the lease fails: the error goes to markFailed.
FulfillmentError(w) ==
  /\ ~calm
  /\ pc[w] \in GoodsSteps \cup RebateSteps \cup {"markCompleted"}
  /\ Goto(w, "markFailed")
  /\ StepUnchanged

\* The process dies or the request is cancelled (then every later statement
\* fails too), or a call outside the lease fails: the handler stops here.
Abort(w) ==
  /\ ~calm
  /\ pc[w] # "idle"
  /\ ReturnOnly(w, "error")
  /\ UNCHANGED <<status, otype, tradeNo, paidAt, due, goodsVars, creating,
                 upstream, calm>>

-----------------------------------------------------------------------------
Start(w) ==
  \/ Webhook(w)
  \/ VerifyOrderByOutTradeNo(w)
  \/ ReconcilePendingPaymentOrders(w)
  \/ CancelOrder(w)
  \/ ExpireTimedOutOrders(w)
  \/ RetryFulfillment(w)

Step(w) ==
  \/ QueryOrder(w) \/ CancelPayment(w) \/ CancelUpdate(w) \/ PersistTradeNo(w)
  \/ ConfirmPayment(w) \/ ToPaid(w) \/ AlreadyProcessed(w)
  \/ ExecuteFulfillment(w) \/ AcquireLease(w) \/ ReloadLease(w)
  \/ LookupCode(w) \/ CreateCode(w) \/ Redeem(w)
  \/ CheckAssigned(w) \/ Assign(w)
  \/ CheckRebate(w) \/ ClaimRebate(w)
  \/ MarkCompleted(w) \/ MarkFailed(w)

Fault(w) == FulfillmentError(w) \/ Abort(w)

Environment == \/ CreateSucceeds \/ CreateFails \/ CreateDies
               \/ Pay \/ Age \/ BecomeDue \/ CalmDown

Next ==
  \/ Environment
  \/ \E w \in Workers : Start(w) \/ Step(w) \/ Fault(w)

Spec == Init /\ [][Next]_vars

(***************************************************************************)
(* Fairness.  Time passes and failures end; a handler that was started     *)
(* runs on; the provider repeats a notification until it is answered with  *)
(* success; the expiry ticker runs every minute.  Nothing is assumed of    *)
(* users and administrators.  Deliveries and ticks are strongly fair: they *)
(* find a free worker again and again, not continuously.                   *)
(***************************************************************************)
Fairness ==
  /\ WF_vars(Age) /\ WF_vars(BecomeDue) /\ WF_vars(CalmDown)
  /\ WF_vars(CreateSucceeds \/ CreateFails \/ CreateDies)
  /\ \A w \in Workers : WF_vars(Step(w))
  /\ SF_vars(acked = "no" /\ \E w \in Workers : Webhook(w))
  /\ SF_vars(\E w \in Workers : ExpireTimedOutOrders(w))

FairSpec == Spec /\ Fairness

-----------------------------------------------------------------------------
(* Properties                                                              *)

\* The types of the two-valued variables and of the others.
FlagsOK == /\ tradeNo \in BOOLEAN /\ paidAt \in BOOLEAN
           /\ aged \in BOOLEAN /\ due \in BOOLEAN
           /\ creating \in BOOLEAN /\ calm \in BOOLEAN

DataOK == /\ status \in Statuses /\ otype \in OrderTypes
          /\ upstream \in Upstreams /\ acked \in {"no", "ok", "blind", "untold"}
          /\ code \in {"none", "unused", "used"}
          /\ credits \in Nat /\ rebates \in Nat /\ audits \subseteq AuditActions

WorkersOK == /\ pc \in [Workers -> Steps] /\ job \in [Workers -> Jobs]
             /\ lease \in [Workers -> {"none", "current", "lost"}]
             /\ seenTrade \in [Workers -> BOOLEAN]

\* Every variable has its type.
TypeOK == FlagsOK /\ DataOK /\ WorkersOK

\* However many notifications, checks and retries overlap, whatever fails and
\* however often the lease is taken over while its holder still runs, the
\* user gets what the order pays for at most once, and so does the inviter.
DeliveredAtMostOnce == credits <= 1 /\ rebates <= 1

\* Nothing is delivered for an order whose payer did not pay the right amount:
\* in particular not when an administrator retries an order that became FAILED
\* because the provider refused to create the payment.
NoDeliveryWithoutPayment == credits > 0 => upstream = "paid"

\* A COMPLETED order was delivered and its rebate decided, although the worker
\* that marks it may not be the one that did either.
CompletedIsDelivered ==
  status = "COMPLETED" =>
    /\ credits = 1
    /\ audits \cap {"AFFILIATE_REBATE_APPLIED", "AFFILIATE_REBATE_SKIPPED"} # {}

PaidStatuses == {"PAID", "RECHARGING", "COMPLETED", "FAILED"}

\* An order that is recorded as paid, or was delivered, is never cancelled or
\* expired, although cancelCore decides on a copy of the order and on a
\* provider query that are both old when it updates the row.
PaidOrderStaysPaid == paidAt \/ credits > 0 => status \in PaidStatuses

\* No handler that is still running, whatever it read, takes an order out of
\* COMPLETED.
CompletedIsFinal == [][status = "COMPLETED" => status' = "COMPLETED"]_vars

\* A payment of the right amount ends with a COMPLETED order, or leaves the
\* PAYMENT_AFTER_EXPIRY record.  The two ways to lose it are the answers of
\* success by a handler that could not read the order, or could not write that
\* record; a fulfilment that crashed, lost its lease or failed is taken up
\* again by a repeated notification.
PaymentSettles ==
  (upstream = "paid") ~> \/ status = "COMPLETED"
                         \/ "PAYMENT_AFTER_EXPIRY" \in audits
                         \/ acked \in {"blind", "untold"}

\* An order past its expiry time does not stay PENDING, unless the provider
\* reports a payment of another amount, which checkPaid answers with
\* already_paid on every tick.
DueOrderLeavesPending ==
  (status = "PENDING" /\ due) ~> (status # "PENDING" \/ upstream = "mispaid")

=============================================================================
