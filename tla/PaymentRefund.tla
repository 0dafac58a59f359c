--------------------------- MODULE PaymentRefund ---------------------------
(***************************************************************************)
(* The refund of one completed payment order (service/payment_refund.go):  *)
(* the user asks, administrators prepare, execute, query and finalize.     *)
(* Every database statement and every provider call is a step of its own,  *)
(* so any two requests may overlap between them.                           *)
(*                                                                         *)
(* What the user owns is not modelled; `taken` is what refunds of this     *)
(* order have taken from it and not given back, in units of the order's    *)
(* amount (of its days, all of them at once, for a subscription order).    *)
(* Since other requests move the balance at will, a deduction takes        *)
(* anything up to what it asks for.                                        *)
(***************************************************************************)
EXTENDS Integers, FiniteSetsExt

CONSTANTS Admins,    \* requests that may be under way at the same time
          Amount,    \* the amount of the order
          Wealth,    \* the most refunds can take from the user, all told
          Otypes,    \* the order types to start from
          Deducts,   \* the values of deduct_balance administrators send
          Scenarios  \* the sets of things that may go wrong: "deduct" and
                     \* "rollback", the change of the balance or the days
                     \* reports an error, before or after it was made; "revoke",
                     \* the days left are fewer than those to deduct; "timeout",
                     \* the provider's answer is lost; "decline", the provider
                     \* drops a pending refund; "save", the write of a status
                     \* fails; "audit", the write or read of an audit row does;
                     \* "crash", a request stops

ASSUME AmountAssumption == Amount \in Nat \ {0}
ASSUME WealthAssumption == Wealth \in Nat
ASSUME OtypesAssumption == Otypes \subseteq {"balance", "subscription"}
ASSUME DeductsAssumption == Deducts \subseteq BOOLEAN

VARIABLES
  status,      \* payment_orders.status
  refundAmt,   \* payment_orders.refund_amount
  otype,       \* payment_orders.order_type
  traded,      \* payment_trade_no is not empty
  faults,      \* what may go wrong in this behaviour
  taken,       \* net deduction made for this order
  lost,        \* the part of it that was made by deductions reported as failed
  pendingRow,  \* the REFUND_PENDING audit row: <<>> or <<its detail>>
  rollbackRow, \* a REFUND_ROLLBACK_FAILED audit row exists
  successRow,  \* a REFUND_SUCCESS audit row exists
  gw,          \* the provider's refunds, by the amount that keys them
  pc, plan     \* per request: where it is, its RefundPlan

vars == <<status, refundAmt, otype, traded, faults, taken, lost, pendingRow,
          rollbackRow, successRow, gw, pc, plan>>
order == <<status, refundAmt>>
fixed == <<otype, traded, faults>>
rows == <<pendingRow, rollbackRow, successRow>>

Amounts == 1..Amount

(* Statuses from which an administrator may start a refund. *)
Open == {"COMPLETED", "REFUND_REQUESTED", "REFUND_PENDING", "REFUND_FAILED"}

Refunded == {"REFUNDED", "PARTIALLY_REFUNDED"}

(* Where a request inside ExecuteRefund can be after its claim. *)
Executing == {"deduct", "refund", "ok", "rollback", "restore", "failed",
              "giveback", "pending", "pendingHeld"}

(* A RefundPlan: RefundAmount, BalanceToDeduct or SubDaysToDeduct, the     *)
(* status the order was read in, whether the deduction revoked the         *)
(* subscription, and for a query the refund that the pending row names.    *)
Plans == [amt: Amounts, want: 0..Amount, snap: Open, revoked: BOOLEAN, key: Amounts]

FlagsOK == traded \in BOOLEAN /\ rollbackRow \in BOOLEAN /\ successRow \in BOOLEAN

OrderOK ==
  /\ status \in Open \cup Refunded \cup {"REFUNDING"}
  /\ refundAmt \in 0..Amount
  /\ otype \in Otypes /\ faults \in Scenarios
  /\ taken \in Int /\ lost \in Nat
  /\ pendingRow \in {<<>>} \cup {<<d>> : d \in [key: Amounts, rollbackOK: BOOLEAN]}
  /\ gw \in [Amounts -> {"none", "pending", "done", "failed"}]

RequestsOK ==
  /\ pc \in [Admins -> Executing \cup {"idle", "claim", "query", "finalize", "declined"}]
  /\ plan \in [Admins -> Plans]

TypeOK == FlagsOK /\ OrderOK /\ RequestsOK

Init ==
  /\ status = "COMPLETED" /\ refundAmt = 0
  /\ otype \in Otypes /\ traded \in BOOLEAN /\ faults \in Scenarios
  /\ taken = 0 /\ lost = 0
  /\ pendingRow = <<>> /\ rollbackRow = FALSE /\ successRow = FALSE
  /\ gw = [a \in Amounts |-> "none"]
  /\ pc = [w \in Admins |-> "idle"]
  /\ plan = [w \in Admins |-> [amt |-> Amount, want |-> 0, snap |-> "COMPLETED",
                               revoked |-> FALSE, key |-> Amount]]

-----------------------------------------------------------------------------
(* The user and the administrator's preparation.                           *)

Goto(w, step) == pc' = [pc EXCEPT ![w] = step]

(* The checks on the owner, the provider's AllowUserRefund and the balance *)
(* only refuse; the conditional update is what changes the order.          *)
RequestRefund ==
  /\ status = "COMPLETED" /\ otype = "balance"
  /\ status' = "REFUND_REQUESTED"
  /\ refundAmt' = Amount
  /\ UNCHANGED <<fixed, taken, lost, rows, gw, pc, plan>>

(* What a plan may ask to deduct: the balance seen, up to the refund; all  *)
(* days of an active subscription, or nothing when none is found (force).  *)
prepDeduct(amt) == IF otype = "balance" THEN 0..amt ELSE {0, Amount}

(* The provider must allow refunds; the amount defaults to the order's and *)
(* may not exceed it.                                                      *)
PrepareRefund(w) ==
  /\ pc[w] = "idle" /\ status \in Open
  /\ \E amt \in Amounts, deduct \in Deducts :
       \E want \in IF deduct THEN prepDeduct(amt) ELSE {0} :
         plan' = [plan EXCEPT ![w] = [amt |-> amt, want |-> want, snap |-> status,
                                      revoked |-> FALSE, key |-> amt]]
  /\ Goto(w, "claim")
  /\ UNCHANGED <<order, fixed, taken, lost, rows, gw>>

(* writeAuditLog: its failure is only logged. *)
writeAuditLog(row, old, new) ==
  row = new \/ ("audit" \in faults /\ row = old)

(* hasAuditLog answers no when it cannot read. *)
MayMissRollback == ~rollbackRow \/ "audit" \in faults

-----------------------------------------------------------------------------
(* ExecuteRefund.                                                          *)

\* Mutant: the claim does not look at the status it replaces.
ClaimRefundBlind(w) ==
  /\ pc[w] = "claim"
  /\ status' = "REFUNDING" /\ Goto(w, "deduct")
  /\ UNCHANGED <<refundAmt, fixed, taken, lost, rows, gw, plan>>

(* The conditional update to REFUNDING: whoever makes it goes on, everyone *)
(* else gets a conflict.                                                   *)
ClaimRefund(w) ==
  /\ pc[w] = "claim"
  /\ \/ /\ status \in Open
        /\ status' = "REFUNDING" /\ Goto(w, "deduct")
     \/ /\ status \notin Open
        /\ Goto(w, "idle") /\ UNCHANGED status
  /\ UNCHANGED <<refundAmt, fixed, taken, lost, rows, gw, plan>>

(* What one deduction may really take: DeductAvailableBalance takes what   *)
(* is there; a subscription loses all the days, or is revoked, or is found *)
(* to have none left.                                                      *)
Deductions(want) ==
  {d \in IF otype = "balance" THEN 0..want ELSE {want} : taken + d <= Wealth}

DeductionFails(want) == "deduct" \in faults \/ Deductions(want) = {}

\* Mutant: a failed deduction ends the request without restoring the status.
AbortDeductionGivesUp(w) == Goto(w, "idle") /\ UNCHANGED <<taken, lost, plan>>

(* The deduction reports an error and the status is to be restored. The    *)
(* error may come after the change: from the read that ends                *)
(* ExtendSubscription, the caches that end RevokeSubscription, or a reply  *)
(* that is lost. Nobody gives such a deduction back.                       *)
AbortDeduction(w) ==
  /\ \E d \in {0} \cup IF "deduct" \in faults THEN Deductions(plan[w].want) ELSE {} :
       taken' = taken + d /\ lost' = lost + d
  /\ Goto(w, "restore") /\ UNCHANGED plan

(* The deduction, skipped when an earlier rollback failed. BalanceToDeduct *)
(* becomes what was really taken, or zero when skipped.                    *)
DeductRefund(w) ==
  /\ pc[w] = "deduct"
  /\ \/ /\ plan[w].want = 0 \/ rollbackRow
        /\ plan' = [plan EXCEPT ![w].want = 0]
        /\ Goto(w, "refund") /\ UNCHANGED <<taken, lost>>
     \/ /\ plan[w].want > 0 /\ MayMissRollback
        /\ \E d \in Deductions(plan[w].want), r \in BOOLEAN :
             /\ r => otype = "subscription" /\ "revoke" \in faults
             /\ plan' = [plan EXCEPT ![w].want = d, ![w].revoked = r]
             /\ taken' = taken + d
        /\ Goto(w, "refund") /\ UNCHANGED lost
     \/ /\ plan[w].want > 0 /\ MayMissRollback /\ DeductionFails(plan[w].want)
        /\ AbortDeduction(w)
  /\ UNCHANGED <<order, fixed, rows, gw>>

(* The total the provider has refunded or will refund stays within what    *)
(* was paid: it refuses a refund that does not fit. A refund of the same   *)
(* amount is the same refund (the idempotency key holds order and amount). *)
Fits(amt) == SumSet({a \in Amounts : gw[a] \in {"pending", "done"}}) + amt <= Amount

gwAfter(amt) ==
  IF gw[amt] # "none" THEN {gw}
  ELSE {gw} \cup IF Fits(amt) THEN {[gw EXCEPT ![amt] = s] : s \in {"pending", "done"}} ELSE {}

\* Mutant: a pending answer is taken for a refund that was made.
gwRefundHasty(w) ==
  LET amt == plan[w].amt IN
  /\ pc[w] = "refund" /\ traded
  /\ gw' \in gwAfter(amt)
  /\ Goto(w, IF gw'[amt] \in {"pending", "done"} THEN "ok" ELSE "rollback")
  /\ UNCHANGED <<order, fixed, taken, lost, rows, plan>>

(* gwRefund: without a trade number there is nothing to refund; otherwise  *)
(* the provider's answer decides, and an error may hide a refund that was  *)
(* made.                                                                   *)
gwRefund(w) ==
  LET amt == plan[w].amt IN
  /\ pc[w] = "refund"
  /\ \/ /\ ~traded
        /\ Goto(w, "ok") /\ UNCHANGED gw
     \/ /\ traded
        /\ gw' \in gwAfter(amt)
        /\ \/ gw'[amt] = "done" /\ Goto(w, "ok")
           \/ gw'[amt] \in {"pending", "failed"} /\ Goto(w, "giveback")
           \/ gw'[amt] \in {"none", "failed"} /\ Goto(w, "rollback")
           \/ "timeout" \in faults /\ Goto(w, "rollback")
  /\ UNCHANGED <<order, fixed, taken, lost, rows, plan>>

(* The order and the audit row are two statements; the row is kept only if *)
(* it is the first of its kind. When the first statement fails the request *)
(* ends with the order still REFUNDING.                                    *)
FinalStatus(amt) == IF amt < Amount THEN "PARTIALLY_REFUNDED" ELSE "REFUNDED"

markRefundOk(w) ==
  /\ pc[w] = "ok"
  /\ \/ /\ status' = FinalStatus(plan[w].amt)
        /\ refundAmt' = plan[w].amt
        /\ writeAuditLog(successRow', successRow, TRUE)
     \/ "save" \in faults /\ UNCHANGED <<order, successRow>>
  /\ Goto(w, "idle")
  /\ UNCHANGED <<fixed, taken, lost, pendingRow, rollbackRow, gw, plan>>

\* Mutant: the rollback gives back what the plan refunds, not what it took.
RollbackRefundWhole(w, next, otherwise) ==
  /\ taken' = taken - plan[w].amt
  /\ Goto(w, next) /\ UNCHANGED <<lost, rollbackRow>>

\* Mutant: days that were deducted are not given back.
RollbackRefundForgetsDays(w, next, otherwise) ==
  /\ taken' = IF otype = "balance" THEN taken - plan[w].want ELSE taken
  /\ Goto(w, next) /\ UNCHANGED <<lost, rollbackRow>>

(* RollbackRefund: `next` when what was taken is given back or nothing was *)
(* taken, `otherwise` when that reports an error, which may again come     *)
(* after the change. A revoked subscription cannot be extended any more.   *)
RollbackRefund(w, next, otherwise) ==
  /\ \/ /\ plan[w].want = 0 \/ ~plan[w].revoked
        /\ taken' = taken - plan[w].want
        /\ Goto(w, next) /\ UNCHANGED rollbackRow
     \/ /\ plan[w].want > 0
        /\ \/ plan[w].revoked /\ UNCHANGED taken
           \/ /\ ~plan[w].revoked /\ "rollback" \in faults
              /\ taken' \in {taken, taken - plan[w].want}
        /\ writeAuditLog(rollbackRow', rollbackRow, TRUE)
        /\ Goto(w, otherwise)
  /\ UNCHANGED lost

(* handleGwFail *)
handleGwFail(w) ==
  /\ pc[w] = "rollback"
  /\ RollbackRefund(w, "restore", "failed")
  /\ UNCHANGED <<order, fixed, pendingRow, successRow, gw, plan>>

(* restoreStatus: unconditional, its error ignored. *)
restoreStatus(w) ==
  /\ pc[w] = "restore"
  /\ \/ status' = IF plan[w].snap = "REFUND_REQUESTED" THEN "REFUND_REQUESTED" ELSE "COMPLETED"
     \/ "save" \in faults /\ UNCHANGED status
  /\ Goto(w, "idle")
  /\ UNCHANGED <<refundAmt, fixed, taken, lost, rows, gw, plan>>

(* The other branch of handleGwFail. *)
markRefundFailed(w) ==
  /\ pc[w] = "failed"
  /\ status' = "REFUND_FAILED" \/ ("save" \in faults /\ UNCHANGED status)
  /\ Goto(w, "idle")
  /\ UNCHANGED <<refundAmt, fixed, taken, lost, rows, gw, plan>>

(* markRefundPending: what was taken is given back until the provider is   *)
(* sure, then the order is marked and the audit row tried.                 *)
markRefundPending(w) ==
  \/ /\ pc[w] = "giveback"
     /\ RollbackRefund(w, "pending", "pendingHeld")
     /\ UNCHANGED <<order, fixed, pendingRow, successRow, gw, plan>>
  \/ /\ pc[w] \in {"pending", "pendingHeld"}
     /\ \/ /\ status' = "REFUND_PENDING" /\ refundAmt' = plan[w].amt
           /\ IF pendingRow # <<>> THEN UNCHANGED pendingRow
              ELSE writeAuditLog(pendingRow', <<>>,
                     <<[key |-> plan[w].amt, rollbackOK |-> (pc[w] = "pending")]>>)
        \/ "save" \in faults /\ UNCHANGED <<order, pendingRow>>
     /\ Goto(w, "idle")
     /\ UNCHANGED <<fixed, taken, lost, rollbackRow, successRow, gw, plan>>

-----------------------------------------------------------------------------
(* QueryAndFinalizeRefund.                                                 *)

(* latestRefundPendingDetail: the row, or, when there is none or it cannot *)
(* be read, a detail that claims the deduction was rolled back and names   *)
(* no refund.                                                              *)
latestRefundPendingDetail ==
  (IF pendingRow = <<>> THEN {} ELSE {pendingRow[1]})
    \cup IF pendingRow = <<>> \/ "audit" \in faults
         THEN {[key |-> refundAmt, rollbackOK |-> TRUE]} ELSE {}

(* The order and the row are read, then the provider is asked. What the    *)
(* finalization will deduct is decided by the row: everything refunded, or *)
(* nothing. It does not depend on what the administrator asked for.        *)
ReadPending(w) ==
  /\ pc[w] = "idle" /\ status = "REFUND_PENDING"
  /\ \E detail \in latestRefundPendingDetail :
       \E want \in IF ~detail.rollbackOK THEN {0}
                  ELSE IF otype = "balance" THEN {refundAmt} ELSE prepDeduct(refundAmt) :
         plan' = [plan EXCEPT ![w] = [amt |-> refundAmt, want |-> want, snap |-> status,
                                      revoked |-> FALSE, key |-> detail.key]]
  /\ Goto(w, "query")
  /\ UNCHANGED <<order, fixed, taken, lost, rows, gw>>

QueryRefund(w) ==
  /\ pc[w] = "query"
  /\ \/ gw[plan[w].key] = "done" /\ Goto(w, "finalize")
     \/ gw[plan[w].key] = "failed" /\ Goto(w, "declined")
     \/ gw[plan[w].key] \in {"none", "pending"} /\ Goto(w, "idle")
     \/ "timeout" \in faults /\ Goto(w, "idle")
  /\ UNCHANGED <<order, fixed, taken, lost, rows, gw, plan>>

\* Mutant: the finalization does not claim the order before it deducts.
finalizeUnclaimed(w) ==
  /\ pc[w] = "finalize"
  /\ \E d \in Deductions(plan[w].want) : taken' = taken + d
  /\ status' = FinalStatus(plan[w].amt)
  /\ refundAmt' = plan[w].amt
  /\ successRow' = TRUE
  /\ Goto(w, "idle")
  /\ UNCHANGED <<fixed, lost, pendingRow, rollbackRow, gw, plan>>

(* finalizePendingRefundSuccess: one transaction, so a failed deduction or *)
(* a second REFUND_SUCCESS row undoes all of it.                           *)
finalizePendingRefundSuccess(w) ==
  /\ pc[w] = "finalize"
  /\ \/ /\ status = "REFUND_PENDING" /\ ~successRow
        /\ \E d \in Deductions(plan[w].want) : taken' = taken + d
        /\ status' = FinalStatus(plan[w].amt)
        /\ refundAmt' = plan[w].amt
        /\ successRow' = TRUE
     \/ /\ status # "REFUND_PENDING" \/ successRow \/ DeductionFails(plan[w].want)
        /\ UNCHANGED <<order, taken, successRow>>
  /\ Goto(w, "idle")
  /\ UNCHANGED <<fixed, lost, pendingRow, rollbackRow, gw, plan>>

(* finalizeRefundFailed: unconditional, whatever the order has become.     *)
finalizeRefundFailed(w) ==
  /\ pc[w] = "declined"
  /\ status' = "REFUND_FAILED" \/ ("save" \in faults /\ UNCHANGED status)
  /\ Goto(w, "idle")
  /\ UNCHANGED <<refundAmt, fixed, taken, lost, rows, gw, plan>>

-----------------------------------------------------------------------------
(* The provider settles a pending refund; a request stops.                 *)

SettleRefund ==
  /\ \E a \in Amounts :
       /\ gw[a] = "pending"
       /\ \E s \in {"done"} \cup IF "decline" \in faults THEN {"failed"} ELSE {} :
            gw' = [gw EXCEPT ![a] = s]
  /\ UNCHANGED <<order, fixed, taken, lost, rows, pc, plan>>

Crash(w) ==
  /\ "crash" \in faults /\ pc[w] # "idle"
  /\ Goto(w, "idle")
  /\ UNCHANGED <<order, fixed, taken, lost, rows, gw, plan>>

(* What a request that has begun does next. *)
Continue(w) ==
  \/ ClaimRefund(w) \/ DeductRefund(w) \/ gwRefund(w) \/ markRefundOk(w)
  \/ handleGwFail(w) \/ restoreStatus(w) \/ markRefundFailed(w)
  \/ markRefundPending(w) \/ QueryRefund(w)
  \/ finalizePendingRefundSuccess(w) \/ finalizeRefundFailed(w)

Next ==
  \/ RequestRefund \/ SettleRefund
  \/ \E w \in Admins : PrepareRefund(w) \/ ReadPending(w) \/ Continue(w) \/ Crash(w)

Spec == Init /\ [][Next]_vars

-----------------------------------------------------------------------------
(* Properties.                                                             *)

(* An order is marked refunded only if the provider made a refund for it,  *)
(* or there was no trade to refund: a pending, declined or lost answer in  *)
(* gwRefund or QueryRefund never counts.                                   *)
NoRefundWithoutGateway ==
  status \in Refunded /\ traded => \E a \in Amounts : gw[a] = "done"

(* No sequence of failures gives back more than was taken: RollbackRefund  *)
(* returns what its own attempt took and nothing else, so neither what     *)
(* another attempt took nor a deduction that was reported as failed.       *)
NeverGivesBackMore == taken >= lost

(* An order is REFUNDING only while some request is executing its refund,  *)
(* so unless one crashes or cannot write, no order is stuck in a status    *)
(* that no handler of payment_refund.go accepts.                           *)
RefundingHasOwner ==
  status = "REFUNDING" /\ faults \cap {"crash", "save"} = {}
    => \E w \in Admins : pc[w] \in Executing

(* The circumstances in which an abandoned attempt leaves nothing behind:  *)
(* giving back works, and the provider keeps the refunds it accepted.      *)
Benign == faults \cap {"rollback", "revoke", "decline"} = {}

(* At most one request is between its claim and its final write: the claim *)
(* of ExecuteRefund is a lock on the refund.                               *)
OneExecutor ==
  Benign => \A v, w \in Admins : pc[v] \in Executing /\ pc[w] \in Executing => v = w

(* While no refund is made or under way, a failed, pending or abandoned    *)
(* attempt has returned what it took. What the user still misses was taken *)
(* by deductions that reported an error although they were made, and by    *)
(* nothing else.                                                           *)
NothingHeldWhenOpen == Benign /\ status \in Open => taken = lost

(* A refunded order has cost its user no more than the refund and such     *)
(* deductions: however execution and finalization overlap, only one of     *)
(* those that reported success stands.                                     *)
RefundedTakesOnce ==
  Benign /\ status \in Refunded
    => taken - lost <= IF otype = "balance" THEN refundAmt ELSE Amount

(* A refunded order stays as it is: no late answer reopens it or takes     *)
(* from its user again.                                                    *)
RefundedIsFinal ==
  [][(Benign /\ status \in Refunded) => (status' = status /\ taken' = taken)]_vars

=============================================================================
