# Sub2API: a TLA+ verification project

Sub2API (`src/`) is a gateway that distributes the quota of AI subscriptions: users buy
balance or subscriptions, call models through the gateway with API keys, and are billed
for what they use. The backend is Go (`src/backend/internal`), on PostgreSQL (through
ent) and Redis, and is meant to run in several instances at once. The hard part of the
system is not the protocol conversion but money and leases: what several requests,
tickers and instances do to the same row, and what is left when one of them stops half
way. That is what the modules here model.

All paths below are relative to `src/backend/internal` unless they start with `src/`.

## 1. Inventory

| Component | State it keeps | Operations | What is hard | What makes it correct |
|---|---|---|---|---|
| Payment orders and fulfilment (`service/payment_order.go`, `payment_order_lifecycle.go`, `payment_fulfillment.go`, `payment_order_expiry_service.go`, `handler/payment_webhook_handler.go`) | `payment_orders` (status, `updated_at` as lease version and grace clock, `paid_at`, trade number), `payment_audit_logs` (unique per order and action), `redeem_codes`, subscriptions | create, cancel, expire, reconcile, verify, webhook, fulfil, retry | duplicated and late webhooks, lease takeover, stale copies across provider calls, failure between the credit and the status | delivered exactly once, only if paid; completed means delivered; a paid order is not cancelled; payments settle |
| Payment refunds (`service/payment_refund.go`) | order status, refund audit rows, user balance or subscription days, the provider's refund | request, prepare, execute, query and finalize, roll back | gateway outcome unknown, rollback that fails, two administrators at once | never refunds more than was paid; balance is taken exactly once for a refunded order |
| Redeem codes (`service/redeem_service.go`, `repository/redeem_code_repo.go`) | `redeem_codes.status`, a Redis lock and failure counter | create, redeem, batch update, delete | concurrent redemption of one code | a code is used once, together with its effect |
| Idempotency coordinator (`service/idempotency.go`, `repository/idempotency_repo.go`, `service/idempotency_cleanup_service.go`) | `idempotency_records` (status, fingerprint, locked_until, expires_at) | execute, reclaim, cleanup | expiry and reclaim while the first execution still runs, failing store, lost reply | an effect runs once per key while the record lives; replays return the stored response |
| Usage billing (`repository/usage_billing_repo.go`, `service/usage_billing.go`, `service/gateway_usage_billing.go`) | dedup keys and their archive, balances, frozen balances, subscription, key and account quotas | apply, reserve, capture, release | repeated delivery of one usage event, different payload under one key | one charge per request id; frozen money is neither lost nor duplicated |
| Batch image jobs (`service/batch_image_*.go`, `repository/batch_image_repo.go`) | job and item status, queue, hold, settlement retries | submit, process, settle, cancel, recover, clean up | crash between capture and settled, exhausted retries, stale recovery against a slow worker | a hold is either captured or released, never both |
| Concurrency slots (`service/concurrency_service.go`, `repository/concurrency_cache.go`) | Redis sorted sets of slots with expiry, wait counters | acquire, release, queue, clean up on restart | slot expiry while the request still runs, lost answers, the step from a slot to a live lease, counters and index after crashes | never more sessions at work than the limit; what was left behind goes away |
| Billing cache (`service/billing_cache_service.go`, `repository/billing_cache.go`) | cached balance, subscription and rate limits in Redis, write queue | read, deduct, invalidate | asynchronous writes against invalidation, full queue | a cached balance converges to the database |
| Scheduler snapshot and outbox (`service/scheduler_snapshot_service.go`, `repository/scheduler_outbox_repo.go`) | outbox rows, watermark, snapshot buckets in Redis | enqueue, poll, rebuild, lag handling | rows committed out of order, watermark, slow writers against the retirement of a bucket | a retired snapshot does not come back; a committed change eventually reaches the snapshot |
| Auth cache and its invalidation outbox (`service/api_key_auth_cache_impl.go`, `service/auth_cache_invalidation_outbox.go`) | entries in memory and in Redis, outbox rows with lease, stage and attempts | look up, load, store, claim, deliver, retry, deliver again | a slow request that stores what it read before a change, claim expiry, lost publication | an invalidation is delivered; no outdated entry outlives its row |
| OpenAI WebSocket pool (`service/openai_ws_pool.go`) | per-account connections, leases, waiters, dial slots | acquire, release, dial, evict, warm | dial races, waiters against eviction | bounded connections; a waiter is woken |
| OAuth token refresh (`service/oauth_refresh_api.go`, `service/token_refresh_service.go`, `service/grok_credential_failure.go`, `handler/admin/account_handler.go`) | account credentials and status, refresh lock in Redis | refresh by requests and in the background, manual refresh, reauthorise, edit | a refresh token that works once, refreshers without the lock, answers cut off after the rotation | a reauthorisation is not overwritten; a healthy account is not put in error; a due token is replaced |
| User message queue (`service/user_msg_queue_service.go`, its cache) | a Redis lock per account, last completion time | acquire, release, cleanup | lock expiry, orphaned locks | one message at a time per account |
| System operation lock (`service/system_operation_lock_service.go`) | one row of `idempotency_records` (`locked_until` as lease, the operation id as fingerprint), a renewing goroutine | acquire, renew, release | a lease that runs out while its operation works, a late release | one update, rollback or restart at a time |
| Usage record worker pool, quota flusher, leader lock (`service/usage_record_worker_pool.go`, `user_platform_quota_flusher.go`, `leader_lock.go`) | queues in memory, a lock with a TTL | submit, scale, flush | overflow policy, lock expiry mid-run | nothing accepted is dropped silently |
| Security audit and prompt workers (`securityaudit/`) | job rows with leases | enqueue, claim, finish | lease expiry | each job decided once |
| Affiliate, subscriptions, promo codes, channels, groups, accounts (`service/`) | rows with single-statement updates | CRUD | little beyond the shared tables | (left to tests) |
| Gateway forwarding and protocol conversion (`service/*gateway*.go`, `pkg/apicompat`) | none shared | convert and stream | parsing | (out of scope: data conversion) |
| Operations and monitoring (`service/ops_*.go`, `channel_monitor*`) | metrics, alerts | collect | none that affects money | (out of scope) |
| Frontend (`src/frontend`), generated ent code (`src/backend/ent`), migrations | - | - | - | (not modelled; unique indexes and update defaults are taken from them) |

Components interact through shared rows (orders, codes, balances, audit rows), through
Redis keys with a time to live, and through direct calls; there is no message broker. The
expiry, recovery and outbox tickers run on every instance behind a best-effort leader
lock, so any two handlers may overlap.

## 2. Plan

The components were taken in this order: those that move money (payment orders, refunds,
the idempotency coordinator with the system operation lock on the same store, batch image
jobs with their holds), then those that several instances share through Redis and outbox
tables (concurrency slots, scheduler snapshot, auth cache, OAuth refresh). Each was modelled
because two actors meet on its state in orders that tests do not reach.

`Idempotency` and `SystemOperationLock` are both built on `IdempotencyStore`.
`ConcurrencySlots` implements the abstract specification `Semaphore`.

What a continuation would add, in this order: an abstract "one effect per lifetime"
specification for `Idempotency`, with its refinement proved; the lapse of a job lock under a
running worker in `BatchImageJob`; the billing cache.

## 3. Modules

Every process of a model takes one database statement (or transaction), one Redis command
or one call of a provider per step, together with the code up to the next one; between two
steps anything else may happen. A lost reply is a step that takes effect and is answered
with an error.

### Payment orders: `PaymentOrder`

One order, from the insert in `CreateOrder` on. A *worker* is one execution of a handler: a
notification (`Webhook`), a user's check, a cancellation, the expiry ticker, its
reconciliation, or an administrator's retry. `pc[w]` is the next statement, `job[w]` the
handler. The steps after the start are shared as in the code: `QueryOrder`,
`CancelPayment`, `CancelUpdate`, `PersistTradeNo` are `checkPaid` and `cancelCore`;
`ConfirmPayment`, `ToPaid`, `AlreadyProcessed` are `confirmPayment` and `toPaid`;
`AcquireLease`, `ReloadLease` the two statements that take the fulfilment lease;
`LookupCode`, `CreateCode`, `Redeem` and `CheckAssigned`, `Assign` the delivery of a balance
and of a subscription; `CheckRebate`, `ClaimRebate` the affiliate rebate; `MarkCompleted`,
`MarkFailed` the end.

- *Time.* The code compares `updated_at` with five minutes ago (lease and grace period) and
  `expires_at` with now. `aged` and `due` are the outcomes of these comparisons; `Age` and
  `BecomeDue` let time pass, and every write of the row resets `aged`.
- *Lease versions.* A version is only ever compared with the row for equality, so a worker's
  version is `"current"` until the next write by anyone and `"lost"` from then on.
- *Goods.* `credits` and `rebates` count deliveries; `code` and `audits` are the guards the
  code itself uses.
- *Failures.* `FulfillmentError` is an error that runs `markFailed`, `Abort` one that ends
  the handler (a read error, a lost reply, a dead process). `calm` ends them for good; it is
  only used for liveness.
- *Provider.* `upstream` is the payment there (`mispaid`: wrong amount), `acked` the reply
  that made it stop notifying: `"ok"`, `"blind"` when the order could not be read, `"untold"`
  when the row that records a payment after the expiry could not be written
  (`writeAuditLog` only logs the error).

### Payment refunds: `PaymentRefund`

One completed order; a request of an administrator goes through `PrepareRefund` (reads the
order), the claim to `REFUNDING`, the deduction, the provider's call and one of its four
outcomes, or through `QueryAndFinalizeRefund`. What the user owns is abstracted to `taken`,
what refunds of this order hold of it: since other requests move the balance at will, a
deduction takes anything up to what it asks for, and `Wealth` bounds the sum. `gw` are the
provider's refunds by the amount that keys them. `faults` is chosen once, from `Scenarios`:
which kinds of failure occur in a behaviour. A deduction that reports an error may have been
made (`AbortDeduction`): the reply was lost, or `ExtendSubscription` and `RevokeSubscription`
failed after their write. Nobody gives it back, and a retry deducts again; `lost` is history,
the part of `taken` that went this way, and the properties about amounts speak of the rest.
`Benign` names the scenarios without a failing rollback, a revoked subscription and a declined
pending refund.

### Idempotency: `IdempotencyStore`, `Idempotency`

`IdempotencyStore` holds the SQL statements of `repository/idempotency_repo.go` as functions
of the single row a key can have; both modules below use it. `Idempotency` is `Execute` for
requests with one key, statement by statement, and the cleanup. Callers pass their own
time to the statements, read once at the start (`now`), so a slow request works with an old
one. `GiveUp` is every way to stop: a failing store, a crash, a cancelled context or an
undecodable response. `at` and `lapsed` are history: when a request became the owner, and
which records were taken over as expired. The fail-open mode of the admin handlers'
helper has no caller outside its tests and is left out.

### System operation lock: `SystemOperationLock`

`Acquire`, the renewal loop and `Release` over the same statements. The model is timed so
that an operation loses its lock only through what the code does: a renewal is punctual,
`Acquire` takes `AcquireDelay` at most, and one renewal in a row may fail (`MayMiss`).

### Batch image jobs: `BatchImageJob`

One job and the balance held for it, as one unit of money. `sub`, `can[c]`, `rec` and
`pc[w]` are the positions of `Submit`, of cancel requests, of the recovery of stale
unsubmitted jobs and of the workers. `claims` are the request ids in `usage_billing_dedup`,
`frozen` the user's frozen balance, `Others` what other jobs have in it: the statements cannot
tell them apart, which is what `OthersKept` is about. `ready`, `queue` and `lock` are the
Redis queue (list, active and delayed sets, inflight key) and the job lock. `effects` and
`dropped` are history: what the statements did with the money, and that a job's way to the
queue was cut off by a crash or an error nobody retries. A running worker renews its lock
in time; `Unlock` also stands for its death and the lapse of its lock. `retry` stops at
`MaxRetries`, beyond which the code does the same for every value. A Cancel or the recovery
may find the job before its hold is taken.

### Concurrency slots: `ConcurrencySlots`, `Semaphore`

The slots of one user or account: `slots` and `leases` are the two sorted sets, `age` and
`leaseAge` the time since a member's score, `waiting` the counter of the wait queue, `indexed`
the entry of the active index. A *session* is a gateway request or a live call; `at[s]` is
its next Redis call. A request tries, queues, tries again until it wins or gives up, runs and
releases; a live call takes a slot, asks for a lease that replaces it, heartbeats and hangs
up. Every script is one step with its purge of old members. A script's answer may be lost,
so the member stays without an owner; a release may fail; a process may stop, and the start
of another removes what is not its own (`Sweep`, `Unindex`). `ReconcileReads` and
`ReconcileWrites` are the cleanup worker, `Tick` ages the members. `inside` is history: the
sessions that were let in and whose member nobody has purged or swept. It is what
`Semaphore` calls `holders`, a set that grows by one member while it has room.

### Scheduler snapshot: `SchedulerSnapshot`

One bucket of one group. The database is the number of committed changes of accounts and of
the group (active when even) and the outbox `rows`, which get their id at the insert and
become visible at the commit. Redis is the `watermark`, the bucket's `epoch` and `retired`
mark, the `active` snapshot (as the number of account changes in it), the rebuild lock and
the lifecycle lease. The order of version numbers, which the code compares, is kept as
`behind` and `outdated`. A worker is a poller (lists rows, handles each, moves the
watermark), a full rebuild or a reader without a snapshot; the last five steps of a writer
(capture, lock, load, allocate, activate) and those of a lifecycle decision (lease, decide,
apply, unlease) are shared as in the code. `applied`, `retiredAt` and `due` are history. A row
that the cleanup deletes keeps its content in the model, for the pollers that listed it. The
definitions that `ConcurrencySlots` has too (`Init`, `Next`, `Spec`, ...) begin with `Snapshot`
here: one module has the proofs of both.

### Auth cache: `AuthCacheInvalidation`

One API key, whose content is its `version`; change r writes outbox row r in the same
transaction, as the trigger does. `l1[i]` and `l2` are the entries of instance i and of Redis,
`pc[i]` a request that looks up, copies, loads and stores, `job[i][r]` the goroutine that
delivers row r on i. A delivery deletes both entries and publishes (`mail`); the first one
reschedules the row, the second deletes it. The delay between them is a duration in the
code; here the row waits for the requests that had read and not stored at the first
delivery (`grace`): an assumption on their speed. `Forget` is the deletion right after a change,
in which the delete in Redis and the message may fail independently of each other.

### OAuth refresh: `OAuthRefresh`

One account. The credentials document is the grant it belongs to, the rotation of its
refresh token and the number of edits of its other fields; `current` is the rotation the
provider accepts of each grant. `proc[p]` is the caller that process p has inside
`RefreshIfNeeded`: acquire, re-read, call, recover after `invalid_grant` (and only then: a
refused token that goes by another name is reported at once), store, release, and then the
error status or the next attempt. Beside passing errors there are permanent ones that say
nothing of the token: a denied access, a missing entitlement, project or proxy (`CallDenied`,
`Ineligible`, `RequestDenied`, `StoreDenied`). They put the account in error too. `status` tells
the two apart, `"error"` for a refused token and `"denied"` for the others, since only the
first says something of the token; the code has one status and two messages. An error of Redis
at the acquisition may leave the lock set with nobody to release it (`AcquireDegraded`).

`admin[a]` is a request of an administrator that reads the row, perhaps calls the provider,
writes the whole row and, after a reauthorisation, clears the error. Any number of them overlap,
without a lock and without a comparison. `mishaps` is history: what has happened that the
properties except (the provider called without the lock, an answer or a store cut off, an edit
or a manual refresh that wrote the row, a reauthorisation, a failed clearing). `platform` is chosen at the start: Grok
compares documents where the others write blindly.

## 4. Runs

| Run | Checks | Shows |
|---|---|---|
| `payment_order` | `DeliveredAtMostOnce`, `NoDeliveryWithoutPayment`, `CompletedIsDelivered`, `PaidOrderStaysPaid`, `CompletedIsFinal` | With two workers running any mix of handlers and failing anywhere, an order of either type is delivered once, only if paid, is completed only when delivered and then final |
| `payment_order_live` | `PaymentSettles`, `DueOrderLeavesPending` | Once failures stop, repeated notifications finish every interrupted fulfilment, and unpaid orders leave PENDING |
| `refund` | `NoRefundWithoutGateway`, `NeverGivesBackMore`, `RefundingHasOwner`, `OneExecutor`, `NothingHeldWhenOpen`, `RefundedTakesOnce`, `RefundedIsFinal` | Overlapping requests never mark an order refunded ahead of the provider nor give back too much; in benign scenarios the claim is a lock, and of the deductions that reported success one stands |
| `idempotency` | `ReplayIsAuthentic`, `OnePayloadPerRecord`, `OneExecutor`, `EffectsAreApart` | Replays are authentic, a record serves one payload, and its effect runs once per lifetime up to a takeover as expired |
| `system_lock` | `CreatorKeepsLock` | An operation that created the record keeps the lock until it releases it |
| `batch_image` | `OneOutcome`, `OthersKept`, `CompletedIsCharged`, `NoWorkAfterRefund`, `NoOrphanHold` | Before the retry limit a hold is charged or given back, not both; nobody works on a refunded job; an open hold has somebody to close it, unless its way to the queue was cut off or its release id was used up before |
| `batch_image_hold_leak` | `ReleaseIdMeansReturned` (violated) | A Cancel before the hold uses the release id up, and the hold taken afterwards can no longer be given back |
| `concurrency` | `SlotsImplementSemaphore`, `EverythingDrains` | Slots and leases implement a semaphore for the sessions that did not outlive them; members, counters and index entries left behind go away |
| `scheduler` | `SnapshotTypeOK`, `ConsumedRowsAreApplied`, `LifecycleNeverGoesBack` | A poller and a full rebuild follow a group that is switched off and on: the bucket never follows an older state, and no row is consumed before it took effect |
| `scheduler_live` | `NotOlderThanRetirement`, `SnapshotBecomesRight` | Without any poller, and with readers that publish: nothing from before a retirement comes back, and the full rebuild brings the bucket right |
| `auth_cache` | `SharedCacheIsClean`, `RowsAreDelivered`, `CachesBecomeRight` | Rows are delivered whatever fails; no outdated entry is in Redis once its row is deleted; in the end all caches are right |
| `oauth_refresh` | `HealthyErrorNeedsOverlap`, `TokenNotLost`, `ReauthorisationKept`, `MarkedIsDead`, `DueIsRefreshed` | For Grok, only another administrator's write undoes a reauthorisation, and only dead tokens are marked as refused; races lose no token; an accepted token is marked as refused only after named mishaps; a due token is replaced or its account marked |

The type invariants, and `LeaseIsRespected`, `LimitHolds` and `OneReplacement`, are proved rather
than model-checked; that of `SchedulerSnapshot`, which has the watermark in it, is both.

Deadlock is checked in the `scheduler`, `scheduler_live` and `auth_cache` runs. The other models may come to
rest (the order is completed, all requests have returned, a clock or a bound is reached),
so it is not checked there.

**Bounds.**
- *Payment orders*: two workers. The hazards are pairs (an old and a new lease owner, a
  cancellation and a notification), and a worker may run any number of handlers one after
  the other, so a third actor is a worker that started again. The theorems cover any
  number. No counter is capped: `credits` and `rebates` stay bounded because the properties hold.
- *Refunds*: two requests, each of which may run again; an amount of 2 gives partial and
  full refunds, and `Wealth` 3 lets a second deduction succeed in part. Four scenarios: the failures
  of the forward path, those with crashes and failed writes, failing rollbacks beside failing
  deductions, and failing rollbacks with revocations and declined refunds.
- *Idempotency*: three requests, one more than needed for a race, so that one may use the
  outcome of the other two; two payloads; a TTL of 2 and time up to 4, so that a record can
  expire twice.
- *System lock*: three operations (created, taken over, too many), a lease of four renewal
  intervals, one of which the delay of `Acquire` may use up and one of which may fail.
- *Batch images*: two workers and a cancel request beside Submit and the recovery; two
  retries, so that a retry may succeed or be the last; one unit of other holds to lose;
  `MaxReady` 1 caps the duplicates of a job in the ready list, which the workers' own copies
  and the active set come on top of.

- *Concurrency*: two requests and a live call of two processes on a limit of 1 and a queue of
  1, so that a lease meets a slot, a waiter and a restart; members expire after one tick.
- *Scheduler*: two changes of the group (off and on again) and one of the accounts, one
  failure, a poller with a full rebuild in one run, a full rebuild with a reader in the
  other. The liveness property was also checked with poller and full rebuild, without
  failures, and the safety properties with two pollers; they are proved for any number.
- *Auth cache*: two instances, one change and one failure; also checked once with two changes
  without failures, and with one change and two failures.
- *OAuth*: two processes (old and new owner of the lock), two requests of administrators at a
  time, one reauthorisation, one edit or manual refresh, two attempts per cycle, one rotation
  per grant. `MaxEvents` 3 bounds faults and administrators' requests together: a
  reauthorisation, a manual refresh that overlaps it and a fault, or three faults. 1.2 million
  states, three minutes.

Symmetry is used for workers, requests and operations in safety runs only.

## 5. Fairness

`payment_order_live`. Weak fairness of `Age` and
`BecomeDue` is time passing; of `CalmDown`, that outages end; of the outcome of the creation,
that a call of the provider has a timeout; of `Step(w)`, that a handler that runs goes on
(after `calm` no request stops half way). The delivery of an unanswered notification and the
tick of the expiry service are strongly fair: the provider repeats a notification until it is
answered with success, and the ticker fires every minute, but each needs a free worker, which
is there again and again and not continuously. Nothing is assumed of users and
administrators, and their optional requests are left out of these runs (`Callers` is empty):
what has to happen must happen without them.

`concurrency`. A handler goes on until it returns, a live call ends at its deadline, keys
expire and the cleanup worker ticks. Nothing is assumed of clients, nor that a process that
stopped starts again.

`scheduler_live`. Transactions end, tickers tick, a worker that runs goes on, locks and
leases expire. A reader need never come.

`auth_cache`. Requests and workers go on, pollers poll, leases and memory entries run out.
Redis need not expire its entries and messages need not be read: neither is relied on.

`oauth_refresh`. A process goes on with what it began, the background cycle comes back to an
account that is due, an administrator's request goes on, and Redis drops a key whose time is
over. Requests are not fair, and faults are bounded by `MaxEvents`, as in the other runs: an
outage that never ends is not recovered from.

## 6. Proofs

All theorems are for any set of workers, requests or operations, and for every value of
the numeric constants that satisfies the module's assumptions.

- `PaymentOrderProofs` (assumes `Types` are order types). `TypeCorrect`,
  `DeliveryIsExactlyOnce`, `DeliveryNeedsPayment`, `CompletionMeansDelivery`,
  `PaidOrdersSurvive`, `CompletionIsFinal`. None of the properties is inductive: that a
  credit is made at most once rests on the redeem code or the audit row being in the same
  transaction, not on the lease. `IInv` says so: `LedgerInv` equates the counters with the
  ledger (`Delivered`, the APPLIED row), `PaidInv` keeps workers out of the fulfilment of
  an unpaid order, `StatusInv` keeps paid orders in the paid statuses while a worker holds
  them, `ProgressInv` records what a worker knows when it reaches `markCompleted`.
- `PaymentRefundProofs` (assumes a positive amount). `TypeCorrect` and
  `RefundedOnlyByGateway` and `RollbacksAreCovered` for all faults; `RefundingIsOwned` without
  crashes and failed writes; `RefundsAreExclusive`, `OpenOrdersHoldNothing`,
  `RefundsTakeOnce`, `RefundedStaysRefunded` under `Benign`. `GatewayInv` adds that a request
  past the provider's call has its refund made. That rollbacks are covered is about a sum over
  the requests: `Owed` is what each may still give back, and `Covers` carries a certificate, a
  function from sets of requests to the sum over the set, which a step changes along with
  what it takes or gives back; so no induction over the number of requests is needed. `BenignInv` is the conjunction of a lock invariant (an
  executing request is alone and the status is REFUNDING), of the plan's bounds, and of what
  is held being what that request knows it took; exclusivity and the amounts need each
  other. The hypothesis is needed: section 7 has the counterexample without it. Deductions that
  were reported as failed are outside these sums (`lost`), in the properties and in the
  invariants alike: `NeverGivesBackMore` says that no rollback returns any of them.
- `IdempotencyProofs` (assumes positive TTL and timeout). `TypeCorrect`,
  `ReplaysAreAuthentic`, `PayloadsAreKept`, `ExecutionIsExclusive`, `OneEffectPerLifetime`.
  Layers, each proved from those before: `IdInv` (the record is the newest, a request has an
  id from its claim on), `FpInv` (the payload of a record and of all who own or read it),
  `BodyInv` (a stored response is that of an effect), `ExecInv` (one owner until the record
  is taken over as expired), `TimeInv` (expiry and lock times against the owners' start).
- `SystemOperationLockProofs` (assumes a lease of at least three renewal intervals, which is how the
  code computes the interval, and more than two intervals and the delay of `Acquire`).
  `TypeCorrect`, `CreatorsKeepTheLock`, `LeasesAreRespected`. `Kept(o)` is the inductive form
  of keeping a lock: the record has o's id and fingerprint, and its lease outlasts the next
  renewal, or the one after it if the last did not fail.
- `BatchImageJobProofs`. `TypeCorrect`,
  `HoldHasOneOutcome`, `OtherHoldsAreKept`, `CompletedJobsAreCharged`, `RefundedJobsRest`,
  `OpenHoldsAreOwned`. The invariant joins the money (`MoneyInv`: `frozen` as an equation in
  the claims and effects, and which statuses go with which effect) with what Submit
  (`EarlyInv`, `SubmitInv`), those who refund (`RefundInv`) and the holder of the job lock
  (`WorkerInv`) know of the row. `OpenInv`, for the last theorem, says who will close an open
  hold in each status of the row and each place of Submit. Both were checked as invariants of
  the `batch_image` instance first.
- `SchedulingProofs`, on `ConcurrencySlots` (assumes finitely many sessions and positive
  limits). `TypeCorrect`, `LimitIsKept`, `OneReplacementOnly`, and `ImplementsSemaphore`: the
  refinement for any number of sessions and processes. `IInv` adds that a session outside holds nothing and that one
  inside is a member of the sets it believes to be in; the limit then follows from the
  cardinality of the sets, of which the scripts keep the sum at most one over the limit.
- `SchedulingProofs`, on `SchedulerSnapshot` (assumes that no worker is of two kinds).
  `SnapshotTypeCorrect`, `RetiredDataStaysOut`, `ConsumedRowsTookEffect`,
  `LifecycleOnlyGoesForward`, for any number of pollers, full rebuilds and readers sharing one
  outbox and one bucket, whereas the runs have one worker of a kind. A step is one worker's
  (`Acts`), which leaves the memory of the others alone (`OthersStill`), or nobody's. Then:
  who decides has the lease (`DecidersHoldLease`), so a decision that is not applied yet is not
  behind the last one that was (`PlansAreFresh`) and decisions never go back; the newest group
  row of a batch has taken effect or is still to be handled (`BatchesAreCovered`, which needs
  the monotone decisions: another worker may have applied a later one); and a writer
  with the current epoch loaded its accounts after the last retirement (`WritersAreFresh`).
  That ids stay in range is a count of the changes that pay for them (`IdsArePaidFor`). These
  were checked first on instances with two pollers, and with a poller and a reader.
- `AuthCacheInvalidationProofs`. `TypeCorrect` and `SharedCacheStaysClean`. `GraceCovers` says
  that a row after its first delivery waits for every request with an older version in
  hand, `SecondIsLast` that a second delivery begins when it waits for nobody,
  `DeliveredIsClean` and `GoneIsClean` carry cleanness from that deletion to the end of the row.
- `OAuthRefreshProofs`. `TypeCorrect`, `ReauthorisationSurvives`, `ErrorsAreDead`,
  `SuccessorIsNotLost`, `HealthyErrorsOverlap`. The rotations at
  the provider only go up, so what an actor knows of a token stays true: a caller whose
  token was rotated or rejected holds a used one (`CallersKnow`), whatever lock it has. The
  comparison of documents carries this from the caller to the row. A step is a process's, an
  administrator's or a lapse of the lock (`StepShape`), each of a few shapes. For
  `HealthyErrorsOverlap` a used token has to be past as well: no store of its grant is about to
  write something older or equal (`Past`). While nobody calls without the lock (`Exclusive`), a
  refused token is past (`RefusedArePast`), so are the row in error and the row an edit would put
  back in error (`ErrorIsPast`, `EditsArePast`); on the platforms that compare nothing the row is
  the one the caller has read (`RowIsRead`). For `SuccessorIsNotLost` every token is in one hand:
  `CarriedOnce` says that a token that was issued and not stored is the newest of its grant, in no
  document that anybody has, and carried by one process or one manual refresh;
  `AwaitedUnused`, that nobody has a token of a grant still to be written; `GrantsApart`, that
  two reauthorisations are of two grants. To these a step does one of four things (`TokenStep`:
  nothing, a rotation, handing a token over, getting one from an authorisation). `Kept` ties the
  row to the hand that carries its successor, and `RowForward` says that the row of a Grok account
  is never behind a caller, so that the comparison of the store succeeds.

Every invariant and action property of a passing run is a theorem. Only model-checked are the
liveness properties (`PaymentSettles`, `DueOrderLeavesPending`, `EverythingDrains`,
`SnapshotBecomesRight`, `RowsAreDelivered`, `CachesBecomeRight`, `DueIsRefreshed`): fairness is
outside the prover's reach.

## 7. Findings and observations

The run `batch_image_hold_leak` is listed in `PROJECT.json` with the line of the repository it
contradicts. Met while modelling, and not runs of their own:

- *Payments.* `confirmPayment` returns nil when the order cannot be read
  (`service/payment_fulfillment.go:80`); the notification is answered with success and the
  payment waits for a person, whereas `src/docs/PAYMENT.md:214` says none is needed. In the
  model this is `acked = "blind"`, which `PaymentSettles` excepts. So is a payment after the
  expiry whose audit row could not be written (`"untold"`): `writeAuditLog`
  (`service/payment_stats.go:180`) logs the error, and the notification is answered with success. `checkPaid` stores the
  trade number without a condition (`payment_order_lifecycle.go:179`); that write renews
  `updated_at`, so an order that expired long ago counts as recently expired again (`:292`).
  The lease version is read by a second statement after the one that took the lease
  (`payment_fulfillment.go:296`): a worker that stalls between the two for the lease duration
  adopts the version of the worker that took over, and both may write the order, whereas
  `:852` says "The lease version prevents a stale worker from overwriting a newer owner";
  delivery stays single (`DeliveredAtMostOnce`), since it does not rest on the lease.
  A provider query that fails at expiry, and a callback after the grace period, leave a paid
  order EXPIRED, and no job looks at it again, whereas `src/docs/PAYMENT.md:260` says "If the
  user has actually paid but the callback was delayed, the system will reconcile
  automatically"; this is why `PaymentSettles` excepts the audit row PAYMENT_AFTER_EXPIRY.
- *Refunds.* A deduction may be made and reported as failed: its reply is lost, or
  `ExtendSubscription` (`service/subscription_service.go:717`) and `RevokeSubscription` (`:607`) fail
  after their write. `ExecuteRefund` then restores the status, and a retry deducts again: the user
  pays twice. After a failed rollback a retry skips the deduction, as
  `service/payment_refund.go:307` says ("Skip balance deduction on retry if previous attempt
  already deducted but failed to roll back"), but it sets BalanceToDeduct to 0 as well:
  when the provider leaves the refund pending, `markRefundPending` (`:656`) records the
  deduction as rolled back and the finalization deducts a second time. `Benign` excludes
  failing rollbacks for this reason. `deduct_balance` is not stored, so the finalization of
  a pending refund deducts in spite of "Will NOT deduct user balance"
  (`src/frontend/src/i18n/locales/en/misc.ts:530`). A late `finalizeRefundFailed` may
  overwrite REFUNDED. The unique index of migration 131 keeps only the first REFUND_PENDING
  row of an order, so a second pending refund is finalized with the details of the first.
- *Idempotency.* `TryReclaim` compares the id, the status and `locked_until` only
  (`repository/idempotency_repo.go:118`): two requests that read one expired succeeded record
  can both take it over, the second after the first has recorded its result, although
  `service/idempotency_test.go:394` says "concurrent same-key requests should execute business
  side-effect once". `OneExecutor` and `EffectsAreApart` hold up to such a takeover
  (`lapsed`). A key whose request died is blocked until `expires_at`, a day by default,
  and not until the end of its 30 s lock; a response over the size limit is stored cut off
  and cannot be replayed.
- *System lock.* `TryReclaim` does not store the new operation's id as fingerprint and
  `ExtendProcessingLock` asks for it, so an operation that took the record over, rather than
  created it, is never renewed and a third operation may start beside it, whereas
  `service/system_operation_lock_service_test.go:65` says "locked_until should be renewed while
  lock is held". `CreatorKeepsLock` states what does hold. `Release` writes by id: an operation whose lease ran out frees the lock of
  the one that took it over.
- *Batch images.* Cancel decides by the row it read: it can cancel and refund a job that was
  submitted meanwhile without cancelling it at the provider (`batch_image_public.go:754`). A
  capture whose reply is lost, followed by failures up to the retry limit, is both charged
  and given back; `OneOutcome` and `OthersKept` are stated up to that limit. A hold whose
  reply is lost (`batch_image_public.go:290`), and a stop between the end of a job and its
  release, leave the hold frozen until the client cancels again: the exceptions (`dropped`)
  of `NoOrphanHold`. `src/docs/BATCH_IMAGE_MVP.md:168` gives the settlement's request id as
  `batch_image_settlement:`; the code uses `batch_image_capture:`.

- *Concurrency slots.* The cleanup at startup removes the slots and wait counters of all other
  processes, those of running instances too: its comment takes them for dead. The script for
  a live lease counts regular slots that have expired without purging them. An error of
  `IncrementWaitCount` lets the request wait, and its decrement then takes another's place.
  `refreshActiveIndex` and the cleanup worker read a load and then remove the index entry, which
  may be that of a slot taken in between. A stream longer than the time to live loses its
  slot while it runs.
- *Scheduler.* A row whose id was assigned before a larger one was polled is never selected,
  although `repository/scheduler_outbox_repo.go:128` gives rows a grace period to be consumed;
  an insert that meets a pending row of the same key does nothing, and that row may be
  consumed before the transaction commits; an account event whose bucket lock is busy
  counts as handled; the watermark is written without comparison; a failed insert for a
  group is only logged; the bucket lock is deleted without a look at its holder. Each of
  these loses an event for good, and the periodic full rebuild repairs it, which is what
  `SnapshotBecomesRight` shows with all events lost.
- *Auth cache.* A request that takes longer to store than the delay between the two
  deliveries leaves an outdated entry until it expires. An instance that copies an entry
  from Redis just before the second delivery, and stores it in memory after the message,
  keeps it until the memory's time to live ends.
- *OAuth.* The manual refresh of an administrator takes no lock. An edit and a manual refresh
  read the row and write it back whole (`repository/account_repo.go:534`): beside a
  reauthorisation they put back the old grant, a used token, or the error that was just
  cleared, for Grok too. The store for Grok compares the
  document and not the status, and the marking both: without the lock a second worker may
  mark the account before the first one stores its new token, and a healthy account stays in
  error. A comparison that fails because of an edit loses the new token, and so does an
  answer that comes after the context ended. `refresh_token_reused` is marked without the second
  read that `invalid_grant` gets. A permanent failure that has nothing to do with the token puts
  the account in error for good. Outside Grok, `SetError` and
  `UpdateCredentials` write unconditionally, so a refresh can undo or mark a reauthorisation.
  A failing `ClearError` after a reauthorisation is only logged.

Hazards that the code does not guard against have no property that denies them; in
`PROJECT.json` they are listed with an empty list of properties and the exception that the
nearest property makes for them.

## 8. Not modelled

The components of section 1 without a module are listed, with reasons, in `PROJECT.json`.
Within the modelled ones: validation and limits of a new order, the providers' protocols,
pricing and parsing of results, hashing of keys and payloads, requests without an
idempotency key, what updates and restarts do, the deletion of batch outputs, clocks of
instances that disagree, the lapse of a job lock under a worker that still runs; of the
slots, those of API keys and WebSocket ingress, the cache of loads, failover to another
account and the scores of the index; of the scheduler, the lag check with its degraded
rebuild, coalescing, last-used and bulk events, account metadata, several buckets, the
batch limit and simple mode (the lifecycle deadline of 30 s is taken to be shorter than the
lease of 60 s); of the auth cache, negative entries and the limit on lookups; of OAuth,
temporary unschedulability and cooldowns, rate gates and the provider breaker, the cache of
access tokens, the waiting for another worker's token and the clearing of a missing project id
by a manual refresh. The
leader lock of the tickers is not relied on: any two of them may overlap.
