-------------------------- MODULE IdempotencyStore --------------------------
(* The statements on idempotency_records (repository/idempotency_repo.go),    *)
(* as functions of the one row that a scope and key hash can have: the unique *)
(* index of migration 057 allows no second one. Each is a single SQL          *)
(* statement, so each is atomic.                                              *)
(*                                                                            *)
(* id 0 stands for "no row" and locked 0 for a NULL locked_until: both are    *)
(* read through comparisons with an id from 1 on and a time from 0 on only.   *)
EXTENDS Integers

CONSTANT None           \* no fingerprint, no stored response

Statuses == {"absent", "processing", "succeeded", "failed_retryable"}

NoRow == [id |-> 0, fp |-> None, status |-> "absent", body |-> None,
          locked |-> 0, expires |-> 0]

-----------------------------------------------------------------------------

\* INSERT ... ON CONFLICT DO NOTHING: only if there is no row.
CreateProcessing(id, fp, lockedUntil, expiresAt) ==
    [id |-> id, fp |-> fp, status |-> "processing", body |-> None,
     locked |-> lockedUntil, expires |-> expiresAt]

\* Mutant: the row goes by its id alone.
ReclaimableById(row, id, fromStatus, now) == row.id = id

\* The WHERE of TryReclaim. It does not look at expires_at or the fingerprint.
Reclaimable(row, id, fromStatus, now) ==
    /\ row.id = id
    /\ row.status = fromStatus
    /\ row.locked <= now

\* The SET of TryReclaim: the fingerprint and the stored response stay.
TryReclaim(row, lockedUntil, expiresAt) ==
    [row EXCEPT !.status = "processing", !.locked = lockedUntil,
                !.expires = expiresAt]

\* The WHERE of ExtendProcessingLock.
Extendable(row, id, fp) ==
    /\ row.id = id
    /\ row.status = "processing"
    /\ row.fp = fp

ExtendProcessingLock(row, lockedUntil, expiresAt) ==
    [row EXCEPT !.locked = lockedUntil, !.expires = expiresAt]

\* By id alone, whatever the status is by now; no row is no error.
MarkSucceeded(row, id, body, expiresAt) ==
    IF row.id = id
    THEN [row EXCEPT !.status = "succeeded", !.body = body, !.locked = 0,
                     !.expires = expiresAt]
    ELSE row

MarkFailedRetryable(row, id, lockedUntil, expiresAt) ==
    IF row.id = id
    THEN [row EXCEPT !.status = "failed_retryable", !.locked = lockedUntil,
                     !.expires = expiresAt]
    ELSE row

\* Mutant: records are deleted when their lock runs out.
ExpiredByLock(row, now) == row.id # 0 /\ row.locked <= now

\* The WHERE of DeleteExpired.
Expired(row, now) == row.id # 0 /\ row.expires <= now

=============================================================================
