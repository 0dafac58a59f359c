---------------------------- MODULE Idempotency ----------------------------
(* The idempotency coordinator (service/idempotency.go) for one scope and     *)
(* key: requests that carry the same Idempotency-Key, on any instance, run    *)
(* Execute; the cleanup service deletes expired records. Every statement and  *)
(* the guarded effect itself is a step of its own; a request may stop at any  *)
(* of them. Times are those of the callers, who pass them to the statements;  *)
(* the instances' clocks are taken to agree.                                  *)
EXTENDS IdempotencyStore

CONSTANTS Requests,             \* each is one call of Execute
          Fingerprints,         \* what BuildIdempotencyFingerprint can return
          TTL,                  \* opts.TTL or cfg.DefaultTTL
          ProcessingTimeout,
          FailedRetryBackoff,
          MaxClock              \* bound of the model: time stops here

ASSUME NoneAssumption == None \notin Requests \cup Fingerprints

ASSUME TimesAssumption ==
    /\ TTL \in Nat \ {0}
    /\ ProcessingTimeout \in Nat \ {0}
    /\ FailedRetryBackoff \in Nat
    /\ MaxClock \in Nat

VARIABLES
    clock,
    row,        \* the record of the key
    lastId,     \* the sequence of idempotency_records.id
    pc,         \* where a request is in Execute
    fp,         \* fingerprint
    now,        \* the time it read at the start
    seen,       \* existing: id and status of the record it means to take over
    rid,        \* record.ID once it owns the record, 0 before
    effects,    \* the requests whose execute() succeeded
    replayed,   \* the request whose stored response it returned
    at,         \* history: when it became owner
    lapsed      \* history: ids of records taken over as expired

reqVars == <<pc, fp, now, seen, rid, effects, replayed, at>>
vars == <<clock, row, lastId, reqVars, lapsed>>

PCs == {"idle", "create", "get", "expired", "latest", "reclaim", "execute",
        "save", "done"}

Rows ==
    [id : Nat, fp : Fingerprints \cup {None}, status : Statuses,
     body : Requests \cup {None}, locked : Nat, expires : Nat]

Seen == [id : Nat, status : Statuses]
NotSeen == [id |-> 0, status |-> "absent"]

TypeOK ==
    /\ clock \in Nat
    /\ row \in Rows
    /\ lastId \in Nat
    /\ pc \in [Requests -> PCs]
    /\ fp \in [Requests -> Fingerprints \cup {None}]
    /\ now \in [Requests -> Nat]
    /\ seen \in [Requests -> Seen]
    /\ rid \in [Requests -> Nat]
    /\ effects \subseteq Requests
    /\ replayed \in [Requests -> Requests \cup {None}]
    /\ at \in [Requests -> Nat]
    /\ lapsed \subseteq Nat

Init ==
    /\ clock = 0
    /\ row = NoRow
    /\ lastId = 0
    /\ pc = [r \in Requests |-> "idle"]
    /\ fp = [r \in Requests |-> None]
    /\ now = [r \in Requests |-> 0]
    /\ seen = [r \in Requests |-> NotSeen]
    /\ rid = [r \in Requests |-> 0]
    /\ effects = {}
    /\ replayed = [r \in Requests |-> None]
    /\ at = [r \in Requests |-> 0]
    /\ lapsed = {}

-----------------------------------------------------------------------------

expiresAt(r) == now[r] + TTL
lockedUntil(r) == now[r] + ProcessingTimeout

\* The request reads the clock once; the record, the statements and the
\* comparisons use that time from here on.
Begin(r) ==
    /\ pc[r] = "idle"
    /\ \E f \in Fingerprints : fp' = [fp EXCEPT ![r] = f]
    /\ now' = [now EXCEPT ![r] = clock]
    /\ pc' = [pc EXCEPT ![r] = "create"]
    /\ UNCHANGED <<clock, row, lastId, seen, rid, effects, replayed, at, lapsed>>

\* r has read the record and will try to take it over.
WillReclaim(r, step) ==
    /\ seen' = [seen EXCEPT ![r] = [id |-> row.id, status |-> row.status]]
    /\ pc' = [pc EXCEPT ![r] = step]
    /\ UNCHANGED replayed

\* r ends without having become the owner.
Answer(r, stored) ==
    /\ replayed' = [replayed EXCEPT ![r] = stored]
    /\ pc' = [pc EXCEPT ![r] = "done"]
    /\ UNCHANGED seen

\* r becomes the owner of record i and goes on to the effect.
Claim(r, i) ==
    /\ rid' = [rid EXCEPT ![r] = i]
    /\ at' = [at EXCEPT ![r] = clock]
    /\ pc' = [pc EXCEPT ![r] = "execute"]

\* CreateProcessing by r. If the row is there its id is only looked up later.
CreateRecord(r) ==
    /\ pc[r] = "create"
    /\ \/ /\ row.id = 0
          /\ row' = CreateProcessing(lastId + 1, fp[r], lockedUntil(r), expiresAt(r))
          /\ lastId' = lastId + 1
          /\ Claim(r, lastId + 1)
       \/ /\ row.id # 0
          /\ pc' = [pc EXCEPT ![r] = "get"]
          /\ UNCHANGED <<row, lastId, rid, at>>
    /\ UNCHANGED <<clock, fp, now, seen, effects, replayed, lapsed>>

\* The switch on existing.Status: replay, conflict, backoff, or reclaim.
Decide(r) ==
    \/ /\ row.status = "succeeded"
       /\ Answer(r, row.body)
    \/ /\ \/ row.status = "processing"
          \/ row.status = "failed_retryable" /\ row.locked > now[r]
       /\ Answer(r, None)
    \/ /\ row.status = "failed_retryable"
       /\ row.locked <= now[r]
       /\ WillReclaim(r, "reclaim")

\* A record that is missing or has another fingerprint ends the request.
Refused(r) ==
    /\ row.id = 0 \/ row.fp # fp[r]
    /\ Answer(r, None)

\* Mutant: a record of any payload is accepted.
GetExistingAnyPayload(r) ==
    /\ pc[r] = "get"
    /\ \/ row.id = 0 /\ Answer(r, None)
       \/ /\ row.id # 0
          /\ \/ row.expires <= now[r] /\ WillReclaim(r, "expired")
             \/ row.expires > now[r] /\ Decide(r)
    /\ UNCHANGED <<clock, row, lastId, fp, now, rid, effects, at, lapsed>>

\* GetByScopeAndKeyHash, the fingerprint and the expiry.
GetExisting(r) ==
    /\ pc[r] = "get"
    /\ \/ Refused(r)
       \/ /\ row.id # 0
          /\ row.fp = fp[r]
          /\ \/ row.expires <= now[r] /\ WillReclaim(r, "expired")
             \/ row.expires > now[r] /\ Decide(r)
    /\ UNCHANGED <<clock, row, lastId, fp, now, rid, effects, at, lapsed>>

\* TryReclaim of the record read as expired.
ReclaimExpired(r) ==
    /\ pc[r] = "expired"
    /\ \/ /\ Reclaimable(row, seen[r].id, seen[r].status, now[r])
          /\ row' = TryReclaim(row, lockedUntil(r), expiresAt(r))
          /\ Claim(r, seen[r].id)
          /\ lapsed' = lapsed \cup {seen[r].id}
       \/ /\ ~Reclaimable(row, seen[r].id, seen[r].status, now[r])
          /\ pc' = [pc EXCEPT ![r] = "latest"]
          /\ UNCHANGED <<row, rid, at, lapsed>>
    /\ UNCHANGED <<clock, lastId, fp, now, seen, effects, replayed>>

\* The second read. Here the expiry is not looked at again.
GetLatest(r) ==
    /\ pc[r] = "latest"
    /\ \/ Refused(r)
       \/ /\ row.id # 0
          /\ row.fp = fp[r]
          /\ Decide(r)
    /\ UNCHANGED <<clock, row, lastId, fp, now, rid, effects, at, lapsed>>

\* TryReclaim of a failed record whose backoff is over; a lost race is a
\* conflict.
ReclaimFailed(r) ==
    /\ pc[r] = "reclaim"
    /\ \/ /\ Reclaimable(row, seen[r].id, "failed_retryable", now[r])
          /\ row' = TryReclaim(row, lockedUntil(r), expiresAt(r))
          /\ Claim(r, seen[r].id)
       \/ /\ ~Reclaimable(row, seen[r].id, "failed_retryable", now[r])
          /\ pc' = [pc EXCEPT ![r] = "done"]
          /\ UNCHANGED <<row, rid, at>>
    /\ UNCHANGED <<clock, lastId, fp, now, seen, effects, replayed, lapsed>>

\* execute() succeeds: the effect is there, the record does not say so yet.
ExecuteSucceeds(r) ==
    /\ pc[r] = "execute"
    /\ effects' = effects \cup {r}
    /\ pc' = [pc EXCEPT ![r] = "save"]
    /\ UNCHANGED <<clock, row, lastId, fp, now, seen, rid, replayed, at, lapsed>>

\* The response is stored.
SaveSucceeded(r) ==
    /\ pc[r] = "save"
    /\ row' = MarkSucceeded(row, rid[r], r, expiresAt(r))
    /\ pc' = [pc EXCEPT ![r] = "done"]
    /\ UNCHANGED <<clock, lastId, fp, now, seen, rid, effects, replayed, at, lapsed>>

\* Mutant: the error response is stored like any other.
ExecuteFailsStored(r) ==
    /\ pc[r] = "execute"
    /\ row' = MarkSucceeded(row, rid[r], r, expiresAt(r))
    /\ pc' = [pc EXCEPT ![r] = "done"]
    /\ UNCHANGED <<clock, lastId, fp, now, seen, rid, effects, replayed, at, lapsed>>

\* execute() fails at some time t since the claim, from which the backoff counts;
\* the statement comes now.
ExecuteFails(r) ==
    /\ pc[r] = "execute"
    /\ \E t \in at[r] .. clock :
          row' = MarkFailedRetryable(row, rid[r], t + FailedRetryBackoff, expiresAt(r))
    /\ pc' = [pc EXCEPT ![r] = "done"]
    /\ UNCHANGED <<clock, lastId, fp, now, seen, rid, effects, replayed, at, lapsed>>

\* The request ends where it is: the process stops, a statement fails (with or
\* without having been done: the step before this one), its context is cancelled,
\* the response cannot be encoded, or the stored one, cut off at
\* MaxStoredResponseLen, cannot be decoded.
GiveUp(r) ==
    /\ pc[r] \notin {"idle", "done"}
    /\ pc' = [pc EXCEPT ![r] = "done"]
    /\ UNCHANGED <<clock, row, lastId, fp, now, seen, rid, effects, replayed, at, lapsed>>

\* One round of the cleanup service.
CleanupOnce ==
    /\ Expired(row, clock)
    /\ row' = NoRow
    /\ UNCHANGED <<clock, lastId, reqVars, lapsed>>

Tick ==
    /\ clock < MaxClock
    /\ clock' = clock + 1
    /\ UNCHANGED <<row, lastId, reqVars, lapsed>>

Execute(r) ==
    \/ CreateRecord(r) \/ GetExisting(r) \/ ReclaimExpired(r) \/ GetLatest(r)
    \/ ReclaimFailed(r) \/ ExecuteSucceeds(r) \/ SaveSucceeded(r) \/ ExecuteFails(r)
    \/ GiveUp(r)

Next ==
    \/ \E r \in Requests : Begin(r) \/ Execute(r)
    \/ CleanupOnce
    \/ Tick

Spec == Init /\ [][Next]_vars

-----------------------------------------------------------------------------

\* A response that is replayed is the one of a request with the same fingerprint
\* whose effect happened, however the record was reclaimed, lost or recreated in
\* between (service/idempotency.go, the replay of existing.ResponseBody).
ReplayIsAuthentic ==
    \A r \in Requests : replayed[r] # None =>
        /\ replayed[r] \in effects
        /\ fp[replayed[r]] = fp[r]

\* A record is executed for one payload only: a takeover never runs the effect of
\* another request body under a record's key (the fingerprint check of Execute,
\* which TryReclaim itself does not repeat).
OnePayloadPerRecord ==
    \A r, s \in Requests : rid[r] # 0 /\ rid[r] = rid[s] => fp[r] = fp[s]

\* Until a record is taken over as expired, no two requests are in its effect at
\* the same time, whatever fails and however late a request acts on what it read.
OneExecutor ==
    \A r, s \in Requests :
        /\ pc[r] \in {"execute", "save"}
        /\ pc[s] \in {"execute", "save"}
        /\ rid[r] = rid[s]
        /\ r # s
        => rid[r] \in lapsed

\* The effect of a key happens once per lifetime of its record: two effects are
\* either of a record that was taken over as expired, or of two records of which
\* the later was created when the TTL of the earlier had passed.
EffectsAreApart ==
    \A r, s \in effects :
        /\ r # s
        /\ rid[r] \notin lapsed
        /\ rid[r] <= rid[s]
        => rid[r] # rid[s] /\ at[s] >= expiresAt(r)

=============================================================================
