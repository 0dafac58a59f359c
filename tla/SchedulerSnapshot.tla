-------------------------- MODULE SchedulerSnapshot --------------------------
(***************************************************************************)
(* The snapshot of one scheduling bucket of one group, in standard mode:   *)
(* service/scheduler_snapshot_service.go, repository/scheduler_cache.go    *)
(* and repository/scheduler_outbox_repo.go.                                *)
(*                                                                         *)
(* Changes of accounts and of the group are written to the database with   *)
(* an outbox row.  A row gets its id when it is inserted and is visible    *)
(* when its transaction commits.  A poller handles the rows above the      *)
(* watermark and moves the watermark; a periodic full rebuild and readers  *)
(* that find no snapshot publish too.  A writer captures the epoch of the  *)
(* bucket, loads the accounts, takes a version number and makes its        *)
(* snapshot the active one; the scripts refuse it when the bucket was      *)
(* retired since.  Retiring and reopening follow the state of the group,   *)
(* read under a lease.                                                     *)
(*                                                                         *)
(* Any call may fail, any worker may stop, locks and leases expire.        *)
(***************************************************************************)
EXTENDS Naturals, FiniteSets

CONSTANTS
    Pollers,     \* outbox workers, one per instance
    Fulls,       \* full-rebuild workers, one per instance
    Readers,     \* requests that fall back to the database
    MaxAccount,  \* bound: changes of the accounts
    MaxGroup,    \* bound: changes of the group's state
    MaxFailures, \* bound: failed calls and stopped workers
    None         \* no snapshot, no lease

Workers == Pollers \union Fulls \union Readers

ASSUME WorkerAssumption ==
    /\ Pollers \cap Fulls = {} /\ Pollers \cap Readers = {} /\ Fulls \cap Readers = {}
ASSUME BoundAssumption == MaxAccount \in Nat /\ MaxGroup \in Nat /\ MaxFailures \in Nat
ASSUME NoneAssumption == None \notin Nat /\ None \notin Workers

Kinds == {"account", "group"}

Ids == 1 .. MaxAccount + MaxGroup

PCs == {"idle", "next", "mark", "clean", "groups", "capture", "lock", "load", "allocate",
        "activate", "unlock", "lease", "decide", "apply", "unlease"}

VARIABLES
    \* database
    accounts,   \* number of committed changes of the accounts
    group,      \* number of committed changes of the group: it is active when even
    rows,       \* rows[i]: the outbox row with id i
    nextId,     \* next id of the sequence
    muted,      \* open account transactions whose row was a duplicate
    unsent,     \* group changes whose row is not inserted yet
    \* Redis
    watermark,  \* sched:outbox:watermark
    epoch,      \* epoch of the bucket, 0 before the first use
    retired,    \* the bucket is marked as retired
    active,     \* number of account changes in the active snapshot, or None
    behind,     \* behind[w]: writers whose version number is smaller than w's
    outdated,   \* writers whose version number is smaller than the active one
    locked,     \* the rebuild lock of the bucket is set
    lease,      \* worker whose token is in the lifecycle lease, or None
    \* workers
    pc,
    todo,       \* ids that the poller has listed and not handled
    last,       \* largest id that it listed
    seen,       \* what it has already rebuilt in this batch
    token,      \* epoch of the writer
    data,       \* number of account changes that the writer loaded
    plan,       \* number of group changes that the lifecycle decision rests on
    strict,     \* writers that must not be refused: they reopened the bucket
    known,      \* full rebuilds that found the bucket registered
    bad,        \* workers whose current job has failed
    \* bookkeeping of the model
    failures,
    due,        \* group changes that the rows of the poller's batch stand for
    applied,    \* number of group changes behind the last Retire or Reopen
    retiredAt   \* number of account changes when the bucket was last retired

dbVars == <<accounts, group, rows, nextId, muted, unsent>>
bucketVars == <<epoch, retired, active, behind, outdated>>
pollVars == <<todo, last, seen, due>>
writeVars == <<token, data, plan, strict>>
ghosts == <<applied, retiredAt>>
snapshotVars == <<dbVars, watermark, bucketVars, locked, lease, pc, pollVars, writeVars,
          known, bad, failures, ghosts>>

Row == [kind : Kinds, state : {"none", "open", "ready"},
        dedup : BOOLEAN, at : 0 .. MaxGroup]

SnapshotTypeOK ==
    /\ accounts \in 0 .. MaxAccount
    /\ group \in 0 .. MaxGroup
    /\ rows \in [Ids -> Row]
    /\ nextId \in 1 .. MaxAccount + MaxGroup + 1
    /\ muted \in 0 .. MaxAccount
    /\ unsent \in 0 .. MaxGroup
    /\ watermark \in 0 .. MaxAccount + MaxGroup
    /\ epoch \in Nat
    /\ retired \in BOOLEAN
    /\ active \in (0 .. MaxAccount) \union {None}
    /\ behind \in [Workers -> SUBSET Workers]
    /\ outdated \in SUBSET Workers
    /\ locked \in BOOLEAN
    /\ lease \in Workers \union {None}
    /\ pc \in [Workers -> PCs]
    /\ todo \in [Pollers -> SUBSET Ids]
    /\ last \in [Pollers -> 0 .. MaxAccount + MaxGroup]
    /\ seen \in [Pollers -> SUBSET Kinds]
    /\ token \in [Workers -> Nat]
    /\ data \in [Workers -> 0 .. MaxAccount]
    /\ plan \in [Workers -> 0 .. MaxGroup]
    /\ strict \in SUBSET Workers
    /\ known \in SUBSET Fulls
    /\ bad \in SUBSET Workers
    /\ failures \in 0 .. MaxFailures
    /\ due \in [Pollers -> 0 .. MaxGroup]
    /\ applied \in 0 .. MaxGroup
    /\ retiredAt \in 0 .. MaxAccount

NoRow == [kind |-> "account", state |-> "none", dedup |-> FALSE, at |-> 0]

SnapshotInit ==
    /\ accounts = 0 /\ group = 0
    /\ rows = [i \in Ids |-> NoRow] /\ nextId = 1
    /\ muted = 0 /\ unsent = 0
    /\ watermark = 0
    /\ epoch = 0 /\ retired = FALSE /\ active = None
    /\ behind = [w \in Workers |-> {}] /\ outdated = {}
    /\ locked = FALSE /\ lease = None
    /\ pc = [w \in Workers |-> "idle"]
    /\ todo = [w \in Pollers |-> {}] /\ last = [w \in Pollers |-> 0]
    /\ seen = [w \in Pollers |-> {}]
    /\ token = [w \in Workers |-> 0] /\ data = [w \in Workers |-> 0]
    /\ plan = [w \in Workers |-> 0] /\ strict = {}
    /\ known = {} /\ bad = {}
    /\ failures = 0
    /\ due = [w \in Pollers |-> 0] /\ applied = 0 /\ retiredAt = 0

-----------------------------------------------------------------------------
(* The database. *)

Active(n) == n % 2 = 0

Open(k) == {i \in Ids : rows[i].kind = k /\ rows[i].state = "open"}

\* A row with the same key that nobody has listed: the insert does nothing.
Duplicate(k) ==
    \E i \in Ids : rows[i].kind = k /\ rows[i].state = "ready" /\ rows[i].dedup

Insert(k) ==
    /\ rows' = [rows EXCEPT ![nextId] =
                  [kind |-> k, state |-> "open", dedup |-> TRUE,
                   at |-> IF k = "group" THEN group ELSE 0]]
    /\ nextId' = nextId + 1

\* A change of an account inserts its row in its transaction.  An insert of the
\* key of an open transaction waits for it.
OpenAccount ==
    /\ accounts + muted < MaxAccount /\ Open("account") = {}
    /\ \/ /\ Duplicate("account")
          /\ muted' = muted + 1
          /\ UNCHANGED <<rows, nextId>>
       \/ /\ ~Duplicate("account")
          /\ Insert("account")
          /\ UNCHANGED muted
    /\ UNCHANGED <<accounts, group, unsent, watermark, bucketVars, locked, lease, pc,
                   pollVars, writeVars, known, bad, failures, ghosts>>

CommitAccount ==
    /\ accounts' = accounts + 1
    /\ \/ /\ muted > 0
          /\ muted' = muted - 1
          /\ UNCHANGED rows
       \/ \E i \in Open("account") :
             /\ rows' = [rows EXCEPT ![i].state = "ready"]
             /\ UNCHANGED muted
    /\ UNCHANGED <<group, nextId, unsent, watermark, bucketVars, locked, lease, pc,
                   pollVars, writeVars, known, bad, failures, ghosts>>

\* A change of the group is committed before its row is inserted.
ChangeGroup ==
    /\ group < MaxGroup
    /\ group' = group + 1
    /\ unsent' = unsent + 1
    /\ UNCHANGED <<accounts, rows, nextId, muted, watermark, bucketVars, locked, lease,
                   pc, pollVars, writeVars, known, bad, failures, ghosts>>

\* An error of the insert is only logged.
EnqueueGroup ==
    /\ unsent > 0 /\ Open("group") = {}
    /\ unsent' = unsent - 1
    /\ \/ ~Duplicate("group") /\ Insert("group")
       \/ UNCHANGED <<rows, nextId>>
    /\ UNCHANGED <<accounts, group, muted, watermark, bucketVars, locked, lease, pc,
                   pollVars, writeVars, known, bad, failures, ghosts>>

CommitGroupRow ==
    /\ \E i \in Open("group") : rows' = [rows EXCEPT ![i].state = "ready"]
    /\ UNCHANGED <<accounts, group, nextId, muted, unsent, watermark, bucketVars,
                   locked, lease, pc, pollVars, writeVars, known, bad, failures,
                   ghosts>>

-----------------------------------------------------------------------------
(* The outbox worker. *)

Enters(w, p) == pc' = [pc EXCEPT ![w] = p]

Current(w) == CHOOSE i \in todo[w] : \A j \in todo[w] : i <= j

\* Mutant: an error is logged and the next row is handled.
ContinuesAlways(ok) == TRUE

\* The loop over the batch returns at the first error.
Continues(ok) == ok

\* A job of w is over: a poller goes on with the next row or leaves the batch.
After(w, ok) ==
    LET next == Continues(ok) IN
    /\ Enters(w, IF next /\ w \in Pollers THEN "next" ELSE "idle")
    /\ token' = [token EXCEPT ![w] = 0]
    /\ data' = [data EXCEPT ![w] = 0]
    /\ plan' = [plan EXCEPT ![w] = 0]
    /\ strict' = strict \ {w}
    /\ bad' = bad \ {w}
    /\ IF w \notin Pollers THEN UNCHANGED pollVars
       ELSE /\ todo' = [todo EXCEPT ![w] = IF next THEN @ \ {Current(w)} ELSE {}]
            /\ last' = [last EXCEPT ![w] = IF next THEN @ ELSE 0]
            /\ seen' = [seen EXCEPT ![w] =
                          IF ~next THEN {}
                          ELSE IF rows[Current(w)].kind = "group" THEN Kinds ELSE @]
            /\ due' = [due EXCEPT ![w] = IF next THEN @ ELSE 0]

\* pollOutbox: the rows after the watermark; the query frees their keys.
Poll(w) ==
    LET found == {i \in Ids : i > watermark /\ rows[i].state = "ready"} IN
    /\ pc[w] = "idle" /\ found # {}
    /\ todo' = [todo EXCEPT ![w] = found]
    /\ last' = [last EXCEPT ![w] = CHOOSE i \in found : \A j \in found : j <= i]
    /\ due' = [due EXCEPT ![w] = CHOOSE n \in 0 .. MaxGroup :
                  /\ \A i \in found : rows[i].at <= n
                  /\ n = 0 \/ \E i \in found : rows[i].at = n]
    /\ rows' = [i \in Ids |-> IF i \in found THEN [rows[i] EXCEPT !.dedup = FALSE]
                              ELSE rows[i]]
    /\ Enters(w, "next")
    /\ UNCHANGED <<accounts, group, nextId, muted, unsent, watermark, bucketVars,
                   locked, lease, seen, writeVars, known, bad, failures, ghosts>>

\* handleOutboxEvent, in the order of the ids.
HandleRow(w) ==
    /\ pc[w] = "next"
    /\ \/ /\ todo[w] = {}
          /\ Enters(w, "mark")
          /\ UNCHANGED <<todo, seen>>
       \/ /\ todo[w] # {} /\ rows[Current(w)].kind \in seen[w]
          /\ todo' = [todo EXCEPT ![w] = @ \ {Current(w)}]
          /\ UNCHANGED <<pc, seen>>
       \/ /\ todo[w] # {} /\ rows[Current(w)].kind \notin seen[w]
          /\ IF rows[Current(w)].kind = "group"
             THEN Enters(w, "lease") /\ UNCHANGED seen
             ELSE Enters(w, "capture") /\ seen' = [seen EXCEPT ![w] = @ \union {"account"}]
          /\ UNCHANGED todo
    /\ UNCHANGED <<dbVars, watermark, bucketVars, locked, lease, last, due,
                   writeVars, known, bad, failures, ghosts>>

\* Mutant: the watermark is the first row that is not consumed.
SetWatermarkPast(w) ==
    /\ pc[w] = "mark"
    /\ watermark' = last[w] + 1
    /\ Enters(w, "clean")
    /\ UNCHANGED <<dbVars, bucketVars, locked, lease, pollVars, writeVars, known,
                   bad, failures, ghosts>>

\* SetOutboxWatermark, without a comparison.
SetWatermark(w) ==
    /\ pc[w] = "mark"
    /\ watermark' = last[w]
    /\ Enters(w, "clean")
    /\ UNCHANGED <<dbVars, bucketVars, locked, lease, pollVars, writeVars, known,
                   bad, failures, ghosts>>

\* cleanupConsumedOutbox: the rows up to the watermark that are older than the
\* grace period, or none.  A worker that has listed a row keeps what it read.
Cleanup(w) ==
    /\ pc[w] = "clean"
    /\ \E n \in 0 .. last[w] :
          rows' = [i \in Ids |-> IF i <= n /\ rows[i].state = "ready"
                                 THEN [rows[i] EXCEPT !.state = "none", !.dedup = FALSE]
                                 ELSE rows[i]]
    /\ todo' = [todo EXCEPT ![w] = {}]
    /\ last' = [last EXCEPT ![w] = 0]
    /\ seen' = [seen EXCEPT ![w] = {}]
    /\ due' = [due EXCEPT ![w] = 0]
    /\ Enters(w, "idle")
    /\ UNCHANGED <<accounts, group, nextId, muted, unsent, watermark, bucketVars,
                   locked, lease, writeVars, known, bad, failures, ghosts>>

-----------------------------------------------------------------------------
(* The full rebuild and the readers. *)

\* rebuildFullSnapshot: the registered buckets ...
ListBuckets(w) ==
    /\ w \in Fulls /\ pc[w] = "idle"
    /\ known' = IF active # None THEN known \union {w} ELSE known \ {w}
    /\ Enters(w, "groups")
    /\ UNCHANGED <<dbVars, watermark, bucketVars, locked, lease, pollVars, writeVars,
                   bad, failures, ghosts>>

\* Mutant: only buckets that are registered.
ListRegisteredOnly(w) ==
    /\ pc[w] = "groups"
    /\ Enters(w, IF w \notin known THEN "idle" ELSE IF Active(group) THEN "capture" ELSE "lease")
    /\ known' = known \ {w}
    /\ UNCHANGED <<dbVars, watermark, bucketVars, locked, lease, pollVars, writeVars,
                   bad, failures, ghosts>>

\* ... then the active groups: a bucket of one is rebuilt, a registered bucket of
\* another is checked under the lease.
ListActiveGroups(w) ==
    /\ pc[w] = "groups"
    /\ Enters(w, IF Active(group) THEN "capture" ELSE IF w \in known THEN "lease" ELSE "idle")
    /\ known' = known \ {w}
    /\ UNCHANGED <<dbVars, watermark, bucketVars, locked, lease, pollVars, writeVars,
                   bad, failures, ghosts>>

\* ListSchedulableAccounts without a usable snapshot.
Miss(w) ==
    /\ w \in Readers /\ pc[w] = "idle"
    /\ Enters(w, "capture")
    /\ UNCHANGED <<dbVars, watermark, bucketVars, locked, lease, pollVars, writeVars,
                   known, bad, failures, ghosts>>

-----------------------------------------------------------------------------
(* Writers of the bucket. *)

\* CaptureBucketWriteToken: a retired bucket is skipped by an event and by a
\* reader; a full rebuild asks for the group's state again.
Capture(w) ==
    /\ pc[w] = "capture"
    /\ \/ /\ retired
          /\ IF w \in Fulls THEN Enters(w, "lease") /\ UNCHANGED <<pollVars, writeVars, bad>>
             ELSE After(w, TRUE)
          /\ UNCHANGED epoch
       \/ /\ ~retired
          /\ epoch' = IF epoch = 0 THEN 1 ELSE epoch
          /\ token' = [token EXCEPT ![w] = epoch']
          /\ Enters(w, IF w \in Readers THEN "load" ELSE "lock")
          /\ UNCHANGED <<data, plan, strict, pollVars, bad>>
    /\ UNCHANGED <<dbVars, watermark, retired, active, behind, outdated, locked, lease,
                   known, failures, ghosts>>

\* TryLockBucket: when it is taken only a writer that reopened the bucket fails.
TryLock(w) ==
    /\ pc[w] = "lock"
    /\ \/ /\ locked
          /\ After(w, w \notin strict)
          /\ UNCHANGED locked
       \/ /\ ~locked
          /\ locked' = TRUE
          /\ Enters(w, "load")
          /\ UNCHANGED <<pollVars, writeVars, bad>>
    /\ UNCHANGED <<dbVars, watermark, bucketVars, lease, known, failures, ghosts>>

Load(w) ==
    /\ pc[w] = "load"
    /\ data' = [data EXCEPT ![w] = accounts]
    /\ Enters(w, "allocate")
    /\ UNCHANGED <<dbVars, watermark, bucketVars, locked, lease, pollVars, token,
                   plan, strict, known, bad, failures, ghosts>>

\* Mutant: the scripts look at the mark alone.
FencedByMark(w) == retired

\* The check of both scripts that publish.
Fenced(w) == retired \/ epoch # token[w]

\* SetSnapshot has returned.
Published(w, ok) ==
    IF w \in Readers THEN After(w, ok)
    ELSE /\ Enters(w, "unlock")
         /\ bad' = IF ok THEN bad ELSE bad \union {w}
         /\ UNCHANGED <<pollVars, writeVars>>

\* The version number of w is of no more account.
Forget(w) == [v \in Workers |-> IF v = w THEN {} ELSE behind[v] \ {w}]

\* allocateSnapshotVersion: only the order of the numbers matters.
Allocate(w) ==
    /\ pc[w] = "allocate"
    /\ \/ /\ Fenced(w)
          /\ Published(w, w \notin strict)
          /\ UNCHANGED behind
       \/ /\ ~Fenced(w)
          /\ behind' = [behind EXCEPT ![w] = {v \in Workers : pc[v] = "activate"}]
          /\ Enters(w, "activate")
          /\ UNCHANGED <<pollVars, writeVars, bad>>
    /\ UNCHANGED <<dbVars, watermark, epoch, retired, active, outdated, locked, lease,
                   known, failures, ghosts>>

\* The script has run and its reply is lost.
Lost == failures < MaxFailures /\ failures' = failures + 1

\* activateSnapshotVersion: an outdated number is dropped without an error.
Activate(w) ==
    /\ pc[w] = "activate"
    /\ \/ /\ Fenced(w)
          /\ Published(w, w \notin strict)
          /\ outdated' = outdated \ {w}
          /\ UNCHANGED <<active, failures>>
       \/ /\ ~Fenced(w) /\ w \in outdated
          /\ Published(w, TRUE)
          /\ outdated' = outdated \ {w}
          /\ UNCHANGED <<active, failures>>
       \/ /\ ~Fenced(w) /\ w \notin outdated
          /\ active' = data[w]
          /\ outdated' = outdated \union behind[w]
          /\ \/ Published(w, TRUE) /\ UNCHANGED failures
             \/ Published(w, FALSE) /\ Lost
    /\ behind' = Forget(w)
    /\ UNCHANGED <<dbVars, watermark, epoch, retired, locked, lease, known, ghosts>>

\* UnlockBucket deletes the lock, whoever has it.
Unlock(w) ==
    /\ pc[w] = "unlock"
    /\ locked' = FALSE
    /\ After(w, w \notin bad)
    /\ UNCHANGED <<dbVars, watermark, bucketVars, lease, known, failures, ghosts>>

-----------------------------------------------------------------------------
(* The lifecycle of the bucket. *)

\* Mutant: the lease is not exclusive.
TryLeaseShared(w) ==
    /\ pc[w] = "lease"
    /\ lease' = w
    /\ Enters(w, "decide")
    /\ UNCHANGED <<dbVars, watermark, bucketVars, locked, pollVars, writeVars, known,
                   bad, failures, ghosts>>

\* TryAcquireGroupLifecycleLease: a lease that is taken is an error.
TryLease(w) ==
    /\ pc[w] = "lease"
    /\ \/ /\ lease = None
          /\ lease' = w
          /\ Enters(w, "decide")
          /\ UNCHANGED <<pollVars, writeVars, bad>>
       \/ /\ lease # None
          /\ After(w, FALSE)
          /\ UNCHANGED lease
    /\ UNCHANGED <<dbVars, watermark, bucketVars, locked, known, failures, ghosts>>

\* GetByIDLite under the lease.
Decide(w) ==
    /\ pc[w] = "decide"
    /\ plan' = [plan EXCEPT ![w] = group]
    /\ Enters(w, "apply")
    /\ UNCHANGED <<dbVars, watermark, bucketVars, locked, lease, pollVars, token, data,
                   strict, known, bad, failures, ghosts>>

\* RetireBucket moves the epoch the first time.
Retire(w) ==
    /\ epoch' = IF retired THEN epoch ELSE epoch + 1
    /\ retired' = TRUE
    /\ retiredAt' = IF retired THEN retiredAt ELSE accounts
    /\ active' = None
    /\ outdated' = {}
    /\ UNCHANGED token

\* ReopenBucket keeps the epoch.
Reopen(w) ==
    /\ epoch' = IF epoch = 0 THEN 1 ELSE epoch
    /\ token' = [token EXCEPT ![w] = epoch']
    /\ retired' = FALSE
    /\ active' = IF retired THEN None ELSE active
    /\ outdated' = IF retired THEN {} ELSE outdated
    /\ UNCHANGED retiredAt

Apply(w) ==
    /\ pc[w] = "apply"
    /\ IF Active(plan[w]) THEN Reopen(w) ELSE Retire(w)
    /\ applied' = plan[w]
    /\ Enters(w, "unlease")
    /\ \/ UNCHANGED <<bad, failures>>
       \/ Lost /\ bad' = bad \union {w}
    /\ UNCHANGED <<dbVars, watermark, behind, locked, lease, pollVars, data, strict,
                   plan, known>>

\* ReleaseGroupLifecycleLease compares the owner.
Unlease(w) ==
    LET ok == w \notin bad /\ lease = w IN
    /\ pc[w] = "unlease"
    /\ lease' = IF lease = w THEN None ELSE lease
    /\ \/ /\ ok /\ Active(plan[w])
          /\ strict' = strict \union {w}
          /\ Enters(w, "lock")
          /\ UNCHANGED <<pollVars, token, data, plan, bad>>
       \/ /\ ~(ok /\ Active(plan[w]))
          /\ After(w, ok)
    /\ UNCHANGED <<dbVars, watermark, bucketVars, locked, known, failures, ghosts>>

-----------------------------------------------------------------------------
(* Failures. *)

\* A call fails or the deadline is over: what is deferred is still tried.  An
\* error of UnlockBucket is ignored.
Fail(w) ==
    /\ failures < MaxFailures /\ failures' = failures + 1
    /\ \/ /\ pc[w] \in {"load", "allocate", "activate"}
          /\ Published(w, FALSE)
       \/ /\ pc[w] \in {"decide", "apply"}
          /\ Enters(w, "unlease")
          /\ bad' = bad \union {w}
          /\ UNCHANGED <<pollVars, writeVars>>
       \/ pc[w] = "unlock" /\ After(w, w \notin bad)
    /\ behind' = Forget(w)
    /\ outdated' = outdated \ {w}
    /\ UNCHANGED <<dbVars, watermark, epoch, retired, active, locked, lease, known, ghosts>>

\* The worker stops, or the call to take or to free a lock or the lease fails:
\* what is in Redis stays.
Stop(w) ==
    /\ failures < MaxFailures /\ failures' = failures + 1
    /\ pc[w] # "idle"
    /\ After(w, FALSE)
    /\ locked' \in {locked, locked \/ pc[w] = "lock"}
    /\ lease' \in {lease, IF pc[w] = "lease" /\ lease = None THEN w ELSE lease}
    /\ behind' = Forget(w)
    /\ outdated' = outdated \ {w}
    /\ known' = known \ {w}
    /\ UNCHANGED <<dbVars, watermark, epoch, retired, active, ghosts>>

\* The lock may run out under a writer that is at its deadline.
LockExpires ==
    /\ locked
    /\ locked' = FALSE
    /\ UNCHANGED <<dbVars, watermark, bucketVars, lease, pc, pollVars, writeVars,
                   known, bad, failures, ghosts>>

\* The lease is twice as long as the deadline of its holder.
LeaseExpires ==
    /\ lease # None
    /\ pc[lease] \notin {"decide", "apply", "unlease"}
    /\ lease' = None
    /\ UNCHANGED <<dbVars, watermark, bucketVars, locked, pc, pollVars, writeVars,
                   known, bad, failures, ghosts>>

-----------------------------------------------------------------------------
Change == OpenAccount \/ CommitAccount \/ ChangeGroup \/ EnqueueGroup \/ CommitGroupRow

PollerStep(w) == HandleRow(w) \/ SetWatermark(w) \/ Cleanup(w)

WriterStep(w) ==
    \/ Capture(w) \/ TryLock(w) \/ Load(w) \/ Allocate(w) \/ Activate(w) \/ Unlock(w)
    \/ TryLease(w) \/ Decide(w) \/ Apply(w) \/ Unlease(w)

SnapshotNext ==
    \/ Change
    \/ \E w \in Pollers : Poll(w) \/ PollerStep(w)
    \/ \E w \in Fulls : ListBuckets(w) \/ ListActiveGroups(w)
    \/ \E w \in Readers : Miss(w)
    \/ \E w \in Workers : WriterStep(w) \/ Fail(w) \/ Stop(w)
    \/ LockExpires \/ LeaseExpires

SnapshotSpec == SnapshotInit /\ [][SnapshotNext]_snapshotVars

\* Transactions end, the tickers of the workers go on, a worker goes on until it
\* returns, and keys expire.  Nothing is assumed of readers that have not begun.
SnapshotFairness ==
    /\ WF_snapshotVars(CommitAccount) /\ WF_snapshotVars(LockExpires) /\ WF_snapshotVars(LeaseExpires)
    /\ \A w \in Pollers : WF_snapshotVars(Poll(w)) /\ WF_snapshotVars(PollerStep(w))
    /\ \A w \in Fulls : WF_snapshotVars(ListBuckets(w) \/ ListActiveGroups(w))
    /\ \A w \in Workers : WF_snapshotVars(WriterStep(w))

SnapshotFairSpec == SnapshotSpec /\ SnapshotFairness

-----------------------------------------------------------------------------
(* Properties. *)

\* What is served after a bucket was retired was loaded after it: no writer that
\* began before publishes into the reopened bucket, however slow it is.
NotOlderThanRetirement == active # None => active >= retiredAt

\* The state of the group that the bucket follows never goes back: no Reopen
\* undoes a Retire that rests on a later state, nor the other way round.
LifecycleNeverGoesBack == [][applied' >= applied]_snapshotVars

\* A poller moves the watermark past the rows that it listed only after the bucket
\* was brought to the state of the group that they are about, or a later one.
ConsumedRowsAreApplied == \A w \in Pollers : pc[w] = "mark" => applied >= due[w]

\* Events may be lost, snapshots overwritten by older ones and rebuilds skipped:
\* once the changes and the failures are over the bucket has the accounts of the
\* database, or nothing if the group is not active.
SnapshotBecomesRight ==
    <>[](active = IF Active(group) THEN accounts ELSE None)
=============================================================================
