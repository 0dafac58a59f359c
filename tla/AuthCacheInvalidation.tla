------------------------ MODULE AuthCacheInvalidation ------------------------
(***************************************************************************)
(* What the instances remember of one API key, and how they forget it:     *)
(* service/api_key_auth_cache_impl.go,                                     *)
(* service/auth_cache_invalidation_outbox.go and                           *)
(* repository/auth_cache_invalidation_outbox_repo.go.                      *)
(*                                                                         *)
(* Every instance has a cache in memory (l1) before a shared one in Redis  *)
(* (l2).  A trigger of the database writes an outbox row with each change  *)
(* of the key.  The worker of an instance claims rows for a lease, deletes *)
(* the entries and tells the others over Pub/Sub.  A request that read the *)
(* key before the change may store it after the deletion, so every row is  *)
(* delivered a second time, after a delay that is meant to outlast such    *)
(* requests, and only then deleted.                                        *)
(*                                                                         *)
(* The delay is modelled by what it is for: a row waits for the requests   *)
(* that had read the key, and not stored it, at its first delivery.        *)
(***************************************************************************)
EXTENDS Naturals

CONSTANTS
    Instances,    \* instances of the program
    MaxVersion,   \* bound: changes of the key
    MaxFailures,  \* bound: failed calls, lost leases and stopped workers
    None          \* no entry, no owner

ASSUME BoundAssumption == MaxVersion \in Nat /\ MaxFailures \in Nat
ASSUME NoneAssumption == None \notin Nat /\ None \notin Instances

Versions == 0 .. MaxVersion
Rows == 1 .. MaxVersion

VARIABLES
    version,   \* number of changes of the key; change r writes row r
    rows,      \* the outbox
    l1,        \* l1[i]: version in the memory of i, or None
    l2,        \* version in Redis, or None
    mail,      \* instances with an invalidation message to read
    pc, val,   \* the request of an instance, and the version it has in hand
    job,       \* job[i][r]: what the worker of i does with row r
    failures

outboxVars == <<version, rows>>
requestVars == <<pc, val>>
vars == <<outboxVars, l1, l2, mail, requestVars, job, failures>>

Row == [state : {"none", "ready", "claimed", "gone"}, stage : {0, 1},
        owner : Instances \union {None},
        lease : BOOLEAN,             \* the claim is younger than the lease
        grace : SUBSET Instances]    \* requests that the delay outlasts

Job == [at : {"none", "delete", "publish", "retry", "finish"}, stage : {0, 1}]

Points == {"idle", "copy", "load", "first", "second"}

TypeOK ==
    /\ version \in Versions
    /\ rows \in [Rows -> Row]
    /\ l1 \in [Instances -> Versions \union {None}]
    /\ l2 \in Versions \union {None}
    /\ mail \in SUBSET Instances
    /\ pc \in [Instances -> Points]
    /\ val \in [Instances -> Versions]
    /\ job \in [Instances -> [Rows -> Job]]
    /\ failures \in 0 .. MaxFailures

NoRow == [state |-> "none", stage |-> 0, owner |-> None, lease |-> FALSE, grace |-> {}]
NoJob == [at |-> "none", stage |-> 0]

Init ==
    /\ version = 0
    /\ rows = [r \in Rows |-> NoRow]
    /\ l1 = [i \in Instances |-> None]
    /\ l2 = None
    /\ mail = {}
    /\ pc = [i \in Instances |-> "idle"]
    /\ val = [i \in Instances |-> 0]
    /\ job = [i \in Instances |-> [r \in Rows |-> NoJob]]
    /\ failures = 0

-----------------------------------------------------------------------------
(* The key. *)

\* The trigger writes the row in the transaction of the change.
Change ==
    /\ version < MaxVersion
    /\ version' = version + 1
    /\ rows' = [rows EXCEPT ![version + 1].state = "ready"]
    /\ UNCHANGED <<l1, l2, mail, requestVars, job, failures>>

\* deleteAuthCache, which the service calls after a change: the errors of the
\* delete and of the message are ignored, each by itself.
Forget(i) ==
    /\ l1' = [l1 EXCEPT ![i] = None]
    /\ l2' \in {l2, None}
    /\ \E told \in SUBSET Instances : mail' = mail \union told
    /\ UNCHANGED <<outboxVars, requestVars, job, failures>>

-----------------------------------------------------------------------------
(* Requests. *)

Goto(i, p) == pc' = [pc EXCEPT ![i] = p]

\* The request of i is over.
Leave(i) ==
    /\ Goto(i, "idle")
    /\ val' = [val EXCEPT ![i] = 0]
    /\ rows' = [r \in Rows |-> [rows[r] EXCEPT !.grace = @ \ {i}]]

\* getAuthCacheEntry: nothing in memory; Redis has an entry, or none, or fails.
Lookup(i) ==
    /\ pc[i] = "idle" /\ l1[i] = None
    /\ \/ /\ l2 # None
          /\ val' = [val EXCEPT ![i] = l2]
          /\ Goto(i, "copy")
       \/ /\ Goto(i, "load")
          /\ UNCHANGED val
    /\ UNCHANGED <<outboxVars, l1, l2, mail, job, failures>>

\* Mutant: the entry found in Redis is written back, to prolong its life.
CopyBoth(i) ==
    /\ pc[i] = "copy"
    /\ l1' = [l1 EXCEPT ![i] = val[i]]
    /\ l2' = val[i]
    /\ Leave(i)
    /\ UNCHANGED <<version, mail, job, failures>>

\* setAuthCacheL1 of an entry of Redis.
Copy(i) ==
    /\ pc[i] = "copy"
    /\ l1' = [l1 EXCEPT ![i] = val[i]]
    /\ Leave(i)
    /\ UNCHANGED <<version, l2, mail, job, failures>>

\* lookupAPIKeyForAuth, or its error.
Load(i) ==
    /\ pc[i] = "load"
    /\ \/ /\ val' = [val EXCEPT ![i] = version]
          /\ Goto(i, "first")
          /\ UNCHANGED rows
       \/ Leave(i)
    /\ UNCHANGED <<version, l1, l2, mail, job, failures>>

\* setAuthCacheEntry, memory first.  The entry of a key that does not exist stays
\* in memory.
StoreFirst(i) ==
    /\ pc[i] = "first"
    /\ l1' = [l1 EXCEPT ![i] = val[i]]
    /\ \/ Goto(i, "second") /\ UNCHANGED <<val, rows>>
       \/ Leave(i)
    /\ UNCHANGED <<version, l2, mail, job, failures>>

\* SetAuthCache.
StoreSecond(i) ==
    /\ pc[i] = "second"
    /\ l2' \in {l2, val[i]}
    /\ Leave(i)
    /\ UNCHANGED <<version, l1, mail, job, failures>>

-----------------------------------------------------------------------------
(* The worker of an instance. *)

\* Mutant: a row that was claimed stays with its worker.
ClaimableUnclaimed(r) == rows[r].state = "ready" /\ rows[r].grace = {}

Claimable(r) ==
    /\ rows[r].state = "ready" \/ (rows[r].state = "claimed" /\ ~rows[r].lease)
    /\ rows[r].grace = {}

\* The rows that are due, once the last batch is over.
Claim(i) ==
    LET due == {r \in Rows : Claimable(r)} IN
    /\ due # {}
    /\ \A r \in Rows : job[i][r].at = "none"
    /\ rows' = [r \in Rows |->
                  IF r \in due THEN [rows[r] EXCEPT !.state = "claimed", !.owner = i,
                                                    !.lease = TRUE]
                  ELSE rows[r]]
    /\ job' = [job EXCEPT ![i] =
                 [r \in Rows |-> IF r \in due THEN [at |-> "delete", stage |-> rows[r].stage]
                                 ELSE NoJob]]
    /\ UNCHANGED <<version, l1, l2, mail, requestVars, failures>>

\* Where the goroutine of row r is.
Step(i, r, p) == job' = [job EXCEPT ![i][r].at = p]

Done(i, r) == job' = [job EXCEPT ![i][r] = NoJob]

Failure == failures < MaxFailures /\ failures' = failures + 1

\* processEvent: memory of this instance, then Redis.  An error of Redis may hide a
\* deletion that took place.
Delete(i, r) ==
    /\ job[i][r].at = "delete"
    /\ l1' = [l1 EXCEPT ![i] = None]
    /\ \/ l2' = None /\ Step(i, r, "publish") /\ UNCHANGED failures
       \/ l2' \in {l2, None} /\ Step(i, r, "retry") /\ Failure
    /\ UNCHANGED <<outboxVars, mail, requestVars>>

\* Only the subscribers that are connected get the message.
Publish(i, r) ==
    /\ job[i][r].at = "publish"
    /\ \E told \in SUBSET Instances : mail' = mail \union told
    /\ \/ Step(i, r, "finish") /\ UNCHANGED failures
       \/ Step(i, r, "retry") /\ Failure
    /\ UNCHANGED <<outboxVars, l1, l2, requestVars>>

Owns(i, r) == rows[r].state = "claimed" /\ rows[r].owner = i

Released(r) == [rows[r] EXCEPT !.state = "ready", !.owner = None, !.lease = FALSE]

\* RetryClaimed.
Retry(i, r) ==
    /\ job[i][r].at = "retry"
    /\ rows' = IF Owns(i, r) THEN [rows EXCEPT ![r] = Released(r)] ELSE rows
    /\ Done(i, r)
    /\ UNCHANGED <<version, l1, l2, mail, requestVars, failures>>

\* Requests that have read the key and not stored it.
Holding == {i \in Instances : pc[i] \in {"first", "second"}}

\* ScheduleSecondPass.
SecondPass(i, r) ==
    IF Owns(i, r) /\ rows[r].stage = 0
    THEN [rows EXCEPT ![r] = [Released(r) EXCEPT !.stage = 1, !.grace = Holding]]
    ELSE rows

\* DeleteClaimed.
DeleteClaimed(i, r) ==
    IF Owns(i, r)
    THEN [rows EXCEPT ![r] = [NoRow EXCEPT !.state = "gone"]]
    ELSE rows

\* Mutant: one delivery is enough.
FinishAtOnce(i, r) ==
    /\ job[i][r].at = "finish"
    /\ rows' = DeleteClaimed(i, r)
    /\ Done(i, r)
    /\ UNCHANGED <<version, l1, l2, mail, requestVars, failures>>

\* The end of processEvent.
Finish(i, r) ==
    /\ job[i][r].at = "finish"
    /\ rows' = IF job[i][r].stage = 0 THEN SecondPass(i, r) ELSE DeleteClaimed(i, r)
    /\ Done(i, r)
    /\ UNCHANGED <<version, l1, l2, mail, requestVars, failures>>

\* The update of a row fails, or the worker stops: the claim stays.
Abandon(i, r) ==
    /\ job[i][r].at # "none"
    /\ Done(i, r)
    /\ Failure
    /\ UNCHANGED <<outboxVars, l1, l2, mail, requestVars>>

-----------------------------------------------------------------------------
(* Time and messages. *)

\* The lease is over: under a slow worker, or after one that gave up.
LeaseOver(r) ==
    /\ rows[r].state = "claimed" /\ rows[r].lease
    /\ rows' = [rows EXCEPT ![r].lease = FALSE]
    /\ IF job[rows[r].owner][r].at = "none" THEN UNCHANGED failures ELSE Failure
    /\ UNCHANGED <<version, l1, l2, mail, requestVars, job>>

\* The subscriber of i reads a message.
Receive(i) ==
    /\ i \in mail
    /\ mail' = mail \ {i}
    /\ l1' = [l1 EXCEPT ![i] = None]
    /\ UNCHANGED <<outboxVars, l2, requestVars, job, failures>>

\* The entry of the memory of i expires.
Expire(i) ==
    /\ l1[i] # None
    /\ l1' = [l1 EXCEPT ![i] = None]
    /\ UNCHANGED <<outboxVars, l2, mail, requestVars, job, failures>>

ExpireShared ==
    /\ l2 # None
    /\ l2' = None
    /\ UNCHANGED <<outboxVars, l1, mail, requestVars, job, failures>>

-----------------------------------------------------------------------------
Request(i) == Copy(i) \/ Load(i) \/ StoreFirst(i) \/ StoreSecond(i)

Work(i, r) == Delete(i, r) \/ Publish(i, r) \/ Retry(i, r) \/ Finish(i, r)

Next ==
    \/ Change \/ ExpireShared
    \/ \E i \in Instances :
          \/ Forget(i) \/ Lookup(i) \/ Request(i) \/ Claim(i) \/ Receive(i) \/ Expire(i)
          \/ \E r \in Rows : Work(i, r) \/ Abandon(i, r)
    \/ \E r \in Rows : LeaseOver(r)

Spec == Init /\ [][Next]_vars

\* A request that has begun goes on, workers poll and go on, leases and the entries
\* in memory run out.  Nothing is assumed of Redis: its entries may stay, and
\* messages may never be read.
Fairness ==
    /\ \A i \in Instances : WF_vars(Request(i)) /\ WF_vars(Claim(i)) /\ WF_vars(Expire(i))
    /\ \A i \in Instances, r \in Rows : WF_vars(Work(i, r))
    /\ \A r \in Rows : WF_vars(LeaseOver(r))

FairSpec == Spec /\ Fairness

-----------------------------------------------------------------------------
(* Properties. *)

\* Once the row of a change is deleted Redis has no entry from before the change, and
\* none comes back: not from a request that was slow to store, nor after claims that
\* were lost, retried or handled twice.
SharedCacheIsClean ==
    \A r \in Rows : rows[r].state = "gone" /\ l2 # None => l2 >= r

\* Whatever workers do and however they fail, every row is delivered and deleted.
RowsAreDelivered == <>[](\A r \in Rows : rows[r].state \in {"none", "gone"})

\* In the end no instance and not Redis has an outdated entry, although messages are
\* lost and Redis expires nothing: the memory of an instance is only refilled from
\* what is clean.
CachesBecomeRight ==
    <>[](\A v \in {l2} \union {l1[i] : i \in Instances} : v \in {None, version})
=============================================================================
