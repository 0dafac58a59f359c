------------------------- MODULE SystemOperationLock -------------------------
(* The lock that serialises updates, rollbacks and restarts                   *)
(* (service/system_operation_lock_service.go), kept in the idempotency table: *)
(* an operation inserts or takes over the one record of the lock, a goroutine *)
(* renews its lease while it runs, and Release marks the record finished.     *)
(*                                                                            *)
(* The model is timed. Renewals are punctual: time does not pass a renewal    *)
(* that is due, Acquire takes AcquireDelay at most and the statement of       *)
(* Release, which has a timeout of two seconds, no time, so that an operation *)
(* loses its lock only by what the code does. A renewal may fail (MayMiss),   *)
(* but not twice in a row.                                                    *)
EXTENDS IdempotencyStore

CONSTANTS Operations,       \* each is one admin request that takes the lock
          OperationIds,     \* what buildSystemOperationID can return
          Lease,            \* cfg.ProcessingTimeout
          RenewInterval,
          TTL,              \* cfg.SystemOperationTTL
          AcquireDelay,     \* how long the statements of Acquire may take
          MayMiss,          \* whether the store may fail a renewal
          MaxClock          \* bound of the model: time stops here

ASSUME NoneAssumption == None \notin OperationIds

ASSUME TimesAssumption ==
    /\ RenewInterval \in Nat \ {0}
    /\ Lease \in Nat /\ Lease >= 3 * RenewInterval
    /\ AcquireDelay \in Nat /\ AcquireDelay + 2 * RenewInterval < Lease
    /\ TTL \in Nat /\ TTL >= Lease
    /\ MayMiss \in BOOLEAN
    /\ MaxClock \in Nat

VARIABLES
    clock,
    row,        \* the record of the lock
    lastId,
    pc,         \* where an operation is
    opid,       \* its operation id, the record's fingerprint if it creates it
    now,        \* the time Acquire read at its start
    seen,       \* existing: id and status of the record it means to take over
    rid,        \* lock.recordID
    renewing,   \* operations whose renewLoop runs
    due,        \* when its ticker fires next
    missed,     \* operations whose last renewal failed
    created     \* history: operations that inserted the record themselves

opVars == <<pc, opid, now, seen, rid, renewing, due, missed, created>>
vars == <<clock, row, lastId, opVars>>

Rows ==
    [id : Nat, fp : OperationIds \cup {None}, status : Statuses,
     body : {None}, locked : Nat, expires : Nat]

Seen == [id : Nat, status : Statuses]
PCs == {"idle", "create", "get", "reclaim", "held", "release", "done"}

TypeOK ==
    /\ clock \in Nat
    /\ row \in Rows
    /\ lastId \in Nat
    /\ pc \in [Operations -> PCs]
    /\ opid \in [Operations -> OperationIds \cup {None}]
    /\ now \in [Operations -> Nat]
    /\ seen \in [Operations -> Seen]
    /\ rid \in [Operations -> Nat]
    /\ renewing \subseteq Operations
    /\ due \in [Operations -> Nat]
    /\ missed \subseteq Operations
    /\ created \subseteq Operations

Init ==
    /\ clock = 0
    /\ row = NoRow
    /\ lastId = 0
    /\ pc = [o \in Operations |-> "idle"]
    /\ opid = [o \in Operations |-> None]
    /\ now = [o \in Operations |-> 0]
    /\ seen = [o \in Operations |-> [id |-> 0, status |-> "absent"]]
    /\ rid = [o \in Operations |-> 0]
    /\ renewing = {}
    /\ due = [o \in Operations |-> 0]
    /\ missed = {}
    /\ created = {}

-----------------------------------------------------------------------------
(* Acquire.                                                                   *)

Begin(o) ==
    /\ pc[o] = "idle"
    /\ \E id \in OperationIds : opid' = [opid EXCEPT ![o] = id]
    /\ now' = [now EXCEPT ![o] = clock]
    /\ pc' = [pc EXCEPT ![o] = "create"]
    /\ UNCHANGED <<clock, row, lastId, seen, rid, renewing, due, missed, created>>

\* The lock is o's, and its renewLoop starts.
Holds(o, id) ==
    /\ rid' = [rid EXCEPT ![o] = id]
    /\ renewing' = renewing \cup {o}
    /\ due' = [due EXCEPT ![o] = clock + RenewInterval]
    /\ pc' = [pc EXCEPT ![o] = "held"]

CreateLock(o) ==
    /\ pc[o] = "create"
    /\ \/ /\ row.id = 0
          /\ row' = CreateProcessing(lastId + 1, opid[o], now[o] + Lease, now[o] + TTL)
          /\ lastId' = lastId + 1
          /\ Holds(o, lastId + 1)
          /\ created' = created \cup {o}
       \/ /\ row.id # 0
          /\ pc' = [pc EXCEPT ![o] = "get"]
          /\ UNCHANGED <<row, lastId, rid, renewing, due, created>>
    /\ UNCHANGED <<clock, opid, now, seen, missed>>

\* Somebody holds the lock.
Busy(o) ==
    /\ row.status = "processing"
    /\ row.locked > now[o]

GetLock(o) ==
    /\ pc[o] = "get"
    /\ \/ /\ row.id = 0 \/ Busy(o)
          /\ pc' = [pc EXCEPT ![o] = "done"]
          /\ UNCHANGED seen
       \/ /\ row.id # 0
          /\ ~Busy(o)
          /\ seen' = [seen EXCEPT ![o] = [id |-> row.id, status |-> row.status]]
          /\ pc' = [pc EXCEPT ![o] = "reclaim"]
    /\ UNCHANGED <<clock, row, lastId, opid, now, rid, renewing, due, missed, created>>

\* TryReclaim leaves the fingerprint of the operation that created the record.
ReclaimLock(o) ==
    /\ pc[o] = "reclaim"
    /\ \/ /\ Reclaimable(row, seen[o].id, seen[o].status, now[o])
          /\ row' = TryReclaim(row, now[o] + Lease, now[o] + TTL)
          /\ Holds(o, seen[o].id)
       \/ /\ ~Reclaimable(row, seen[o].id, seen[o].status, now[o])
          /\ pc' = [pc EXCEPT ![o] = "done"]
          /\ UNCHANGED <<row, rid, renewing, due>>
    /\ UNCHANGED <<clock, lastId, opid, now, seen, missed, created>>

-----------------------------------------------------------------------------
(* renewLoop: a lost lock ends it, an error does not.                         *)

\* Mutant: the loop ends when a renewal fails.
RenewGivesUp(o) ==
    /\ o \in renewing
    /\ clock = due[o]
    /\ \/ /\ Extendable(row, rid[o], opid[o])
          /\ row' = ExtendProcessingLock(row, clock + Lease, clock + TTL)
          /\ UNCHANGED renewing
       \/ /\ renewing' = renewing \ {o}
          /\ UNCHANGED row
    /\ due' = [due EXCEPT ![o] = clock + RenewInterval]
    /\ UNCHANGED <<clock, lastId, pc, opid, now, seen, rid, missed, created>>

Renew(o) ==
    /\ o \in renewing
    /\ clock = due[o]
    /\ due' = [due EXCEPT ![o] = clock + RenewInterval]
    /\ \/ /\ Extendable(row, rid[o], opid[o])
          /\ row' = ExtendProcessingLock(row, clock + Lease, clock + TTL)
          /\ missed' = missed \ {o}
          /\ UNCHANGED renewing
       \/ /\ ~Extendable(row, rid[o], opid[o])
          /\ renewing' = renewing \ {o}
          /\ UNCHANGED <<row, missed>>
       \/ /\ MayMiss
          /\ o \notin missed
          /\ missed' = missed \cup {o}
          /\ UNCHANGED <<row, renewing>>
    /\ UNCHANGED <<clock, lastId, pc, opid, now, seen, rid, created>>

\* The loop sees stopCh closed; until it does its ticker may still be served.
StopRenewing(o) ==
    /\ o \in renewing
    /\ pc[o] \in {"release", "done"}
    /\ renewing' = renewing \ {o}
    /\ UNCHANGED <<clock, row, lastId, pc, opid, now, seen, rid, due, missed, created>>

-----------------------------------------------------------------------------
(* The operation ends.                                                        *)

\* The deferred release closes stopCh; its statement follows.
Finish(o) ==
    /\ pc[o] = "held"
    /\ pc' = [pc EXCEPT ![o] = "release"]
    /\ UNCHANGED <<clock, row, lastId, opid, now, seen, rid, renewing, due, missed, created>>

\* By the record's id alone, whoever holds the lock now.
Release(o) ==
    /\ pc[o] = "release"
    /\ row' \in {MarkSucceeded(row, rid[o], None, clock + TTL),
                 MarkFailedRetryable(row, rid[o], clock, clock + TTL)}
    /\ pc' = [pc EXCEPT ![o] = "done"]
    /\ UNCHANGED <<clock, lastId, opid, now, seen, rid, renewing, due, missed, created>>

\* The request ends where it is: its process stops, with the loop, or a statement
\* of Acquire or Release fails.
GiveUp(o) ==
    /\ pc[o] \notin {"idle", "done"}
    /\ pc' = [pc EXCEPT ![o] = "done"]
    /\ renewing' = renewing \ {o}
    /\ UNCHANGED <<clock, row, lastId, opid, now, seen, rid, due, missed, created>>

CleanupOnce ==
    /\ Expired(row, clock)
    /\ row' = NoRow
    /\ UNCHANGED <<clock, lastId, opVars>>

Tick ==
    /\ clock < MaxClock
    /\ \A o \in renewing : clock < due[o]
    /\ \A o \in Operations :
          /\ pc[o] \in {"create", "get", "reclaim"} => clock < now[o] + AcquireDelay
          /\ pc[o] # "release"
    /\ clock' = clock + 1
    /\ UNCHANGED <<row, lastId, opVars>>

Operation(o) ==
    \/ Begin(o) \/ CreateLock(o) \/ GetLock(o) \/ ReclaimLock(o)
    \/ Renew(o) \/ StopRenewing(o) \/ Finish(o) \/ Release(o) \/ GiveUp(o)

Next == (\E o \in Operations : Operation(o)) \/ CleanupOnce \/ Tick

Spec == Init /\ [][Next]_vars

-----------------------------------------------------------------------------

\* An operation that created the record of the lock keeps it until it releases it,
\* one failed renewal included: nobody takes the lock while it runs, so whoever
\* else is still running holds an older record (the renewLoop, whose comment says
\* that a transient failure must not end it).
CreatorKeepsLock ==
    \A o \in created, p \in Operations :
        pc[o] = "held" /\ pc[p] = "held" /\ o # p => rid[p] < rid[o]

\* A lease is respected: while the record is being processed and its locked_until
\* has not passed, no operation gets the lock.
LeaseIsRespected ==
    [][(row.status = "processing" /\ row.locked > clock) =>
         (\A o \in Operations : pc'[o] = "held" => pc[o] = "held")]_vars

=============================================================================
