--------------------------- MODULE ConcurrencySlots ---------------------------
(***************************************************************************)
(* The concurrency slots of one user or one account, kept in Redis by      *)
(* repository/concurrency_cache.go and used by the gateway handlers.       *)
(*                                                                         *)
(* A gateway request takes a slot, waits in a counted queue when there is  *)
(* none, runs, and gives the slot back.  A live call takes a slot, puts a  *)
(* lease in its place and keeps the lease alive until the call ends.       *)
(* Slots and leases are members of two sorted sets whose scores are Redis  *)
(* times: a member older than its time to live is purged by the next       *)
(* script that looks at its set, whether its owner still runs or not.  An  *)
(* index names the users and accounts that may have members; a process     *)
(* that starts removes the slots of all other processes there.             *)
(*                                                                         *)
(* Users and accounts have the same scripts.  A request runs this protocol *)
(* for its user and, inside, for its account; a lease is granted for both  *)
(* by one script, so the room on the other side is an input here.          *)
(*                                                                         *)
(* Every Redis call may fail before or after it took effect, and every     *)
(* process may stop between two calls.                                     *)
(***************************************************************************)
EXTENDS Naturals, FiniteSets

CONSTANTS
    Requests,   \* gateway requests
    Calls,      \* live calls
    Processes,  \* incarnations of the server (RequestIDPrefix)
    First,      \* the one that runs at the start
    Home,       \* Home[s]: the process that serves session s
    Limit,      \* maxConcurrency of the user or the account
    QueueLimit, \* maxWait of its queue
    SlotTTL,    \* slotTTLSeconds, in ticks
    LeaseTTL    \* liveLeaseTTLSeconds, in ticks

Sessions == Requests \union Calls

ASSUME LimitAssumption == Limit \in Nat \ {0} /\ QueueLimit \in Nat \ {0}
ASSUME TTLAssumption == SlotTTL \in Nat \ {0} /\ LeaseTTL \in Nat \ {0}
ASSUME SessionAssumption == IsFiniteSet(Sessions) /\ Requests \cap Calls = {}
ASSUME HomeAssumption == First \in Processes /\ Home \in [Sessions -> Processes]

Waiters == {"wait", "won", "gave_up"}

Points == Waiters \union
    {"idle", "try", "queue", "lease", "create", "run", "release", "load", "index",
     "live", "drop", "end"}

VARIABLES
    slots,     \* members of the sorted set of regular slots
    age,       \* age[s]: ticks since the score of slot s
    leases,    \* members of the sorted set of live leases
    leaseAge,  \* leaseAge[c]: ticks since the score of lease c
    waiting,   \* the counter of the wait queue
    indexed,   \* the active index names this user or account
    up,        \* state of each process
    at,        \* at[s]: where the handler of s is
    has,       \* sessions that hold the release function of a slot
    leased,    \* calls that were told that they have a lease
    busy,      \* sessions that read a load before they write the index
    worker,    \* what the cleanup worker read before it writes the index
    inside     \* ghost: sessions let in, whose slot or lease nobody removed under them

redis == <<slots, age, leases, leaseAge, waiting, indexed>>
local == <<at, has, leased, busy>>
procs == <<up, worker>>
vars  == <<slots, age, leases, leaseAge, waiting, indexed, up, at, has,
           leased, busy, worker, inside>>

TypeOK ==
    /\ slots \in SUBSET Sessions
    /\ age \in [Sessions -> 0 .. SlotTTL]
    /\ leases \in SUBSET Calls
    /\ leaseAge \in [Calls -> 0 .. LeaseTTL]
    /\ waiting \in 0 .. QueueLimit
    /\ indexed \in BOOLEAN
    /\ up \in [Processes -> {"off", "sweep", "unindex", "up", "dead"}]
    /\ at \in [Sessions -> Points]
    /\ has \in SUBSET Sessions
    /\ leased \in SUBSET Calls
    /\ busy \in SUBSET Sessions
    /\ worker \in {"idle", "keep", "remove"}
    /\ inside \in SUBSET Sessions

Init ==
    /\ slots = {} /\ age = [s \in Sessions |-> 0]
    /\ leases = {} /\ leaseAge = [c \in Calls |-> 0]
    /\ waiting = 0
    /\ indexed = FALSE
    /\ up = [p \in Processes |-> IF p = First THEN "up" ELSE "off"]
    /\ at = [s \in Sessions |-> "idle"]
    /\ has = {} /\ leased = {} /\ busy = {}
    /\ worker = "idle"
    /\ inside = {}

-----------------------------------------------------------------------------
(* The sorted sets. *)

Old == {s \in slots : age[s] >= SlotTTL}

OldLeases == {c \in leases : leaseAge[c] >= LeaseTTL}

\* ZREMRANGEBYSCORE on the regular set, then the members the script adds.
PurgeSlots(added) ==
    /\ slots' = (slots \ Old) \union added
    /\ age' = [s \in Sessions |-> IF s \in Old \union added THEN 0 ELSE age[s]]

\* The same on the live set; a member that is there already is refreshed.
PurgeLeases(added) ==
    /\ leases' = (leases \ OldLeases) \union added
    /\ leaseAge' = [c \in Calls |->
                      IF c \in OldLeases \union added THEN 0 ELSE leaseAge[c]]

\* The owners that a purge forgets.
Forgotten == Old \cap has

ForgottenLeases == OldLeases \cap leased

\* Mutant: the comparison is <= instead of <.
CountLessOne ==
    LET n == Cardinality(slots \ Old) + Cardinality(leases \ OldLeases)
    IN  IF n = 0 THEN 0 ELSE n - 1

\* ZCARD of both sets after the purge.
Count == Cardinality(slots \ Old) + Cardinality(leases \ OldLeases)

Alive(s) == up[Home[s]] = "up"

Goto(s, p) == at' = [at EXCEPT ![s] = p]

-----------------------------------------------------------------------------
(* A session and its slot. *)

Begin(s) ==
    /\ at[s] = "idle" /\ Alive(s)
    /\ Goto(s, "try")
    /\ UNCHANGED <<redis, procs, has, leased, busy, inside>>

\* A waiter tries again or gives up; a first attempt queues, unless it is a
\* call's, or fails.
Refused(s) ==
    IF at[s] = "wait" THEN UNCHANGED at
    ELSE Goto(s, IF s \in Calls THEN "end" ELSE "queue")

Failed(s) == Goto(s, IF at[s] = "wait" THEN "gave_up" ELSE "end")

\* What follows the wait queue, the slot or the release.  A call whose upstream
\* session could not be created or saved drops its lease.
Proceed(s) ==
    IF s \in has THEN Goto(s, IF s \in Calls THEN "lease" ELSE "run")
    ELSE IF s \in leased THEN Goto(s, "live") \/ Goto(s, "drop")
    ELSE Goto(s, "end")

\* AcquireUserSlot, AcquireAccountSlot: the script, then the index.  When the
\* answer is lost the member stays and nobody releases it.
AcquireSlot(s) ==
    /\ at[s] \in {"try", "wait"} /\ Alive(s)
    /\ \/ /\ Count < Limit
          /\ PurgeSlots({s}) /\ PurgeLeases({})
          /\ \/ /\ indexed' = TRUE
                /\ has' = has \union {s}
                /\ inside' = (inside \ (Forgotten \union ForgottenLeases)) \union {s}
                /\ Goto(s, IF at[s] = "wait" THEN "won"
                           ELSE IF s \in Calls THEN "lease" ELSE "run")
             \/ /\ Failed(s)
                /\ inside' = inside \ (Forgotten \union ForgottenLeases)
                /\ UNCHANGED <<indexed, has>>
       \/ /\ Count >= Limit
          /\ PurgeSlots({}) /\ PurgeLeases({})
          /\ inside' = inside \ (Forgotten \union ForgottenLeases)
          /\ Refused(s)
          /\ UNCHANGED <<indexed, has>>
       \/ /\ Failed(s)
          /\ UNCHANGED <<slots, age, leases, leaseAge, inside, indexed, has>>
    /\ UNCHANGED <<waiting, procs, leased, busy>>

\* IncrementWaitCount: an error lets the request wait uncounted.
Queue(s) ==
    /\ at[s] = "queue" /\ Alive(s)
    /\ \/ /\ waiting < QueueLimit
          /\ waiting' = waiting + 1
          /\ indexed' \in {indexed, TRUE}
          /\ Goto(s, "wait")
       \/ /\ waiting >= QueueLimit
          /\ Goto(s, "end")
          /\ UNCHANGED <<waiting, indexed>>
       \/ /\ Goto(s, "wait")
          /\ UNCHANGED <<waiting, indexed>>
    /\ UNCHANGED <<slots, age, leases, leaseAge, procs, has, leased, busy, inside>>

\* The wait ends without a slot: its time is over or the client is gone.
Timeout(s) ==
    /\ at[s] = "wait" /\ Alive(s)
    /\ Goto(s, "gave_up")
    /\ UNCHANGED <<redis, procs, has, leased, busy, inside>>

\* DecrementWaitCount, then refreshActiveIndex; an error is only logged.
Dequeue(s) ==
    /\ at[s] \in {"won", "gave_up"} /\ Alive(s)
    /\ \/ /\ waiting' = IF waiting > 0 THEN waiting - 1 ELSE 0
          /\ Goto(s, "load") \/ Proceed(s)
       \/ /\ Proceed(s)
          /\ UNCHANGED waiting
    /\ UNCHANGED <<slots, age, leases, leaseAge, indexed, procs, has, leased,
                   busy, inside>>

\* The upstream request is over, or the client is gone.
Finish(s) ==
    /\ at[s] \in {"run", "create"} /\ Alive(s)
    /\ Goto(s, "release") \/ (at[s] = "create" /\ Goto(s, "drop"))
    /\ UNCHANGED <<redis, procs, has, leased, busy, inside>>

\* ReleaseUserSlot, ReleaseAccountSlot: an error leaves the member behind.
ReleaseSlot(s) ==
    /\ at[s] = "release" /\ Alive(s)
    /\ has' = has \ {s}
    /\ inside' = IF s \in leased THEN inside ELSE inside \ {s}
    /\ \/ /\ slots' = slots \ {s}
          /\ age' = [age EXCEPT ![s] = 0]
          /\ Goto(s, "load")
       \/ /\ Goto(s, IF s \in leased THEN "live" ELSE "end")
          /\ UNCHANGED <<slots, age>>
    /\ UNCHANGED <<leases, leaseAge, waiting, indexed, procs, leased, busy>>

\* refreshActiveIndex reads the load; leases do not count ...
ReadLoad(s) ==
    /\ at[s] = "load" /\ Alive(s)
    /\ PurgeSlots({})
    /\ inside' = inside \ Forgotten
    /\ busy' = IF slots # Old \/ waiting > 0 THEN busy \union {s} ELSE busy
    /\ Goto(s, "index")
    /\ UNCHANGED <<leases, leaseAge, waiting, indexed, procs, has, leased>>

\* ... and writes the index by it; its error is only logged.
WriteIndex(s) ==
    /\ at[s] = "index" /\ Alive(s)
    /\ indexed' = indexed \/ indexed' = (s \in busy)
    /\ busy' = busy \ {s}
    /\ Proceed(s)
    /\ UNCHANGED <<slots, age, leases, leaseAge, waiting, procs, has, leased,
                   inside>>

-----------------------------------------------------------------------------
(* The lease of a live call. *)

\* The replacing allowance: the call's own regular slot is still counted.
\* Expired regular slots are counted too, this script does not purge them.
Room == Cardinality(slots) + Cardinality(leases \ OldLeases) < Limit + 1

\* AcquireLiveLease; it is refused for want of room on the other side too.
AcquireLease(c) ==
    /\ at[c] = "lease" /\ Alive(c)
    /\ \/ /\ Room
          /\ PurgeLeases({c})
          /\ inside' = inside \ ForgottenLeases
          /\ \/ leased' = leased \union {c} /\ Goto(c, "create")
             \/ UNCHANGED leased /\ Goto(c, "release")
       \/ /\ PurgeLeases({})
          /\ inside' = inside \ ForgottenLeases
          /\ Goto(c, "release")
          /\ UNCHANGED leased
       \/ Goto(c, "release") /\ UNCHANGED <<leases, leaseAge, inside, leased>>
    /\ UNCHANGED <<slots, age, waiting, indexed, procs, has, busy>>

\* ReleaseLiveLease; when it fails, or the call could not be marked closed, the
\* lease runs out by itself.
DropLease(c) ==
    /\ at[c] = "drop" /\ Alive(c)
    /\ leased' = leased \ {c}
    /\ inside' = IF c \in has THEN inside ELSE inside \ {c}
    /\ \/ /\ leases' = leases \ {c}
          /\ leaseAge' = [leaseAge EXCEPT ![c] = 0]
       \/ UNCHANGED <<leases, leaseAge>>
    /\ Goto(c, IF c \in has THEN "release" ELSE "end")
    /\ UNCHANGED <<slots, age, waiting, indexed, procs, has, busy>>

\* RefreshLiveLease: the call ends when the lease is gone or Redis fails.
RefreshLease(c) ==
    /\ at[c] = "live" /\ Alive(c)
    /\ \/ /\ c \in leases \ OldLeases
          /\ PurgeLeases({c})
          /\ inside' = inside \ ForgottenLeases
          /\ UNCHANGED at
       \/ /\ c \notin leases \ OldLeases
          /\ PurgeLeases({})
          /\ inside' = inside \ ForgottenLeases
          /\ Goto(c, "drop")
       \/ Goto(c, "drop") /\ UNCHANGED <<leases, leaseAge, inside>>
    /\ UNCHANGED <<slots, age, waiting, indexed, procs, has, leased, busy>>

\* The client or the provider ends the call, or its time is over.
HangUp(c) ==
    /\ at[c] = "live" /\ Alive(c)
    /\ Goto(c, "drop")
    /\ UNCHANGED <<redis, procs, has, leased, busy, inside>>

-----------------------------------------------------------------------------
(* Time, the readers that purge, and the processes. *)

Older(n, ttl) == IF n < ttl THEN n + 1 ELSE n

Tick ==
    /\ slots # Old \/ leases # OldLeases
    /\ age' = [s \in Sessions |->
                 IF s \in slots THEN Older(age[s], SlotTTL) ELSE age[s]]
    /\ leaseAge' = [c \in Calls |->
                 IF c \in leases THEN Older(leaseAge[c], LeaseTTL) ELSE leaseAge[c]]
    /\ UNCHANGED <<slots, leases, waiting, indexed, procs, local, inside>>

\* Every count purges both sets, and the keys expire with their last member.
Purge ==
    /\ Old # {} \/ OldLeases # {}
    /\ PurgeSlots({}) /\ PurgeLeases({})
    /\ inside' = inside \ (Forgotten \union ForgottenLeases)
    /\ UNCHANGED <<waiting, indexed, procs, local>>

\* The counter of the queue expires when nobody joined the queue for longer
\* than a waiter may wait.
WaitExpires ==
    /\ waiting > 0
    /\ \A s \in Sessions : at[s] \notin Waiters
    /\ waiting' = 0
    /\ UNCHANGED <<slots, age, leases, leaseAge, indexed, procs, local, inside>>

\* reconcileExpiredIndexCandidates, when the score in the index is due, reads
\* the load ...
ReconcileReads ==
    /\ indexed /\ worker = "idle"
    /\ PurgeSlots({})
    /\ inside' = inside \ Forgotten
    /\ worker' = IF slots # Old \/ waiting > 0 THEN "keep" ELSE "remove"
    /\ UNCHANGED <<leases, leaseAge, waiting, indexed, up, local>>

\* Mutant: a key without load stays in the index.
ReconcileKeeps ==
    /\ worker # "idle"
    /\ worker' = "idle"
    /\ UNCHANGED <<redis, up, local, inside>>

\* ... and writes the index by it; an error is only logged.
ReconcileWrites ==
    /\ worker # "idle"
    /\ worker' = "idle"
    /\ indexed' = (worker = "keep")
    /\ UNCHANGED <<slots, age, leases, leaseAge, waiting, up, local, inside>>

Start(p) ==
    /\ up[p] = "off"
    /\ up' = [up EXCEPT ![p] = "sweep"]
    /\ UNCHANGED <<redis, local, worker, inside>>

\* CleanupStaleProcessSlots: when the index names the key, the script and the
\* deletion of the counter.  An error is only logged.
Sweep(p) ==
    LET gone == {s \in slots : Home[s] # p} IN
    /\ up[p] = "sweep"
    /\ \/ /\ indexed
          /\ slots' = slots \ gone
          /\ age' = [s \in Sessions |-> IF s \in gone THEN 0 ELSE age[s]]
          /\ inside' = inside \ (gone \cap has)
          /\ \/ /\ waiting' = 0
                /\ up' = [up EXCEPT ![p] = "unindex"]
             \/ /\ up' = [up EXCEPT ![p] = "up"]
                /\ UNCHANGED waiting
       \/ /\ up' = [up EXCEPT ![p] = "up"]
          /\ UNCHANGED <<slots, age, inside, waiting>>
    /\ UNCHANGED <<leases, leaseAge, indexed, local, worker>>

\* A process that starts has no slot yet, so no member remains.
Unindex(p) ==
    /\ up[p] = "unindex"
    /\ indexed' = FALSE
    /\ up' = [up EXCEPT ![p] = "up"]
    /\ UNCHANGED <<slots, age, leases, leaseAge, waiting, local, worker, inside>>

\* The process stops: its sessions end, what they had in Redis stays.
Crash(p) ==
    LET mine == {s \in Sessions : Home[s] = p /\ at[s] # "idle"} IN
    /\ up[p] = "up"
    /\ up' = [up EXCEPT ![p] = "dead"]
    /\ at' = [s \in Sessions |-> IF s \in mine THEN "end" ELSE at[s]]
    /\ has' = has \ mine
    /\ leased' = leased \ mine
    /\ busy' = busy \ mine
    /\ worker' \in {worker, "idle"}
    /\ inside' = inside \ mine
    /\ UNCHANGED redis

-----------------------------------------------------------------------------
SessionStep(s) ==
    \/ AcquireSlot(s) \/ Queue(s) \/ Timeout(s) \/ Dequeue(s) \/ Finish(s)
    \/ ReleaseSlot(s) \/ ReadLoad(s) \/ WriteIndex(s)

CallStep(c) == AcquireLease(c) \/ DropLease(c)

Next ==
    \/ \E s \in Sessions : Begin(s) \/ SessionStep(s)
    \/ \E c \in Calls : CallStep(c) \/ RefreshLease(c) \/ HangUp(c)
    \/ Tick \/ Purge \/ WaitExpires \/ ReconcileReads \/ ReconcileWrites
    \/ \E p \in Processes : Start(p) \/ Sweep(p) \/ Unindex(p) \/ Crash(p)

Spec == Init /\ [][Next]_vars

\* A handler goes on until it returns and a call ends at its deadline, the clock
\* runs, keys expire and the cleanup worker runs.  Nothing is assumed of clients.
Fairness ==
    /\ \A s \in Sessions : WF_vars(SessionStep(s))
    /\ \A c \in Calls : WF_vars(CallStep(c)) /\ WF_vars(HangUp(c))
    /\ WF_vars(Tick) /\ WF_vars(Purge) /\ WF_vars(WaitExpires)
    /\ WF_vars(ReconcileReads) /\ WF_vars(ReconcileWrites)

FairSpec == Spec /\ Fairness

-----------------------------------------------------------------------------
(* Properties. *)

\* A user or an account never has more sessions at work than its limit, leaving
\* aside those that outlived their slot and those of before another process
\* started: whatever failed releases, lost answers and crashes leave behind, and
\* however a call's lease overlaps the slot it replaces.
LimitHolds == Cardinality(inside) <= Limit

\* The two sets together never hold more than one member over the limit, the
\* one by which a live call replaces its regular slot.
OneReplacement == Cardinality(slots) + Cardinality(leases) <= Limit + 1

S == INSTANCE Semaphore WITH holders <- inside

\* Slots and leases implement a semaphore: a session comes in only while there
\* is room, and the step from slot to lease lets nobody else in.
SlotsImplementSemaphore == S!Spec

\* Whatever failed, once the sessions are over their slots, leases, counters and
\* index entries go.
EverythingDrains ==
    <>[](slots = {} /\ leases = {} /\ waiting = 0 /\ ~indexed)
=============================================================================
