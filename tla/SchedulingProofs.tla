--------------------------- MODULE SchedulingProofs ---------------------------
(***************************************************************************)
(* Proofs about the two components that decide which account serves a      *)
(* request: ConcurrencySlots, for any number of requests, live calls and   *)
(* processes and any limits and times to live; and, in the second half,    *)
(* SchedulerSnapshot, for any number of outbox workers, full rebuilds and  *)
(* readers and any number of changes and failures.                         *)
(***************************************************************************)
EXTENDS ConcurrencySlots, SchedulerSnapshot, FiniteSetTheorems, WellFoundedInduction, TLAPS

\* A session that has not got through holds nothing.
OutsideHoldsNothing ==
    \A s \in Sessions :
        at[s] \in {"idle", "try", "queue", "wait"} => s \notin has \union leased

\* A session that was let in, and whom nobody forgot, is a member of the sets
\* that it believes to be in.
InsideIsMember ==
    \A s \in inside :
        /\ s \in has \union leased
        /\ s \in has => s \in slots
        /\ s \in leased => s \in leases

\* The inductive invariant.
IInv ==
    /\ TypeOK
    /\ OutsideHoldsNothing
    /\ InsideIsMember
    /\ LimitHolds
    /\ OneReplacement

-----------------------------------------------------------------------------
(* Cardinalities. *)

\* Every set of sessions is finite and has a size.
LEMMA SetsAreFinite ==
  ASSUME NEW A \in SUBSET Sessions
  PROVE  IsFiniteSet(A) /\ Cardinality(A) \in Nat
BY SessionAssumption, FS_Subset, FS_CardinalityType DEF SessionAssumption

\* A subset of a set of sessions is not larger.
LEMMA SubsetIsSmaller ==
  ASSUME NEW A \in SUBSET Sessions, NEW B \in SUBSET A
  PROVE  Cardinality(B) \in Nat /\ Cardinality(A) \in Nat
         /\ Cardinality(B) <= Cardinality(A)
<1>1. A \in SUBSET Sessions /\ B \in SUBSET Sessions
  OBVIOUS
<1> QED
  BY <1>1, SetsAreFinite, FS_Subset

\* One more member makes a set at most one larger.
LEMMA OneMore ==
  ASSUME NEW A \in SUBSET Sessions, NEW s \in Sessions
  PROVE  Cardinality(A \union {s}) \in Nat
         /\ Cardinality(A \union {s}) <= Cardinality(A) + 1
BY SetsAreFinite, FS_AddElement

\* What lies in the union of two sets is not larger than both together.
LEMMA UnionBound ==
  ASSUME NEW A \in SUBSET Sessions, NEW B \in SUBSET Sessions,
         NEW C \in SUBSET (A \union B)
  PROVE  Cardinality(C) <= Cardinality(A) + Cardinality(B)
<1>1. A \union B \in SUBSET Sessions /\ A \cap B \in SUBSET Sessions
  OBVIOUS
<1>2. Cardinality(C) <= Cardinality(A \union B) /\ Cardinality(C) \in Nat
  BY <1>1, SubsetIsSmaller
<1>3. Cardinality(A \union B)
        = Cardinality(A) + Cardinality(B) - Cardinality(A \cap B)
  BY SetsAreFinite, FS_Union
<1>4. /\ Cardinality(A) \in Nat /\ Cardinality(B) \in Nat
      /\ Cardinality(A \cap B) \in Nat
  BY <1>1, SetsAreFinite
<1> QED
  BY <1>2, <1>3, <1>4

-----------------------------------------------------------------------------
(* Type correctness. *)

\* The initial state is well typed.
LEMMA InitTypeOK == Init => TypeOK
<1> SUFFICES ASSUME Init PROVE TypeOK
  OBVIOUS
<1>1. age \in [Sessions -> 0 .. SlotTTL] /\ leaseAge \in [Calls -> 0 .. LeaseTTL]
  BY TTLAssumption DEF Init, TTLAssumption
<1>2. waiting \in 0 .. QueueLimit
  BY LimitAssumption DEF Init, LimitAssumption
<1>3. indexed \in BOOLEAN
  BY Zenon DEF Init
<1>4. /\ up \in [Processes -> {"off", "sweep", "unindex", "up", "dead"}]
      /\ at \in [Sessions -> Points]
  BY DEF Init, Points
<1> QED
  BY <1>1, <1>2, <1>3, <1>4 DEF Init, TypeOK

\* The purge of the regular set keeps the types of the set and its ages.
LEMMA PurgeSlotsType ==
  ASSUME TypeOK, NEW A \in SUBSET Sessions, PurgeSlots(A)
  PROVE  slots' \in SUBSET Sessions /\ age' \in [Sessions -> 0 .. SlotTTL]
BY TTLAssumption DEF TypeOK, PurgeSlots, TTLAssumption

\* The purge of the live set keeps the types of the set and its ages.
LEMMA PurgeLeasesType ==
  ASSUME TypeOK, NEW A \in SUBSET Calls, PurgeLeases(A)
  PROVE  leases' \in SUBSET Calls /\ leaseAge' \in [Calls -> 0 .. LeaseTTL]
BY TTLAssumption DEF TypeOK, PurgeLeases, TTLAssumption

\* The steps of a handler keep the types.
LEMMA SessionTypeOK ==
  ASSUME TypeOK, NEW s \in Sessions, Begin(s) \/ SessionStep(s)
  PROVE  TypeOK'
<1> USE DEF Points, Waiters, Goto, procs, redis
<1>1. CASE Begin(s)
  BY <1>1 DEF Begin, TypeOK
<1>2. CASE AcquireSlot(s)
  <2>1. slots' \in SUBSET Sessions /\ age' \in [Sessions -> 0 .. SlotTTL]
    <3>1. CASE PurgeSlots({s})
      BY <3>1, PurgeSlotsType
    <3>2. CASE PurgeSlots({})
      BY <3>2, PurgeSlotsType
    <3>3. CASE UNCHANGED <<slots, age>>
      BY <3>3 DEF TypeOK
    <3> QED
      BY <1>2, <3>1, <3>2, <3>3 DEF AcquireSlot
  <2>2. leases' \in SUBSET Calls /\ leaseAge' \in [Calls -> 0 .. LeaseTTL]
    <3>1. CASE PurgeLeases({})
      BY <3>1, PurgeLeasesType
    <3>2. CASE UNCHANGED <<leases, leaseAge>>
      BY <3>2 DEF TypeOK
    <3> QED
      BY <1>2, <3>1, <3>2 DEF AcquireSlot
  <2>3. at' \in [Sessions -> Points]
    BY <1>2 DEF AcquireSlot, Failed, Refused, TypeOK
  <2>4. inside' \in SUBSET Sessions /\ has' \in SUBSET Sessions
    BY <1>2 DEF AcquireSlot, TypeOK
  <2>5. indexed' \in BOOLEAN
    BY <1>2, Zenon DEF AcquireSlot, TypeOK
  <2> QED
    BY <1>2, <2>1, <2>2, <2>3, <2>4, <2>5 DEF AcquireSlot, TypeOK
<1>3. CASE Queue(s)
  <2>1. waiting' \in 0 .. QueueLimit
    <3>1. \/ waiting < QueueLimit /\ waiting' = waiting + 1
          \/ waiting' = waiting
      BY <1>3, Zenon DEF Queue
    <3> QED
      BY <3>1, LimitAssumption DEF TypeOK, LimitAssumption
  <2>2. indexed' \in BOOLEAN
    <3>1. indexed' \in {indexed, TRUE}
      BY <1>3 DEF Queue
    <3> QED
      BY <3>1, Zenon DEF TypeOK
  <2> QED
    BY <1>3, <2>1, <2>2 DEF Queue, TypeOK
<1>4. CASE Timeout(s)
  BY <1>4 DEF Timeout, TypeOK
<1>5. CASE Dequeue(s)
  BY <1>5, LimitAssumption DEF Dequeue, Proceed, TypeOK, LimitAssumption
<1>6. CASE Finish(s)
  BY <1>6 DEF Finish, TypeOK
<1>7. CASE ReleaseSlot(s)
  BY <1>7, TTLAssumption DEF ReleaseSlot, TypeOK, TTLAssumption
<1>8. CASE ReadLoad(s)
  <2>1. slots' \in SUBSET Sessions /\ age' \in [Sessions -> 0 .. SlotTTL]
    BY <1>8, PurgeSlotsType DEF ReadLoad
  <2> QED
    BY <1>8, <2>1 DEF ReadLoad, TypeOK
<1>9. CASE WriteIndex(s)
  <2>1. indexed' \in BOOLEAN
    <3>1. indexed' = indexed \/ indexed' = (s \in busy)
      BY <1>9, Zenon DEF WriteIndex
    <3>2. (s \in busy) \in BOOLEAN
      OBVIOUS
    <3> QED
      BY <3>1, <3>2, Zenon DEF TypeOK
  <2> QED
    BY <1>9, <2>1 DEF WriteIndex, Proceed, TypeOK
<1> QED
  BY <1>1, <1>2, <1>3, <1>4, <1>5, <1>6, <1>7, <1>8, <1>9 DEF SessionStep

\* The steps of a live call keep the types.
LEMMA CallTypeOK ==
  ASSUME TypeOK, NEW c \in Calls, CallStep(c) \/ RefreshLease(c) \/ HangUp(c)
  PROVE  TypeOK'
<1> USE DEF Points, Waiters, Goto, procs, redis, Sessions
<1>1. CASE AcquireLease(c)
  <2>1. leases' \in SUBSET Calls /\ leaseAge' \in [Calls -> 0 .. LeaseTTL]
    <3>1. CASE PurgeLeases({c})
      BY <3>1, PurgeLeasesType
    <3>2. CASE PurgeLeases({})
      BY <3>2, PurgeLeasesType
    <3>3. CASE UNCHANGED <<leases, leaseAge>>
      BY <3>3 DEF TypeOK
    <3> QED
      BY <1>1, <3>1, <3>2, <3>3 DEF AcquireLease
  <2> QED
    BY <1>1, <2>1 DEF AcquireLease, TypeOK
<1>2. CASE DropLease(c)
  BY <1>2, TTLAssumption DEF DropLease, TypeOK, TTLAssumption
<1>3. CASE RefreshLease(c)
  <2>1. leases' \in SUBSET Calls /\ leaseAge' \in [Calls -> 0 .. LeaseTTL]
    <3>1. CASE PurgeLeases({c})
      BY <3>1, PurgeLeasesType
    <3>2. CASE PurgeLeases({})
      BY <3>2, PurgeLeasesType
    <3>3. CASE UNCHANGED <<leases, leaseAge>>
      BY <3>3 DEF TypeOK
    <3> QED
      BY <1>3, <3>1, <3>2, <3>3 DEF RefreshLease
  <2> QED
    BY <1>3, <2>1 DEF RefreshLease, TypeOK
<1>4. CASE HangUp(c)
  BY <1>4 DEF HangUp, TypeOK
<1> QED
  BY <1>1, <1>2, <1>3, <1>4 DEF CallStep

\* Time, the readers that purge and the processes keep the types.
LEMMA SystemTypeOK ==
  ASSUME TypeOK,
         \/ Tick \/ Purge \/ WaitExpires \/ ReconcileReads \/ ReconcileWrites
         \/ \E p \in Processes : Start(p) \/ Sweep(p) \/ Unindex(p) \/ Crash(p)
  PROVE  TypeOK'
<1> USE DEF procs, redis, local
<1>1. CASE Tick
  <2>1. age' \in [Sessions -> 0 .. SlotTTL]
    BY <1>1, TTLAssumption DEF Tick, Older, TypeOK, TTLAssumption
  <2>2. leaseAge' \in [Calls -> 0 .. LeaseTTL]
    BY <1>1, TTLAssumption DEF Tick, Older, TypeOK, TTLAssumption
  <2> QED
    BY <1>1, <2>1, <2>2 DEF Tick, TypeOK
<1>2. CASE Purge
  <2>1. slots' \in SUBSET Sessions /\ age' \in [Sessions -> 0 .. SlotTTL]
    BY <1>2, PurgeSlotsType DEF Purge
  <2>2. leases' \in SUBSET Calls /\ leaseAge' \in [Calls -> 0 .. LeaseTTL]
    BY <1>2, PurgeLeasesType DEF Purge
  <2> QED
    BY <1>2, <2>1, <2>2 DEF Purge, TypeOK
<1>3. CASE WaitExpires
  BY <1>3, LimitAssumption DEF WaitExpires, TypeOK, LimitAssumption
<1>4. CASE ReconcileReads
  <2>1. slots' \in SUBSET Sessions /\ age' \in [Sessions -> 0 .. SlotTTL]
    BY <1>4, PurgeSlotsType DEF ReconcileReads
  <2> QED
    BY <1>4, <2>1 DEF ReconcileReads, TypeOK
<1>5. CASE ReconcileWrites
  <2>1. indexed' \in BOOLEAN
    BY <1>5, Zenon DEF ReconcileWrites
  <2> QED
    BY <1>5, <2>1 DEF ReconcileWrites, TypeOK
<1>6. ASSUME NEW p \in Processes, Start(p) PROVE TypeOK'
  BY <1>6 DEF Start, TypeOK
<1>7. ASSUME NEW p \in Processes, Sweep(p) PROVE TypeOK'
  <2>1. age' \in [Sessions -> 0 .. SlotTTL]
    BY <1>7, TTLAssumption DEF Sweep, TypeOK, TTLAssumption
  <2>2. waiting' \in 0 .. QueueLimit
    BY <1>7, LimitAssumption DEF Sweep, TypeOK, LimitAssumption
  <2>3. up' \in [Processes -> {"off", "sweep", "unindex", "up", "dead"}]
    BY <1>7 DEF Sweep, TypeOK
  <2>4. slots' \in SUBSET Sessions /\ inside' \in SUBSET Sessions
    BY <1>7 DEF Sweep, TypeOK
  <2> QED
    BY <1>7, <2>1, <2>2, <2>3, <2>4 DEF Sweep, TypeOK
<1>8. ASSUME NEW p \in Processes, Unindex(p) PROVE TypeOK'
  BY <1>8 DEF Unindex, TypeOK
<1>9. ASSUME NEW p \in Processes, Crash(p) PROVE TypeOK'
  <2>1. at' \in [Sessions -> Points]
    BY <1>9 DEF Crash, TypeOK, Points
  <2>2. worker' \in {"idle", "keep", "remove"}
    BY <1>9 DEF Crash, TypeOK
  <2> QED
    BY <1>9, <2>1, <2>2 DEF Crash, TypeOK
<1> QED
  BY <1>1, <1>2, <1>3, <1>4, <1>5, <1>6, <1>7, <1>8, <1>9

\* Every step keeps the types.
LEMMA NextTypeOK == TypeOK /\ [Next]_vars => TypeOK'
<1>1. ASSUME TypeOK, UNCHANGED vars PROVE TypeOK'
  BY <1>1 DEF vars, TypeOK
<1> QED
  BY <1>1, SessionTypeOK, CallTypeOK, SystemTypeOK DEF Next

-----------------------------------------------------------------------------
(* The invariant. *)

\* Who holds nothing is not let in without a step of AcquireSlot.
LEMMA NextOutside ==
  ASSUME TypeOK, OutsideHoldsNothing, [Next]_vars
  PROVE  OutsideHoldsNothing'
<1> USE DEF OutsideHoldsNothing, Goto, procs, redis, local
<1>1. ASSUME NEW s \in Sessions, Begin(s) \/ SessionStep(s)
      PROVE  OutsideHoldsNothing'
  <2>1. CASE Begin(s)
    BY <2>1 DEF Begin, TypeOK
  <2>2. CASE AcquireSlot(s)
    BY <2>2 DEF AcquireSlot, Failed, Refused, TypeOK
  <2>3. CASE Queue(s)
    <3>1. at' = [at EXCEPT ![s] = "wait"] \/ at' = [at EXCEPT ![s] = "end"]
      BY <2>3, Zenon DEF Queue
    <3> QED
      BY <2>3, <3>1, Zenon DEF Queue, TypeOK
  <2>4. CASE Timeout(s)
    BY <2>4 DEF Timeout, TypeOK
  <2>5. CASE Dequeue(s)
    BY <2>5 DEF Dequeue, Proceed, TypeOK
  <2>6. CASE Finish(s)
    BY <2>6 DEF Finish, TypeOK
  <2>7. CASE ReleaseSlot(s)
    BY <2>7 DEF ReleaseSlot, TypeOK
  <2>8. CASE ReadLoad(s)
    BY <2>8 DEF ReadLoad, TypeOK
  <2>9. CASE WriteIndex(s)
    BY <2>9 DEF WriteIndex, Proceed, TypeOK
  <2> QED
    BY <1>1, <2>1, <2>2, <2>3, <2>4, <2>5, <2>6, <2>7, <2>8, <2>9 DEF SessionStep
<1>2. ASSUME NEW c \in Calls, CallStep(c) \/ RefreshLease(c) \/ HangUp(c)
      PROVE  OutsideHoldsNothing'
  <2>1. CASE AcquireLease(c)
    BY <1>2, <2>1 DEF AcquireLease, TypeOK
  <2>2. CASE DropLease(c)
    BY <1>2, <2>2 DEF DropLease, TypeOK
  <2>3. CASE RefreshLease(c)
    BY <1>2, <2>3 DEF RefreshLease, TypeOK
  <2>4. CASE HangUp(c)
    BY <1>2, <2>4 DEF HangUp, TypeOK
  <2> QED
    BY <1>2, <2>1, <2>2, <2>3, <2>4 DEF CallStep
<1>3. ASSUME UNCHANGED local PROVE OutsideHoldsNothing'
  BY <1>3
<1>4. ASSUME NEW p \in Processes, Crash(p) PROVE OutsideHoldsNothing'
  BY <1>4 DEF Crash, TypeOK
<1>5. ASSUME \/ Tick \/ Purge \/ WaitExpires \/ ReconcileReads \/ ReconcileWrites
             \/ \E p \in Processes : Start(p) \/ Sweep(p) \/ Unindex(p)
             \/ UNCHANGED vars
      PROVE  UNCHANGED local
  BY <1>5 DEF Tick, Purge, WaitExpires, ReconcileReads, ReconcileWrites, Start,
              Sweep, Unindex, vars
<1> QED
  BY <1>1, <1>2, <1>3, <1>4, <1>5 DEF Next

\* Whoever is let in is a member, and whoever is removed is no longer inside.
LEMMA NextMember ==
  ASSUME TypeOK, OutsideHoldsNothing, InsideIsMember, [Next]_vars
  PROVE  InsideIsMember'
<1> USE DEF InsideIsMember, procs, redis, local
<1>1. ASSUME NEW s \in Sessions, Begin(s) \/ SessionStep(s)
      PROVE  InsideIsMember'
  <2>1. CASE Begin(s)
    BY <2>1 DEF Begin
  <2>2. CASE AcquireSlot(s)
    <3>1. s \notin has \union leased
      BY <2>2 DEF AcquireSlot, OutsideHoldsNothing
    <3>2. CASE PurgeSlots({s}) /\ has' = has \union {s}
      BY <2>2, <3>1, <3>2
         DEF AcquireSlot, PurgeSlots, PurgeLeases, Forgotten, ForgottenLeases
    <3>3. CASE has' = has
      BY <2>2, <3>1, <3>3
         DEF AcquireSlot, PurgeSlots, PurgeLeases, Forgotten, ForgottenLeases
    <3> QED
      BY <2>2, <3>2, <3>3 DEF AcquireSlot
  <2>3. CASE UNCHANGED <<slots, leases, has, leased, inside>>
    BY <2>3
  <2>4. CASE ReleaseSlot(s)
    BY <2>4 DEF ReleaseSlot
  <2>5. CASE ReadLoad(s)
    BY <2>5 DEF ReadLoad, PurgeSlots, Forgotten
  <2> QED
    BY <1>1, <2>1, <2>2, <2>3, <2>4, <2>5
       DEF SessionStep, Queue, Timeout, Dequeue, Finish, WriteIndex
<1>2. ASSUME NEW c \in Calls, CallStep(c) \/ RefreshLease(c) \/ HangUp(c)
      PROVE  InsideIsMember'
  <2>1. CASE AcquireLease(c)
    BY <2>1 DEF AcquireLease, PurgeLeases, ForgottenLeases
  <2>2. CASE DropLease(c)
    BY <2>2 DEF DropLease
  <2>3. CASE RefreshLease(c)
    BY <2>3 DEF RefreshLease, PurgeLeases, ForgottenLeases
  <2>4. CASE HangUp(c)
    BY <2>4 DEF HangUp
  <2> QED
    BY <1>2, <2>1, <2>2, <2>3, <2>4 DEF CallStep
<1>3. CASE UNCHANGED <<slots, leases, has, leased, inside>>
  BY <1>3
<1>4. CASE Purge
  BY <1>4 DEF Purge, PurgeSlots, PurgeLeases, Forgotten, ForgottenLeases
<1>5. CASE ReconcileReads
  BY <1>5 DEF ReconcileReads, PurgeSlots, Forgotten
<1>6. ASSUME NEW p \in Processes, Sweep(p) PROVE InsideIsMember'
  BY <1>6 DEF Sweep
<1>7. ASSUME NEW p \in Processes, Crash(p) PROVE InsideIsMember'
  BY <1>7 DEF Crash
<1>8. ASSUME \/ Tick \/ WaitExpires \/ ReconcileWrites
             \/ \E p \in Processes : Start(p) \/ Unindex(p)
             \/ UNCHANGED vars
      PROVE  UNCHANGED <<slots, leases, has, leased, inside>>
  BY <1>8 DEF Tick, WaitExpires, ReconcileWrites, Start, Unindex, vars
<1> QED
  BY <1>1, <1>2, <1>3, <1>4, <1>5, <1>6, <1>7, <1>8 DEF Next

\* Only AcquireSlot lets a session in: one that is not inside, while fewer than
\* Limit of those it does not forget are.
LEMMA NextInside ==
  ASSUME IInv, [Next]_vars
  PROVE  \/ inside' \subseteq inside
         \/ \E s \in Sessions, gone \in SUBSET inside :
               /\ s \notin inside
               /\ Cardinality(inside \ gone) < Limit
               /\ inside' = (inside \ gone) \union {s}
<1> USE DEF procs, redis, local, IInv
<1>1. ASSUME NEW s \in Sessions, AcquireSlot(s), ~(inside' \subseteq inside)
      PROVE  \E gone \in SUBSET inside :
               /\ s \notin inside
               /\ Cardinality(inside \ gone) < Limit
               /\ inside' = (inside \ gone) \union {s}
  <2> DEFINE gone == inside \cap (Forgotten \union ForgottenLeases)
  <2>1. Count < Limit /\ inside' = (inside \ gone) \union {s}
    BY <1>1 DEF AcquireSlot
  <2>2. s \notin inside
    BY <1>1 DEF AcquireSlot, OutsideHoldsNothing, InsideIsMember
  <2>3. inside \ gone \subseteq (slots \ Old) \union (leases \ OldLeases)
    BY DEF InsideIsMember, Forgotten, ForgottenLeases
  <2>4. /\ slots \ Old \in SUBSET Sessions
        /\ leases \ OldLeases \in SUBSET Sessions
        /\ inside \ gone \in SUBSET Sessions
    BY DEF TypeOK, Sessions
  <2>5. Cardinality(inside \ gone) <= Count
    BY <2>3, <2>4, UnionBound DEF Count
  <2>6. Cardinality(inside \ gone) \in Nat /\ Count \in Nat /\ Limit \in Nat
    BY <2>4, SetsAreFinite, LimitAssumption DEF Count, LimitAssumption
  <2>7. Cardinality(inside \ gone) < Limit
    BY <2>1, <2>5, <2>6
  <2> QED
    BY <2>1, <2>2, <2>7
<1>2. ASSUME NEW s \in Sessions, Begin(s) \/ SessionStep(s), ~AcquireSlot(s)
      PROVE  inside' \subseteq inside
  BY <1>2 DEF Begin, SessionStep, Queue, Timeout, Dequeue, Finish, ReleaseSlot,
              ReadLoad, WriteIndex
<1>3. ASSUME NEW c \in Calls, CallStep(c) \/ RefreshLease(c) \/ HangUp(c)
      PROVE  inside' \subseteq inside
  BY <1>3 DEF CallStep, AcquireLease, DropLease, RefreshLease, HangUp
<1>4. ASSUME \/ Tick \/ Purge \/ WaitExpires \/ ReconcileReads \/ ReconcileWrites
             \/ UNCHANGED vars
      PROVE  inside' \subseteq inside
  BY <1>4 DEF Tick, Purge, WaitExpires, ReconcileReads, ReconcileWrites, vars
<1>5. ASSUME NEW p \in Processes, Start(p) \/ Sweep(p) \/ Unindex(p) \/ Crash(p)
      PROVE  inside' \subseteq inside
  BY <1>5 DEF Start, Sweep, Unindex, Crash
<1> QED
  BY <1>1, <1>2, <1>3, <1>4, <1>5 DEF Next

\* The limit on the sessions at work is kept.
LEMMA NextLimit == IInv /\ [Next]_vars => LimitHolds'
<1> SUFFICES ASSUME IInv, [Next]_vars PROVE LimitHolds'
  OBVIOUS
<1>0. Limit \in Nat /\ inside \in SUBSET Sessions /\ Cardinality(inside) <= Limit
  BY LimitAssumption DEF LimitAssumption, IInv, TypeOK, LimitHolds
<1>1. CASE inside' \subseteq inside
  BY <1>0, <1>1, SubsetIsSmaller DEF LimitHolds
<1>2. CASE \E s \in Sessions, gone \in SUBSET inside :
             /\ s \notin inside
             /\ Cardinality(inside \ gone) < Limit
             /\ inside' = (inside \ gone) \union {s}
  <2>1. PICK s \in Sessions, gone \in SUBSET inside :
               /\ Cardinality(inside \ gone) < Limit
               /\ inside' = (inside \ gone) \union {s}
    BY <1>2
  <2>2. inside \ gone \in SUBSET Sessions
    BY <1>0
  <2>3. Cardinality(inside \ gone) \in Nat
    BY <2>2, SetsAreFinite
  <2>4. /\ Cardinality(inside') \in Nat
        /\ Cardinality(inside') <= Cardinality(inside \ gone) + 1
    BY <2>1, <2>2, OneMore
  <2> QED
    BY <1>0, <2>1, <2>3, <2>4 DEF LimitHolds
<1> QED
  BY <1>1, <1>2, NextInside

\* Only AcquireSlot and AcquireLease add a member, each to its set.
LEMMA NextMembers ==
  ASSUME TypeOK, [Next]_vars
  PROVE  \/ slots' \subseteq slots /\ leases' \subseteq leases
         \/ \E s \in Sessions :
               /\ Count < Limit
               /\ slots' = (slots \ Old) \union {s}
               /\ leases' = leases \ OldLeases
         \/ \E c \in Calls :
               /\ Room
               /\ slots' = slots
               /\ leases' = (leases \ OldLeases) \union {c}
<1> USE DEF procs, redis, local
<1>1. ASSUME NEW s \in Sessions, AcquireSlot(s)
      PROVE  \/ slots' \subseteq slots /\ leases' \subseteq leases
             \/ /\ Count < Limit
                /\ slots' = (slots \ Old) \union {s}
                /\ leases' = leases \ OldLeases
  BY <1>1 DEF AcquireSlot, PurgeSlots, PurgeLeases
<1>2. ASSUME NEW s \in Sessions, Begin(s) \/ SessionStep(s), ~AcquireSlot(s)
      PROVE  slots' \subseteq slots /\ leases' \subseteq leases
  BY <1>2 DEF Begin, SessionStep, Queue, Timeout, Dequeue, Finish, ReleaseSlot,
              ReadLoad, WriteIndex, PurgeSlots
<1>3. ASSUME NEW c \in Calls, AcquireLease(c)
      PROVE  \/ slots' \subseteq slots /\ leases' \subseteq leases
             \/ /\ Room
                /\ slots' = slots
                /\ leases' = (leases \ OldLeases) \union {c}
  BY <1>3 DEF AcquireLease, PurgeLeases
<1>4. ASSUME NEW c \in Calls, DropLease(c) \/ RefreshLease(c) \/ HangUp(c)
      PROVE  slots' \subseteq slots /\ leases' \subseteq leases
  BY <1>4 DEF DropLease, RefreshLease, HangUp, PurgeLeases
<1>5. ASSUME \/ Tick \/ Purge \/ WaitExpires \/ ReconcileReads \/ ReconcileWrites
             \/ UNCHANGED vars
      PROVE  slots' \subseteq slots /\ leases' \subseteq leases
  BY <1>5 DEF Tick, Purge, WaitExpires, ReconcileReads, ReconcileWrites, vars,
              PurgeSlots, PurgeLeases
<1>6. ASSUME NEW p \in Processes, Start(p) \/ Sweep(p) \/ Unindex(p) \/ Crash(p)
      PROVE  slots' \subseteq slots /\ leases' \subseteq leases
  BY <1>6 DEF Start, Sweep, Unindex, Crash
<1> QED
  BY <1>1, <1>2, <1>3, <1>4, <1>5, <1>6 DEF Next, CallStep

\* The sets never hold more than one member over the limit.
LEMMA NextReplacement == IInv /\ [Next]_vars => OneReplacement'
<1> SUFFICES ASSUME IInv, [Next]_vars PROVE OneReplacement'
  OBVIOUS
<1> USE DEF OneReplacement
<1>0. /\ Limit \in Nat
      /\ slots \in SUBSET Sessions /\ leases \in SUBSET Sessions
      /\ slots \ Old \in SUBSET Sessions /\ leases \ OldLeases \in SUBSET Sessions
      /\ Cardinality(slots) + Cardinality(leases) <= Limit + 1
  BY LimitAssumption DEF LimitAssumption, IInv, TypeOK, Sessions
<1>1. /\ Cardinality(slots) \in Nat /\ Cardinality(leases) \in Nat
      /\ Cardinality(slots \ Old) \in Nat
      /\ Cardinality(leases \ OldLeases) \in Nat
  BY <1>0, SetsAreFinite
<1>2. CASE slots' \subseteq slots /\ leases' \subseteq leases
  <2>1. /\ Cardinality(slots') \in Nat /\ Cardinality(leases') \in Nat
        /\ Cardinality(slots') <= Cardinality(slots)
        /\ Cardinality(leases') <= Cardinality(leases)
    BY <1>0, <1>2, SubsetIsSmaller
  <2> QED
    BY <1>0, <1>1, <2>1
<1>3. ASSUME NEW s \in Sessions, Count < Limit,
             slots' = (slots \ Old) \union {s}, leases' = leases \ OldLeases
      PROVE  OneReplacement'
  <2>1. /\ Cardinality(slots') \in Nat
        /\ Cardinality(slots') <= Cardinality(slots \ Old) + 1
    BY <1>0, <1>3, OneMore
  <2> QED
    BY <1>0, <1>1, <1>3, <2>1 DEF Count
<1>4. ASSUME NEW c \in Calls, Room,
             slots' = slots, leases' = (leases \ OldLeases) \union {c}
      PROVE  OneReplacement'
  <2>1. /\ Cardinality(leases') \in Nat
        /\ Cardinality(leases') <= Cardinality(leases \ OldLeases) + 1
    BY <1>0, <1>4, OneMore DEF Sessions
  <2> QED
    BY <1>0, <1>1, <1>4, <2>1 DEF Room
<1> QED
  BY <1>2, <1>3, <1>4, NextMembers DEF IInv

\* The invariant holds at the start.
LEMMA InitIInv == Init => IInv
<1> SUFFICES ASSUME Init PROVE IInv
  OBVIOUS
<1>1. Cardinality({}) = 0
  BY FS_EmptySet
<1> QED
  BY <1>1, InitTypeOK, LimitAssumption
     DEF Init, IInv, OutsideHoldsNothing, InsideIsMember, LimitHolds,
         OneReplacement, LimitAssumption

\* The invariant is inductive.
LEMMA NextIInv == IInv /\ [Next]_vars => IInv'
BY NextTypeOK, NextOutside, NextMember, NextLimit, NextReplacement DEF IInv

\* The invariant holds in every reachable state.
LEMMA SpecIInv == Spec => []IInv
BY InitIInv, NextIInv, PTL DEF Spec

-----------------------------------------------------------------------------
\* The sorted sets, the counter of the queue, which never goes below zero or
\* over its limit, and the handlers keep their types.
THEOREM TypeCorrect == Spec => []TypeOK
BY SpecIInv, PTL DEF IInv

\* However many requests and live calls compete, and whatever fails, no more
\* than Limit of those that nobody forgot are at work.
THEOREM LimitIsKept == Spec => []LimitHolds
BY SpecIInv, PTL DEF IInv

\* A live call's lease overlaps its slot by at most one member.
THEOREM OneReplacementOnly == Spec => []OneReplacement
BY SpecIInv, PTL DEF IInv

\* The slots and leases in Redis implement a semaphore.
THEOREM ImplementsSemaphore == Spec => SlotsImplementSemaphore
<1>1. Init => S!Init
  BY DEF Init, S!Init
<1>2. ASSUME IInv, [Next]_vars PROVE [S!Next]_inside
  <2>1. CASE inside' \subseteq inside
    <3>1. PICK gone \in SUBSET inside : inside' = inside \ gone
      <4> WITNESS inside \ inside' \in SUBSET inside
      <4> QED
        BY <2>1
    <3>2. S!Leave
      BY <3>1, Zenon DEF S!Leave
    <3> QED
      BY <3>2 DEF S!Next
  <2>2. CASE \E s \in Sessions, gone \in SUBSET inside :
               /\ s \notin inside
               /\ Cardinality(inside \ gone) < Limit
               /\ inside' = (inside \ gone) \union {s}
    <3>1. \A X : S!Cardinality(X) = Cardinality(X)
      BY Zenon DEF S!Cardinality, Cardinality
    <3> QED
      BY <2>2, <3>1 DEF S!Next, S!Enter
  <2> QED
    BY <1>2, <2>1, <2>2, NextInside
<1> QED
  BY <1>1, <1>2, SpecIInv, PTL DEF Spec, SlotsImplementSemaphore, S!Spec


-----------------------------------------------------------------------------
(* The snapshot of a bucket: the inductive invariants. *)

OneIfOpen == IF Open("account") = {} THEN 0 ELSE 1

\* At most one transaction holds a new account row, no row is where the sequence
\* has not been, and every id was paid for by a change.
IdsArePaidFor ==
    /\ \A i, j \in Open("account") : i = j
    /\ \A i \in Ids : i >= nextId => rows[i].state = "none"
    /\ unsent <= group
    /\ accounts + muted + OneIfOpen <= MaxAccount
    /\ nextId + unsent <= 1 + accounts + muted + OneIfOpen + group

\* Only rows about the group say so, and never more than has happened.
RowsTellThePast ==
    \A i \in Ids : rows[i].at <= group /\ (rows[i].kind = "account" => rows[i].at = 0)

Leaseholding == {"decide", "apply", "unlease"}

Writing == {"capture", "lock", "load", "allocate", "activate", "unlock"}

Handling == Writing \union Leaseholding \union {"lease"}

Polling == {"idle", "next", "mark", "clean"}

\* Who decides about the bucket holds the lease.
DecidersHoldLease == \A w \in Workers : pc[w] \in Leaseholding => lease = w

\* A decision that is not applied yet is not behind the last one that was.
PlansAreFresh ==
    /\ applied <= group
    /\ \A w \in Workers : pc[w] = "apply" => applied <= plan[w] /\ plan[w] <= group

\* The newest group row of a batch has taken effect, or is still to be handled.
Covered(w) ==
    \/ due[w] <= applied
    \/ /\ "group" \notin seen[w]
       /\ \E i \in todo[w] : rows[i].kind = "group" /\ rows[i].at = due[w]

BatchOf(w) ==
    /\ due[w] <= group
    /\ \A i \in todo[w] : i < nextId
    /\ Covered(w)
    /\ pc[w] = "idle" => seen[w] = {}
    /\ pc[w] \in {"mark", "clean"} => todo[w] = {}
    /\ pc[w] \in Polling => w \notin strict
    /\ pc[w] = "apply" => due[w] <= plan[w]
    /\ pc[w] = "unlease" /\ w \notin bad => due[w] <= applied
    /\ w \in strict => due[w] <= applied
    /\ pc[w] \in Handling => todo[w] # {}
    /\ pc[w] \in Writing => w \in strict \/ rows[Current(w)].kind = "account"

BatchesAreCovered == \A w \in Pollers : BatchOf(w)

\* A writer whose token is the current one has loaded its accounts after the
\* bucket was last retired.
WritersAreFresh ==
    /\ retiredAt <= accounts
    /\ \A w \in Workers :
          /\ token[w] <= epoch
          /\ pc[w] \in {"allocate", "activate"} /\ token[w] = epoch => retiredAt <= data[w]

-----------------------------------------------------------------------------
(* Least and greatest ids. *)

\* A set of ids has a least member.
LEMMA LeastId ==
  ASSUME NEW A \in SUBSET Nat, A # {}
  PROVE  \E n \in A : \A k \in A : n <= k
<1>1. PICK n \in A : \A k \in A : ~ (<<k, n>> \in OpToRel(<, Nat))
  BY NatLessThanWellFounded, WFMin
<1>2. \A k \in A : ~ (k < n)
  BY <1>1 DEF OpToRel
<1> QED
  BY <1>2

\* A bounded set of numbers has a greatest member.
LEMMA GreatestId ==
  ASSUME NEW A \in SUBSET Nat, A # {}, NEW b \in Nat, \A k \in A : k <= b
  PROVE  \E n \in A : \A k \in A : k <= n
<1> DEFINE above == {m \in Nat : \A k \in A : k <= m}
<1>1. above # {} /\ above \in SUBSET Nat
  OBVIOUS
<1>2. PICK m \in above : \A k \in above : m <= k
  BY <1>1, LeastId
<1>3. m \in A
  <2> SUFFICES ASSUME m \notin A PROVE FALSE
    OBVIOUS
  <2>1. \A k \in A : k < m
    BY <1>2
  <2>2. m \in Nat /\ m # 0 /\ m - 1 \in Nat
    <3>1. PICK k \in A : k < m
      BY <2>1
    <3>2. k \in Nat /\ m \in Nat
      OBVIOUS
    <3> QED
      BY <3>1, <3>2
  <2>3. \A k \in A : k <= m - 1
    BY <2>1, <2>2
  <2>4. m - 1 \in above
    BY <2>2, <2>3
  <2> QED
    BY <2>2, <2>4, <1>2
<1> QED
  BY <1>2, <1>3

\* The row that a worker handles is one of its batch.
LEMMA CurrentIsListed ==
  ASSUME NEW w \in Pollers, SnapshotTypeOK, todo[w] # {}
  PROVE  Current(w) \in todo[w]
<1>1. todo[w] \in SUBSET Nat
  BY DEF SnapshotTypeOK, Ids
<1>2. \E i \in todo[w] : \A j \in todo[w] : i <= j
  BY <1>1, LeastId
<1> QED
  BY <1>2 DEF Current

\* The ids that a poll finds.
Found == {i \in Ids : i > watermark /\ rows[i].state = "ready"}

\* A poll that finds rows has a last one and a newest change of the group.
LEMMA FoundIsBounded ==
  ASSUME SnapshotTypeOK, Found # {}
  PROVE  /\ (CHOOSE i \in Found : \A j \in Found : j <= i) \in Found
         /\ LET n == CHOOSE m \in 0 .. MaxGroup :
                         /\ \A i \in Found : rows[i].at <= m
                         /\ m = 0 \/ \E i \in Found : rows[i].at = m
            IN  /\ n \in 0 .. MaxGroup
                /\ n = 0 \/ \E i \in Found : rows[i].at = n
<1>1. MaxAccount \in Nat /\ MaxGroup \in Nat
  BY BoundAssumption
<1>2. Found \in SUBSET Nat /\ \A k \in Found : k <= MaxAccount + MaxGroup
  BY <1>1 DEF Found, Ids
<1>3. \E i \in Found : \A j \in Found : j <= i
  <2>1. MaxAccount + MaxGroup \in Nat
    BY <1>1
  <2> QED
    BY <2>1, <1>2, GreatestId
<1> DEFINE past == {rows[i].at : i \in Found}
<1>4. \A i \in Found : rows[i].at \in 0 .. MaxGroup
  BY DEF Found, SnapshotTypeOK, Row
<1>5. past \in SUBSET Nat /\ past # {} /\ \A k \in past : k <= MaxGroup
  BY <1>1, <1>4
<1>6. PICK n \in past : \A k \in past : k <= n
  BY <1>1, <1>5, GreatestId
<1>7. \E m \in 0 .. MaxGroup :
         /\ \A i \in Found : rows[i].at <= m
         /\ m = 0 \/ \E i \in Found : rows[i].at = m
  <2>1. n \in 0 .. MaxGroup
    BY <1>1, <1>5
  <2>2. \A i \in Found : rows[i].at <= n
    BY <1>6
  <2>3. \E i \in Found : rows[i].at = n
    OBVIOUS
  <2> QED
    BY <2>1, <2>2, <2>3
<1> QED
  BY <1>3, <1>7

-----------------------------------------------------------------------------
(* Types, in three parts. *)

DbType ==
    /\ accounts \in 0 .. MaxAccount
    /\ group \in 0 .. MaxGroup
    /\ rows \in [Ids -> Row]
    /\ nextId \in 1 .. MaxAccount + MaxGroup + 1
    /\ muted \in 0 .. MaxAccount
    /\ unsent \in 0 .. MaxGroup

BucketType ==
    /\ watermark \in 0 .. MaxAccount + MaxGroup
    /\ epoch \in Nat
    /\ retired \in BOOLEAN
    /\ active \in (0 .. MaxAccount) \union {None}
    /\ behind \in [Workers -> SUBSET Workers]
    /\ outdated \in SUBSET Workers
    /\ locked \in BOOLEAN
    /\ lease \in Workers \union {None}
    /\ failures \in 0 .. MaxFailures
    /\ applied \in 0 .. MaxGroup
    /\ retiredAt \in 0 .. MaxAccount
    /\ known \in SUBSET Fulls

WorkerType ==
    /\ pc \in [Workers -> PCs]
    /\ todo \in [Pollers -> SUBSET Ids]
    /\ last \in [Pollers -> 0 .. MaxAccount + MaxGroup]
    /\ seen \in [Pollers -> SUBSET Kinds]
    /\ token \in [Workers -> Nat]
    /\ data \in [Workers -> 0 .. MaxAccount]
    /\ plan \in [Workers -> 0 .. MaxGroup]
    /\ strict \in SUBSET Workers
    /\ bad \in SUBSET Workers
    /\ due \in [Pollers -> 0 .. MaxGroup]

\* The parts make the type invariant.
LEMMA TypeParts == SnapshotTypeOK <=> DbType /\ BucketType /\ WorkerType
BY DEF SnapshotTypeOK, DbType, BucketType, WorkerType

\* So they do after a step.
LEMMA TypePartsNext == SnapshotTypeOK' <=> DbType' /\ BucketType' /\ WorkerType'
BY TypeParts, PTL

\* The types hold at the start.
LEMMA SnapshotInitType == SnapshotInit => SnapshotTypeOK
<1> SUFFICES ASSUME SnapshotInit PROVE SnapshotTypeOK
  OBVIOUS
<1>1. DbType
  <2>1. NoRow \in Row
    BY BoundAssumption DEF NoRow, Row, Kinds
  <2> QED
    BY <2>1, BoundAssumption DEF SnapshotInit, DbType
<1>2. BucketType
  <2>1. retired \in BOOLEAN /\ locked \in BOOLEAN
    BY DEF SnapshotInit
  <2>2. /\ 0 \in 0 .. MaxAccount + MaxGroup /\ 0 \in 0 .. MaxAccount
        /\ 0 \in 0 .. MaxFailures /\ 0 \in 0 .. MaxGroup /\ 0 \in Nat
    BY BoundAssumption
  <2>3. behind \in [Workers -> SUBSET Workers] /\ outdated \in SUBSET Workers
    BY DEF SnapshotInit
  <2> QED
    BY <2>1, <2>2, <2>3 DEF SnapshotInit, BucketType
<1>3. WorkerType
  BY BoundAssumption DEF SnapshotInit, WorkerType, PCs
<1> QED
  BY <1>1, <1>2, <1>3, TypeParts

\* A job of a worker that ends leaves a worker of the right type.
LEMMA AfterType ==
  ASSUME WorkerType, NEW w \in Workers, NEW ok, After(w, ok)
  PROVE  WorkerType'
<1>1. /\ pc' \in [Workers -> PCs]
      /\ strict' \in SUBSET Workers /\ bad' \in SUBSET Workers
  BY DEF After, Enters, WorkerType, PCs
<1>2. /\ token' \in [Workers -> Nat]
      /\ data' \in [Workers -> 0 .. MaxAccount]
      /\ plan' \in [Workers -> 0 .. MaxGroup]
  BY BoundAssumption DEF After, WorkerType
<1>3. /\ todo' \in [Pollers -> SUBSET Ids]
      /\ last' \in [Pollers -> 0 .. MaxAccount + MaxGroup]
      /\ seen' \in [Pollers -> SUBSET Kinds]
      /\ due' \in [Pollers -> 0 .. MaxGroup]
  <2>1. CASE w \notin Pollers
    BY <2>1 DEF After, WorkerType, pollVars
  <2>2. CASE w \in Pollers
    BY <2>2, BoundAssumption DEF After, WorkerType, Kinds
  <2> QED
    BY <2>1, <2>2
<1> QED
  BY <1>1, <1>2, <1>3 DEF WorkerType

\* So does a call that has published, or has not.
LEMMA PublishedType ==
  ASSUME WorkerType, NEW w \in Workers, NEW ok, Published(w, ok)
  PROVE  WorkerType'
<1>1. CASE w \in Readers
  BY <1>1, AfterType DEF Published
<1>2. CASE w \notin Readers
  BY <1>2 DEF Published, Enters, WorkerType, PCs, pollVars, writeVars
<1> QED
  BY <1>1, <1>2

-----------------------------------------------------------------------------
(* The database. *)

\* The workers change no account and no group: they free keys and delete rows.
RowsKept ==
    /\ UNCHANGED <<accounts, group, nextId, muted, unsent>>
    /\ rows' \in [Ids -> Row]
    /\ \A i \in Ids :
          /\ rows'[i].kind = rows[i].kind
          /\ rows'[i].at = rows[i].at
          /\ \/ rows'[i].state = rows[i].state
             \/ rows[i].state = "ready" /\ rows'[i].state = "none"

\* Every step that is not a change of the database is of that kind.
LEMMA WorkersKeepRows ==
  ASSUME SnapshotTypeOK, [SnapshotNext]_snapshotVars, ~Change
  PROVE  RowsKept
<1> USE DEF SnapshotTypeOK
<1>1. CASE UNCHANGED dbVars
  BY <1>1 DEF RowsKept, dbVars
<1>2. ASSUME NEW w \in Pollers, Poll(w)
      PROVE  RowsKept
  <2> DEFINE g(i) == IF i \in Found THEN [rows[i] EXCEPT !.dedup = FALSE] ELSE rows[i]
  <2>1. /\ rows' = [i \in Ids |-> g(i)]
        /\ UNCHANGED <<accounts, group, nextId, muted, unsent>>
    BY <1>2 DEF Poll, Found
  <2>2. \A i \in Ids : g(i) \in Row /\ g(i).kind = rows[i].kind
                       /\ g(i).at = rows[i].at /\ g(i).state = rows[i].state
    BY DEF Row
  <2> HIDE DEF g
  <2> QED
    BY <2>1, <2>2 DEF RowsKept
<1>3. ASSUME NEW w \in Pollers, Cleanup(w)
      PROVE  RowsKept
  <2>1. PICK n \in 0 .. last[w] :
          rows' = [i \in Ids |-> IF i <= n /\ rows[i].state = "ready"
                                 THEN [rows[i] EXCEPT !.state = "none", !.dedup = FALSE]
                                 ELSE rows[i]]
    BY <1>3 DEF Cleanup
  <2> DEFINE g(i) == IF i <= n /\ rows[i].state = "ready"
                     THEN [rows[i] EXCEPT !.state = "none", !.dedup = FALSE]
                     ELSE rows[i]
  <2>2. /\ rows' = [i \in Ids |-> g(i)]
        /\ UNCHANGED <<accounts, group, nextId, muted, unsent>>
    BY <1>3, <2>1 DEF Cleanup
  <2>3. \A i \in Ids : g(i) \in Row /\ g(i).kind = rows[i].kind
                       /\ g(i).at = rows[i].at
                       /\ \/ g(i).state = rows[i].state
                          \/ rows[i].state = "ready" /\ g(i).state = "none"
    BY DEF Row
  <2> HIDE DEF g
  <2> QED
    BY <2>2, <2>3 DEF RowsKept
<1>4. ASSUME NEW w \in Workers, WriterStep(w) \/ Fail(w) \/ Stop(w)
      PROVE  UNCHANGED dbVars
  BY <1>4 DEF WriterStep, Fail, Stop, Capture, TryLock, Load, Allocate, Activate,
              Unlock, TryLease, Decide, Apply, Unlease
<1>5. ASSUME NEW w \in Workers, HandleRow(w) \/ SetWatermark(w) \/ ListBuckets(w)
                               \/ ListActiveGroups(w) \/ Miss(w)
      PROVE  UNCHANGED dbVars
  BY <1>5 DEF HandleRow, SetWatermark, ListBuckets, ListActiveGroups, Miss
<1>6. CASE LockExpires \/ LeaseExpires
  BY <1>1, <1>6 DEF LockExpires, LeaseExpires
<1>7. CASE UNCHANGED snapshotVars
  BY <1>1, <1>7 DEF snapshotVars
<1> QED
  BY <1>1, <1>2, <1>3, <1>4, <1>5, <1>6, <1>7 DEF SnapshotNext, PollerStep, Workers

\* The invariant of the database.
DbInv == DbType /\ IdsArePaidFor /\ RowsTellThePast

\* Freeing keys and deleting rows keeps the invariant of the database.
LEMMA WorkersKeepDb ==
  ASSUME SnapshotTypeOK, DbInv, RowsKept
  PROVE  DbInv'
<1>1. DbType'
  BY DEF DbInv, DbType, RowsKept
<1>2. Open("account")' = Open("account")
  BY DEF RowsKept, Open
<1>3. IdsArePaidFor'
  BY <1>2 DEF DbInv, IdsArePaidFor, OneIfOpen, RowsKept
<1>4. RowsTellThePast'
  BY DEF DbInv, RowsTellThePast, RowsKept
<1> QED
  BY <1>1, <1>3, <1>4 DEF DbInv

\* A new row: the sequence is not at its end, and only the new row is open.
LEMMA InsertKeepsRows ==
  ASSUME DbInv, NEW k \in Kinds, Insert(k), nextId <= MaxAccount + MaxGroup,
         UNCHANGED group, Open(k) = {}
  PROVE  /\ rows' \in [Ids -> Row]
         /\ nextId \in Ids
         /\ nextId' \in 1 .. MaxAccount + MaxGroup + 1
         /\ \A i \in Ids : i # nextId => rows'[i] = rows[i]
         /\ Open(k)' = {nextId}
         /\ k = "group" => Open("account")' = Open("account")
         /\ \A i \in Ids : i >= nextId' => rows'[i].state = "none"
         /\ RowsTellThePast'
<1> DEFINE new == [kind |-> k, state |-> "open", dedup |-> TRUE,
                   at |-> IF k = "group" THEN group ELSE 0]
<1>1. /\ rows' = [rows EXCEPT ![nextId] = new]
      /\ nextId' = nextId + 1
  BY DEF Insert
<1>2. nextId \in Ids /\ nextId' \in 1 .. MaxAccount + MaxGroup + 1
  BY <1>1, BoundAssumption DEF DbInv, DbType, Ids
<1>3. new \in Row /\ group \in Nat /\ new.kind = k /\ new.state = "open"
      /\ new.at <= group /\ (k = "account" => new.at = 0)
  BY BoundAssumption DEF DbInv, DbType, Row, Kinds
<1> HIDE DEF new
<1>4. /\ rows' \in [Ids -> Row] /\ rows'[nextId] = new
      /\ \A i \in Ids : i # nextId => rows'[i] = rows[i]
  BY <1>1, <1>2, <1>3 DEF DbInv, DbType
<1>5. Open(k)' = {nextId}
  BY <1>2, <1>3, <1>4 DEF Open
<1>6. rows[nextId].state = "none"
  BY <1>2 DEF DbInv, IdsArePaidFor, DbType, Ids
<1>7. k = "group" => Open("account")' = Open("account")
  BY <1>2, <1>3, <1>4, <1>6 DEF Open
<1>8. \A i \in Ids : i >= nextId' => rows'[i].state = "none"
  BY <1>1, <1>2, <1>4 DEF DbInv, IdsArePaidFor, Ids
<1>9. RowsTellThePast'
  BY <1>2, <1>3, <1>4 DEF DbInv, RowsTellThePast
<1> QED
  BY <1>2, <1>4, <1>5, <1>7, <1>8, <1>9

\* A row that becomes visible.
LEMMA ReadyKeepsRows ==
  ASSUME DbInv, NEW k \in Kinds, NEW i \in Open(k), UNCHANGED <<group, nextId>>,
         rows' = [rows EXCEPT ![i].state = "ready"]
  PROVE  /\ rows' \in [Ids -> Row]
         /\ Open(k)' = Open(k) \ {i}
         /\ k = "group" => Open("account")' = Open("account")
         /\ \A j \in Ids : j >= nextId' => rows'[j].state = "none"
         /\ RowsTellThePast'
<1> DEFINE new == [rows[i] EXCEPT !.state = "ready"]
<1>1. i \in Ids /\ rows[i] \in Row /\ rows[i].kind = k /\ rows[i].state = "open"
  BY DEF Open, DbInv, DbType
<1>2. new \in Row /\ new.kind = k /\ new.state = "ready" /\ new.at = rows[i].at
  BY <1>1 DEF Row
<1>3. rows' = [rows EXCEPT ![i] = new]
  BY <1>1 DEF DbInv, DbType
<1> HIDE DEF new
<1>4. /\ rows' \in [Ids -> Row] /\ rows'[i] = new
      /\ \A j \in Ids : j # i => rows'[j] = rows[j]
  BY <1>1, <1>2, <1>3 DEF DbInv, DbType
<1>5. Open(k)' = Open(k) \ {i}
  BY <1>1, <1>2, <1>4 DEF Open
<1>6. k = "group" => Open("account")' = Open("account")
  BY <1>1, <1>2, <1>4 DEF Open
<1>7. \A j \in Ids : j >= nextId' => rows'[j].state = "none"
  BY <1>1, <1>4 DEF DbInv, IdsArePaidFor
<1>8. RowsTellThePast'
  BY <1>1, <1>2, <1>4 DEF DbInv, RowsTellThePast
<1> QED
  BY <1>4, <1>5, <1>6, <1>7, <1>8

\* So do the transactions: an id is drawn only where a change pays for it.
LEMMA ChangeKeepsDb ==
  ASSUME DbInv, Change
  PROVE  DbInv'
<1> USE BoundAssumption
<1>0. /\ accounts \in Nat /\ group \in Nat /\ nextId \in Nat /\ muted \in Nat
      /\ unsent \in Nat /\ OneIfOpen \in {0, 1}
  BY DEF DbInv, DbType, OneIfOpen
<1>1. CASE OpenAccount
  <2>1. CASE muted' = muted + 1 /\ UNCHANGED <<rows, nextId>>
    <3>1. Open("account")' = Open("account") /\ Open("account") = {}
      BY <2>1, <1>1 DEF Open, OpenAccount
    <3> QED
      BY <3>1, <2>1, <1>0, <1>1 DEF OpenAccount, DbInv, DbType, IdsArePaidFor,
                                    RowsTellThePast, OneIfOpen
  <2>2. CASE Insert("account") /\ UNCHANGED muted
    <3>1. /\ accounts + muted < MaxAccount /\ Open("account") = {}
          /\ UNCHANGED <<accounts, group, unsent>> /\ nextId' = nextId + 1
      BY <2>2, <1>1 DEF OpenAccount, Insert
    <3>2. OneIfOpen = 0 /\ nextId <= MaxAccount + MaxGroup
      BY <3>1, <1>0 DEF OneIfOpen, DbInv, DbType, IdsArePaidFor
    <3>3. /\ rows' \in [Ids -> Row]
          /\ nextId' \in 1 .. MaxAccount + MaxGroup + 1
          /\ Open("account")' = {nextId}
          /\ \A i \in Ids : i >= nextId' => rows'[i].state = "none"
          /\ RowsTellThePast'
      BY <2>2, <3>1, <3>2, InsertKeepsRows DEF Kinds
    <3>4. OneIfOpen' = 1
      BY <3>3 DEF OneIfOpen
    <3>5. IdsArePaidFor'
      BY <1>0, <2>2, <3>1, <3>2, <3>3, <3>4 DEF DbInv, IdsArePaidFor
    <3> QED
      BY <1>0, <2>2, <3>1, <3>3, <3>5 DEF DbInv, DbType
  <2> QED
    BY <1>1, <2>1, <2>2 DEF OpenAccount
<1>2. CASE CommitAccount
  <2>1. accounts' = accounts + 1 /\ UNCHANGED <<group, nextId, unsent>>
    BY <1>2 DEF CommitAccount
  <2>2. CASE muted > 0 /\ muted' = muted - 1 /\ UNCHANGED rows
    <3>1. Open("account")' = Open("account")
      BY <2>2 DEF Open
    <3> QED
      BY <3>1, <2>1, <2>2, <1>0 DEF DbInv, DbType, IdsArePaidFor, RowsTellThePast,
                                     OneIfOpen
  <2>3. ASSUME NEW i \in Open("account"), UNCHANGED muted,
               rows' = [rows EXCEPT ![i].state = "ready"]
        PROVE  DbInv'
    <3>1. /\ rows' \in [Ids -> Row]
          /\ Open("account")' = Open("account") \ {i}
          /\ \A j \in Ids : j >= nextId' => rows'[j].state = "none"
          /\ RowsTellThePast'
      BY <2>1, <2>3, ReadyKeepsRows DEF Kinds
    <3>2. OneIfOpen = 1 /\ Open("account")' = {} /\ OneIfOpen' = 0
      BY <3>1, <2>3 DEF DbInv, IdsArePaidFor, OneIfOpen
    <3>3. IdsArePaidFor'
      BY <1>0, <2>1, <2>3, <3>1, <3>2 DEF DbInv, IdsArePaidFor
    <3>4. DbType'
      BY <1>0, <2>1, <2>3, <3>1, <3>2 DEF DbInv, DbType, IdsArePaidFor
    <3> QED
      BY <3>1, <3>3, <3>4 DEF DbInv
  <2> QED
    BY <1>2, <2>2, <2>3 DEF CommitAccount
<1>3. CASE ChangeGroup
  <2>1. Open("account")' = Open("account")
    BY <1>3 DEF ChangeGroup, Open
  <2>2. \A i \in Ids : rows[i].at \in Nat
    BY DEF DbInv, DbType, Row
  <2> QED
    BY <1>0, <1>3, <2>1, <2>2 DEF ChangeGroup, DbInv, DbType, IdsArePaidFor,
                                   RowsTellThePast, OneIfOpen
<1>4. CASE EnqueueGroup
  <2>1. unsent > 0 /\ unsent' = unsent - 1 /\ UNCHANGED <<accounts, group, muted>>
    BY <1>4 DEF EnqueueGroup
  <2>2. CASE UNCHANGED <<rows, nextId>>
    <3>1. Open("account")' = Open("account")
      BY <2>2 DEF Open
    <3> QED
      BY <1>0, <2>1, <2>2, <3>1 DEF DbInv, DbType, IdsArePaidFor, RowsTellThePast,
                                     OneIfOpen
  <2>3. CASE Insert("group")
    <3>1. Open("group") = {} /\ nextId' = nextId + 1
      BY <2>3, <1>4 DEF EnqueueGroup, Insert
    <3>2. nextId <= MaxAccount + MaxGroup
      BY <2>1, <1>0 DEF DbInv, DbType, IdsArePaidFor
    <3>3. /\ rows' \in [Ids -> Row]
          /\ nextId' \in 1 .. MaxAccount + MaxGroup + 1
          /\ Open("account")' = Open("account")
          /\ \A i \in Ids : i >= nextId' => rows'[i].state = "none"
          /\ RowsTellThePast'
      BY <2>1, <2>3, <3>1, <3>2, InsertKeepsRows DEF Kinds
    <3>4. OneIfOpen' = OneIfOpen
      BY <3>3 DEF OneIfOpen
    <3>5. IdsArePaidFor'
      BY <1>0, <2>1, <3>1, <3>3, <3>4 DEF DbInv, IdsArePaidFor
    <3> QED
      BY <1>0, <2>1, <3>3, <3>5 DEF DbInv, DbType
  <2> QED
    BY <1>4, <2>2, <2>3 DEF EnqueueGroup
<1>5. CASE CommitGroupRow
  <2>1. PICK i \in Open("group") : rows' = [rows EXCEPT ![i].state = "ready"]
    BY <1>5 DEF CommitGroupRow
  <2>2. UNCHANGED <<accounts, group, nextId, muted, unsent>>
    BY <1>5 DEF CommitGroupRow
  <2>3. /\ rows' \in [Ids -> Row]
        /\ Open("account")' = Open("account")
        /\ \A j \in Ids : j >= nextId' => rows'[j].state = "none"
        /\ RowsTellThePast'
    BY <2>1, <2>2, ReadyKeepsRows DEF Kinds
  <2> QED
    BY <2>2, <2>3 DEF DbInv, DbType, IdsArePaidFor, OneIfOpen
<1> QED
  BY <1>1, <1>2, <1>3, <1>4, <1>5 DEF Change

-----------------------------------------------------------------------------
(* The types of Redis and of the workers. *)

\* A change of the database touches nothing else.
LEMMA ChangeType ==
  ASSUME BucketType, WorkerType, Change
  PROVE  BucketType' /\ WorkerType'
BY DEF Change, OpenAccount, CommitAccount, ChangeGroup, EnqueueGroup, CommitGroupRow,
       BucketType, WorkerType, bucketVars, pollVars, writeVars, ghosts

\* A poll lists ids of the outbox.
LEMMA PollType ==
  ASSUME SnapshotTypeOK, NEW w \in Pollers, Poll(w)
  PROVE  BucketType' /\ WorkerType'
<1> USE BoundAssumption
<1> DEFINE top == CHOOSE i \in Found : \A j \in Found : j <= i
           past == CHOOSE m \in 0 .. MaxGroup :
                       /\ \A i \in Found : rows[i].at <= m
                       /\ m = 0 \/ \E i \in Found : rows[i].at = m
<1>1. /\ Found # {} /\ Found \in SUBSET Ids
      /\ todo' = [todo EXCEPT ![w] = Found]
      /\ last' = [last EXCEPT ![w] = top]
      /\ due' = [due EXCEPT ![w] = past]
      /\ Enters(w, "next")
      /\ UNCHANGED <<watermark, bucketVars, locked, lease, seen, writeVars, known, bad,
                     failures, ghosts>>
  BY DEF Poll, Found
<1>2. top \in Found /\ past \in 0 .. MaxGroup
  BY <1>1, FoundIsBounded
<1> HIDE DEF top, past
<1>3. top \in 0 .. MaxAccount + MaxGroup
  BY <1>1, <1>2 DEF Ids
<1>4. BucketType'
  BY <1>1, TypeParts DEF BucketType, bucketVars, ghosts
<1>5. WorkerType'
  BY <1>1, <1>2, <1>3, TypeParts DEF WorkerType, Workers, Enters, PCs, writeVars
<1> QED
  BY <1>4, <1>5

\* So do the other steps of the loop over a batch.
LEMMA HandlingType ==
  ASSUME SnapshotTypeOK, NEW w \in Pollers, PollerStep(w)
  PROVE  BucketType' /\ WorkerType'
<1> USE BoundAssumption DEF Workers
<1>1. BucketType /\ WorkerType
  BY TypeParts
<1>2. CASE HandleRow(w)
  <2>1. BucketType'
    BY <1>1, <1>2 DEF HandleRow, BucketType, bucketVars, ghosts
  <2>2. /\ UNCHANGED <<last, due, writeVars, bad>>
        /\ \E p \in {"next", "mark", "lease", "capture"} : pc' = [pc EXCEPT ![w] = p]
    BY <1>1, <1>2 DEF HandleRow, Enters, WorkerType
  <2>3. todo' \in [Pollers -> SUBSET Ids] /\ seen' \in [Pollers -> SUBSET Kinds]
    BY <1>1, <1>2 DEF HandleRow, WorkerType, Kinds
  <2> QED
    BY <1>1, <2>1, <2>2, <2>3 DEF WorkerType, PCs, writeVars
<1>3. CASE SetWatermark(w)
  BY <1>1, <1>3 DEF SetWatermark, Enters, BucketType, WorkerType, bucketVars, ghosts,
                    pollVars, writeVars, PCs
<1>4. CASE Cleanup(w)
  <2>1. BucketType'
    BY <1>1, <1>4 DEF Cleanup, BucketType, bucketVars, ghosts
  <2>2. /\ todo' = [todo EXCEPT ![w] = {}] /\ last' = [last EXCEPT ![w] = 0]
        /\ seen' = [seen EXCEPT ![w] = {}] /\ due' = [due EXCEPT ![w] = 0]
        /\ pc' = [pc EXCEPT ![w] = "idle"] /\ UNCHANGED <<writeVars, bad>>
    BY <1>4 DEF Cleanup, Enters
  <2> QED
    BY <1>1, <2>1, <2>2 DEF WorkerType, writeVars, PCs
<1> QED
  BY <1>2, <1>3, <1>4 DEF PollerStep

\* A full rebuild or a reader that begins.
LEMMA EntryType ==
  ASSUME SnapshotTypeOK, NEW w \in Workers, ListBuckets(w) \/ ListActiveGroups(w) \/ Miss(w)
  PROVE  BucketType' /\ WorkerType'
<1>1. BucketType /\ WorkerType
  BY TypeParts
<1>2. /\ known' \in SUBSET Fulls
      /\ UNCHANGED <<watermark, bucketVars, locked, lease, failures, ghosts>>
  BY <1>1 DEF ListBuckets, ListActiveGroups, Miss, BucketType
<1>3. /\ UNCHANGED <<pollVars, writeVars, bad>>
      /\ \E p \in {"groups", "capture", "lease", "idle"} : pc' = [pc EXCEPT ![w] = p]
  BY DEF ListBuckets, ListActiveGroups, Miss, Enters
<1>4. BucketType'
  BY <1>1, <1>2 DEF BucketType, bucketVars, ghosts
<1>5. WorkerType'
  BY <1>1, <1>3 DEF WorkerType, pollVars, writeVars, PCs
<1> QED
  BY <1>4, <1>5

\* Dropping a version number leaves sets of workers.
LEMMA ForgetType ==
  ASSUME BucketType, NEW w \in Workers
  PROVE  Forget(w) \in [Workers -> SUBSET Workers]
BY DEF Forget, BucketType

\* The steps of writers and of deciders.
LEMMA WriterType ==
  ASSUME SnapshotTypeOK, NEW w \in Workers, WriterStep(w)
  PROVE  BucketType' /\ WorkerType'
<1> USE BoundAssumption
<1>0. DbType /\ BucketType /\ WorkerType
  BY TypeParts
<1>1. CASE Capture(w)
  <2>1. BucketType'
    <3>1. epoch' \in {epoch, 1}
      BY <1>1 DEF Capture
    <3>2. UNCHANGED <<watermark, retired, active, behind, outdated, locked, lease, known,
                      failures, ghosts>>
      BY <1>1 DEF Capture
    <3> QED
      BY <1>0, <3>1, <3>2 DEF BucketType, ghosts
  <2>2. CASE After(w, TRUE)
    BY <1>0, <2>1, <2>2, AfterType
  <2>3. CASE Enters(w, "lease") /\ UNCHANGED <<pollVars, writeVars, bad>>
    BY <1>0, <2>1, <2>3 DEF Enters, WorkerType, pollVars, writeVars, PCs
  <2>4. CASE /\ token' = [token EXCEPT ![w] = epoch']
             /\ Enters(w, IF w \in Readers THEN "load" ELSE "lock")
             /\ UNCHANGED <<data, plan, strict, pollVars, bad>>
    <3>1. epoch' \in Nat
      BY <2>1 DEF BucketType
    <3> QED
      BY <1>0, <2>1, <2>4, <3>1 DEF Enters, WorkerType, pollVars, PCs
  <2> QED
    BY <1>1, <2>2, <2>3, <2>4 DEF Capture
<1>2. CASE TryLock(w)
  <2>1. BucketType'
    BY <1>0, <1>2 DEF TryLock, BucketType, bucketVars, ghosts
  <2>2. CASE After(w, w \notin strict)
    BY <1>0, <2>1, <2>2, AfterType
  <2>3. CASE Enters(w, "load") /\ UNCHANGED <<pollVars, writeVars, bad>>
    BY <1>0, <2>1, <2>3 DEF Enters, WorkerType, pollVars, writeVars, PCs
  <2> QED
    BY <1>2, <2>2, <2>3 DEF TryLock
<1>3. CASE Load(w)
  <2>1. BucketType'
    BY <1>0, <1>3 DEF Load, BucketType, bucketVars, ghosts
  <2> QED
    BY <1>0, <1>3, <2>1 DEF Load, Enters, DbType, WorkerType, pollVars, PCs
<1>4. CASE Allocate(w)
  <2>1. BucketType'
    BY <1>0, <1>4 DEF Allocate, BucketType, ghosts
  <2>2. CASE Published(w, w \notin strict)
    BY <1>0, <2>1, <2>2, PublishedType
  <2>3. CASE Enters(w, "activate") /\ UNCHANGED <<pollVars, writeVars, bad>>
    BY <1>0, <2>1, <2>3 DEF Enters, WorkerType, pollVars, writeVars, PCs
  <2> QED
    BY <1>4, <2>2, <2>3 DEF Allocate
<1>5. CASE Activate(w)
  <2>1. /\ active' \in (0 .. MaxAccount) \union {None}
        /\ failures' \in 0 .. MaxFailures
        /\ outdated' \in SUBSET Workers
    <3>1. active' \in {active, data[w]}
      BY <1>5 DEF Activate
    <3>2. data[w] \in 0 .. MaxAccount
      BY <1>0 DEF WorkerType
    <3>3. UNCHANGED failures \/ Lost
      BY <1>5 DEF Activate
    <3>4. outdated' = outdated \ {w} \/ outdated' = outdated \union behind[w]
      BY <1>5 DEF Activate
    <3> QED
      BY <1>0, <3>1, <3>2, <3>3, <3>4 DEF Lost, BucketType
  <2>2. behind' \in [Workers -> SUBSET Workers]
    BY <1>0, <1>5, ForgetType DEF Activate
  <2>3. BucketType'
    BY <1>0, <1>5, <2>1, <2>2 DEF Activate, BucketType, ghosts
  <2>4. Published(w, w \notin strict) \/ Published(w, TRUE) \/ Published(w, FALSE)
    BY <1>5 DEF Activate
  <2> QED
    BY <1>0, <2>3, <2>4, PublishedType
<1>6. CASE Unlock(w)
  <2>1. BucketType'
    BY <1>0, <1>6 DEF Unlock, BucketType, bucketVars, ghosts
  <2> QED
    BY <1>0, <1>6, <2>1, AfterType DEF Unlock
<1>7. CASE TryLease(w)
  <2>1. BucketType'
    BY <1>0, <1>7 DEF TryLease, BucketType, bucketVars, ghosts
  <2>2. CASE After(w, FALSE)
    BY <1>0, <2>1, <2>2, AfterType
  <2>3. CASE Enters(w, "decide") /\ UNCHANGED <<pollVars, writeVars, bad>>
    BY <1>0, <2>1, <2>3 DEF Enters, WorkerType, pollVars, writeVars, PCs
  <2> QED
    BY <1>7, <2>2, <2>3 DEF TryLease
<1>8. CASE Decide(w)
  <2>1. BucketType'
    BY <1>0, <1>8 DEF Decide, BucketType, bucketVars, ghosts
  <2> QED
    BY <1>0, <1>8, <2>1 DEF Decide, Enters, DbType, WorkerType, pollVars, PCs
<1>9. CASE Apply(w)
  <2>1. /\ epoch' \in Nat /\ retired' \in BOOLEAN
        /\ active' \in (0 .. MaxAccount) \union {None}
        /\ outdated' \in SUBSET Workers
        /\ retiredAt' \in 0 .. MaxAccount
    <3>1. CASE Reopen(w)
      <4>1. retired' \in BOOLEAN
        BY <3>1 DEF Reopen
      <4>2. epoch' \in Nat /\ UNCHANGED retiredAt
        BY <1>0, <3>1 DEF Reopen, BucketType
      <4>3. active' \in {active, None} /\ outdated' \in {outdated, {}}
        BY <3>1 DEF Reopen
      <4> QED
        BY <1>0, <4>1, <4>2, <4>3 DEF BucketType
    <3>2. CASE Retire(w)
      <4>1. retired' \in BOOLEAN
        BY <3>2 DEF Retire
      <4>2. epoch' \in Nat
        BY <1>0, <3>2 DEF Retire, BucketType
      <4>3. retiredAt' \in {accounts, retiredAt} /\ active' = None /\ outdated' = {}
        BY <3>2 DEF Retire
      <4> QED
        BY <1>0, <4>1, <4>2, <4>3 DEF BucketType, DbType
    <3> QED
      BY <1>9, <3>1, <3>2 DEF Apply
  <2>2. token' \in [Workers -> Nat]
    BY <1>0, <1>9, <2>1 DEF Apply, Retire, Reopen, WorkerType
  <2>3. applied' \in 0 .. MaxGroup /\ failures' \in 0 .. MaxFailures /\ bad' \in SUBSET Workers
    BY <1>0, <1>9 DEF Apply, Lost, BucketType, WorkerType
  <2>4. BucketType'
    BY <1>0, <1>9, <2>1, <2>3 DEF Apply, BucketType
  <2> QED
    BY <1>0, <1>9, <2>2, <2>3, <2>4 DEF Apply, Enters, WorkerType, pollVars, PCs
<1>10. CASE Unlease(w)
  <2>1. BucketType'
    BY <1>0, <1>10 DEF Unlease, BucketType, bucketVars, ghosts
  <2>2. CASE After(w, w \notin bad /\ lease = w)
    BY <1>0, <2>1, <2>2, AfterType
  <2>3. CASE /\ strict' = strict \union {w} /\ Enters(w, "lock")
             /\ UNCHANGED <<pollVars, token, data, plan, bad>>
    BY <1>0, <2>1, <2>3 DEF Enters, WorkerType, pollVars, PCs
  <2> QED
    BY <1>10, <2>2, <2>3 DEF Unlease
<1> QED
  BY <1>1, <1>2, <1>3, <1>4, <1>5, <1>6, <1>7, <1>8, <1>9, <1>10 DEF WriterStep

\* The steps that fail.
LEMMA FailureType ==
  ASSUME SnapshotTypeOK, NEW w \in Workers, Fail(w) \/ Stop(w)
  PROVE  BucketType' /\ WorkerType'
<1> USE BoundAssumption
<1>0. BucketType /\ WorkerType
  BY TypeParts
<1>1. behind' \in [Workers -> SUBSET Workers]
  BY <1>0, ForgetType DEF Fail, Stop
<1>2. CASE Fail(w)
  <2>1. BucketType'
    BY <1>0, <1>1, <1>2 DEF Fail, BucketType, ghosts
  <2>2. CASE Published(w, FALSE)
    BY <1>0, <2>1, <2>2, PublishedType
  <2>3. CASE After(w, w \notin bad)
    BY <1>0, <2>1, <2>3, AfterType
  <2>4. CASE Enters(w, "unlease") /\ bad' = bad \union {w} /\ UNCHANGED <<pollVars, writeVars>>
    BY <1>0, <2>1, <2>4 DEF Enters, WorkerType, pollVars, writeVars, PCs
  <2> QED
    BY <1>2, <2>2, <2>3, <2>4 DEF Fail
<1>3. CASE Stop(w)
  <2>1. BucketType'
    <3>1. locked' \in BOOLEAN
      BY <1>0, <1>3 DEF Stop, BucketType
    <3>2. lease' \in Workers \union {None} /\ outdated' \in SUBSET Workers
          /\ known' \in SUBSET Fulls
      BY <1>0, <1>3 DEF Stop, BucketType
    <3>3. failures' \in 0 .. MaxFailures
      BY <1>0, <1>3 DEF Stop, BucketType
    <3>4. UNCHANGED <<watermark, epoch, retired, active, ghosts>>
      BY <1>3 DEF Stop
    <3> QED
      BY <1>0, <1>1, <3>1, <3>2, <3>3, <3>4 DEF BucketType, ghosts
  <2> QED
    BY <1>0, <1>3, <2>1, AfterType DEF Stop
<1> QED
  BY <1>2, <1>3

\* Locks and leases that expire, and stuttering.
LEMMA ExpiryType ==
  ASSUME SnapshotTypeOK, LockExpires \/ LeaseExpires \/ UNCHANGED snapshotVars
  PROVE  BucketType' /\ WorkerType'
BY TypeParts DEF LockExpires, LeaseExpires, snapshotVars, BucketType, WorkerType,
                 bucketVars, pollVars, writeVars, ghosts

\* The types and the invariant of the database go together.
LEMMA SnapshotNextType ==
  ASSUME SnapshotTypeOK, DbInv, [SnapshotNext]_snapshotVars
  PROVE  SnapshotTypeOK' /\ DbInv'
<1>1. DbInv'
  BY ChangeKeepsDb, WorkersKeepRows, WorkersKeepDb
<1>2. BucketType' /\ WorkerType'
  BY TypeParts, ChangeType, PollType, HandlingType, EntryType, WriterType, FailureType,
     ExpiryType DEF SnapshotNext, Workers
<1> QED
  BY <1>1, <1>2, TypePartsNext DEF DbInv

-----------------------------------------------------------------------------
(* One worker acts at a time. *)

\* What a worker has in its memory stays as it is.
Still(v) ==
    /\ pc'[v] = pc[v] /\ token'[v] = token[v] /\ data'[v] = data[v]
    /\ plan'[v] = plan[v]
    /\ v \in strict' <=> v \in strict
    /\ v \in bad' <=> v \in bad
    /\ v \in Pollers => /\ todo'[v] = todo[v] /\ last'[v] = last[v]
                        /\ seen'[v] = seen[v] /\ due'[v] = due[v]

\* The steps of a worker.
Acts(w) ==
    \/ w \in Pollers /\ (Poll(w) \/ PollerStep(w))
    \/ w \in Fulls /\ (ListBuckets(w) \/ ListActiveGroups(w))
    \/ w \in Readers /\ Miss(w)
    \/ WriterStep(w) \/ Fail(w) \/ Stop(w)

\* The steps of nobody.
Elsewhere == Change \/ LockExpires \/ LeaseExpires \/ UNCHANGED snapshotVars

\* A step is one of a worker or one of nobody.
LEMMA SomebodyActs ==
  ASSUME [SnapshotNext]_snapshotVars
  PROVE  Elsewhere \/ \E w \in Workers : Acts(w)
BY DEF SnapshotNext, Elsewhere, Acts, Workers

\* A step of nobody leaves every worker as it is.
LEMMA ElsewhereStill ==
  ASSUME Elsewhere, NEW v \in Workers
  PROVE  Still(v)
<1>1. UNCHANGED <<pc, pollVars, writeVars, bad>>
  BY DEF Elsewhere, Change, OpenAccount, CommitAccount, ChangeGroup, EnqueueGroup,
         CommitGroupRow, LockExpires, LeaseExpires, snapshotVars
<1> QED
  BY <1>1 DEF Still, pollVars, writeVars

\* The end of a job is nothing to the others.
LEMMA AfterStill ==
  ASSUME SnapshotTypeOK, NEW w \in Workers, NEW ok, After(w, ok),
         NEW v \in Workers, v # w
  PROVE  Still(v)
<1>1. /\ pc'[v] = pc[v] /\ token'[v] = token[v] /\ data'[v] = data[v]
      /\ plan'[v] = plan[v]
      /\ v \in strict' <=> v \in strict
      /\ v \in bad' <=> v \in bad
  BY DEF After, Enters, SnapshotTypeOK
<1>2. v \in Pollers => /\ todo'[v] = todo[v] /\ last'[v] = last[v]
                       /\ seen'[v] = seen[v] /\ due'[v] = due[v]
  <2>1. CASE w \in Pollers
    BY <2>1 DEF After, SnapshotTypeOK
  <2>2. CASE w \notin Pollers
    BY <2>2 DEF After, pollVars
  <2> QED
    BY <2>1, <2>2
<1> QED
  BY <1>1, <1>2 DEF Still

\* Neither is the end of SetSnapshot.
LEMMA PublishedStill ==
  ASSUME SnapshotTypeOK, NEW w \in Workers, NEW ok, Published(w, ok),
         NEW v \in Workers, v # w
  PROVE  Still(v)
<1>1. CASE w \in Readers
  BY <1>1, AfterStill DEF Published
<1>2. CASE w \notin Readers
  BY <1>2 DEF Published, Enters, Still, SnapshotTypeOK, pollVars, writeVars
<1> QED
  BY <1>1, <1>2

\* A worker touches no memory but its own.
LEMMA OthersStill ==
  ASSUME SnapshotTypeOK, NEW w \in Workers, Acts(w), NEW v \in Workers, v # w
  PROVE  Still(v)
<1> DEFINE simple == /\ UNCHANGED <<pollVars, token, data, plan>>
                     /\ \E p \in PCs : pc' = [pc EXCEPT ![w] = p]
                     /\ strict' \in {strict, strict \union {w}}
                     /\ bad' \in {bad, bad \union {w}}
<1>1. simple => Still(v)
  BY DEF Still, SnapshotTypeOK, pollVars
<1> USE DEF Enters, PCs, writeVars
<1>2. CASE w \in Pollers /\ Poll(w)
  BY <1>2 DEF Poll, Still, SnapshotTypeOK
<1>3. CASE w \in Pollers /\ HandleRow(w)
  BY <1>3 DEF HandleRow, Still, SnapshotTypeOK
<1>4. CASE w \in Pollers /\ SetWatermark(w)
  BY <1>1, <1>4 DEF SetWatermark
<1>5. CASE w \in Pollers /\ Cleanup(w)
  BY <1>5 DEF Cleanup, Still, SnapshotTypeOK
<1>6. CASE ListBuckets(w) \/ ListActiveGroups(w) \/ Miss(w)
  BY <1>1, <1>6 DEF ListBuckets, ListActiveGroups, Miss
<1>7. CASE Capture(w)
  <2>1. CASE /\ token' = [token EXCEPT ![w] = epoch']
             /\ Enters(w, IF w \in Readers THEN "load" ELSE "lock")
             /\ UNCHANGED <<data, plan, strict, pollVars, bad>>
    BY <2>1 DEF Still, SnapshotTypeOK, pollVars
  <2> QED
    BY <1>1, <1>7, <2>1, AfterStill DEF Capture
<1>8. CASE TryLock(w)
  BY <1>1, <1>8, AfterStill DEF TryLock
<1>9. CASE Load(w)
  BY <1>9 DEF Load, Still, SnapshotTypeOK, pollVars
<1>10. CASE Allocate(w)
  BY <1>1, <1>10, PublishedStill DEF Allocate
<1>11. CASE Activate(w)
  <2>1. Published(w, w \notin strict) \/ Published(w, TRUE) \/ Published(w, FALSE)
    BY <1>11 DEF Activate
  <2> QED
    BY <2>1, PublishedStill
<1>12. CASE Unlock(w)
  BY <1>12, AfterStill DEF Unlock
<1>13. CASE TryLease(w)
  BY <1>1, <1>13, AfterStill DEF TryLease
<1>14. CASE Decide(w)
  BY <1>14 DEF Decide, Still, SnapshotTypeOK, pollVars
<1>15. CASE Apply(w)
  <2>1. token'[v] = token[v]
    BY <1>15 DEF Apply, Retire, Reopen, SnapshotTypeOK
  <2>2. /\ pc' = [pc EXCEPT ![w] = "unlease"] /\ UNCHANGED <<pollVars, data, plan, strict>>
        /\ bad' \in {bad, bad \union {w}}
    BY <1>15 DEF Apply
  <2> QED
    BY <2>1, <2>2 DEF Still, SnapshotTypeOK, pollVars
<1>16. CASE Unlease(w)
  <2>1. After(w, w \notin bad /\ lease = w) \/ simple
    BY <1>16 DEF Unlease
  <2> QED
    BY <1>1, <2>1, AfterStill
<1>17. CASE Fail(w)
  <2>1. Published(w, FALSE) \/ After(w, w \notin bad) \/ simple
    BY <1>17 DEF Fail
  <2> QED
    BY <1>1, <2>1, AfterStill, PublishedStill
<1>18. CASE Stop(w)
  BY <1>18, AfterStill DEF Stop
<1> QED
  BY <1>2, <1>3, <1>4, <1>5, <1>6, <1>7, <1>8, <1>9, <1>10, <1>11, <1>12, <1>13, <1>14,
     <1>15, <1>16, <1>17, <1>18 DEF Acts, PollerStep, WriterStep

\* What a worker has in its memory when its job is over.
LEMMA AfterMemory ==
  ASSUME SnapshotTypeOK, NEW w \in Workers, NEW ok \in BOOLEAN, After(w, ok)
  PROVE  /\ pc'[w] \in {"idle", "next"} /\ token'[w] = 0
         /\ w \notin strict' /\ w \notin bad'
         /\ w \in Pollers /\ ~ok =>
               pc'[w] = "idle" /\ todo'[w] = {} /\ seen'[w] = {} /\ due'[w] = 0
         /\ w \in Pollers /\ ok =>
               /\ pc'[w] = "next"
               /\ todo'[w] = todo[w] \ {Current(w)}
               /\ seen'[w] = IF rows[Current(w)].kind = "group" THEN Kinds ELSE seen[w]
               /\ due'[w] = due[w]
<1>1. /\ pc'[w] = IF ok /\ w \in Pollers THEN "next" ELSE "idle"
      /\ token'[w] = 0 /\ w \notin strict' /\ w \notin bad'
  BY DEF After, Enters, Continues, SnapshotTypeOK
<1>2. w \in Pollers /\ ~ok => todo'[w] = {} /\ seen'[w] = {} /\ due'[w] = 0
  BY DEF After, Continues, SnapshotTypeOK
<1>3. w \in Pollers /\ ok =>
               /\ todo'[w] = todo[w] \ {Current(w)}
               /\ seen'[w] = IF rows[Current(w)].kind = "group" THEN Kinds ELSE seen[w]
               /\ due'[w] = due[w]
  BY DEF After, Continues, SnapshotTypeOK
<1> QED
  BY <1>1, <1>2, <1>3

\* What a worker has in its memory when SetSnapshot has returned.
LEMMA PublishedMemory ==
  ASSUME SnapshotTypeOK, NEW w \in Workers, NEW ok \in BOOLEAN, Published(w, ok)
  PROVE  /\ pc'[w] \in {"idle", "next", "unlock"}
         /\ token'[w] \in {0, token[w]}
         /\ w \in Pollers =>
               /\ pc'[w] = "unlock" /\ UNCHANGED <<pollVars, writeVars>>
               /\ w \in bad => w \in bad'
<1>1. CASE w \in Readers
  BY <1>1, AfterMemory, WorkerAssumption DEF Published
<1>2. CASE w \notin Readers
  BY <1>2 DEF Published, Enters, SnapshotTypeOK, writeVars
<1> QED
  BY <1>1, <1>2

-----------------------------------------------------------------------------
(* The lease. *)

\* Only a step that finds the lease free makes a worker a decider.
LEMMA LeaseMoves ==
  ASSUME SnapshotTypeOK, NEW w \in Workers, Acts(w)
  PROVE  \/ /\ UNCHANGED lease
            /\ pc'[w] \in Leaseholding => pc[w] \in Leaseholding
         \/ lease = None /\ lease' = w
         \/ pc[w] \in Leaseholding /\ pc'[w] \notin Leaseholding
            /\ lease' = IF lease = w THEN None ELSE lease
<1> USE DEF Leaseholding, Enters, SnapshotTypeOK
<1>0. ASSUME NEW ok \in BOOLEAN, After(w, ok) \/ Published(w, ok)
      PROVE  pc'[w] \notin Leaseholding
  BY <1>0, AfterMemory, PublishedMemory
<1>1. CASE w \in Pollers /\ (Poll(w) \/ PollerStep(w))
  BY <1>1 DEF Poll, PollerStep, HandleRow, SetWatermark, Cleanup
<1>2. CASE ListBuckets(w) \/ ListActiveGroups(w) \/ Miss(w)
  BY <1>2 DEF ListBuckets, ListActiveGroups, Miss
<1>3. CASE Capture(w)
  <2>1. UNCHANGED lease
    BY <1>3 DEF Capture
  <2>2. pc'[w] \notin Leaseholding
    BY <1>0, <1>3 DEF Capture
  <2> QED
    BY <2>1, <2>2
<1>4. CASE TryLock(w)
  <2>1. UNCHANGED lease
    BY <1>4 DEF TryLock
  <2>2. pc'[w] \notin Leaseholding
    BY <1>0, <1>4 DEF TryLock
  <2> QED
    BY <2>1, <2>2
<1>5. CASE Load(w)
  BY <1>5 DEF Load
<1>6. CASE Allocate(w)
  <2>1. UNCHANGED lease
    BY <1>6 DEF Allocate
  <2>2. pc'[w] \notin Leaseholding
    BY <1>0, <1>6 DEF Allocate
  <2> QED
    BY <2>1, <2>2
<1>7. CASE Activate(w)
  <2>1. UNCHANGED lease
    BY <1>7 DEF Activate
  <2>2. pc'[w] \notin Leaseholding
    BY <1>0, <1>7 DEF Activate
  <2> QED
    BY <2>1, <2>2
<1>8. CASE Unlock(w)
  <2>1. UNCHANGED lease
    BY <1>8 DEF Unlock
  <2>2. pc'[w] \notin Leaseholding
    BY <1>0, <1>8 DEF Unlock
  <2> QED
    BY <2>1, <2>2
<1>9. CASE TryLease(w)
  <2>1. (After(w, FALSE) /\ UNCHANGED lease) \/ (lease = None /\ lease' = w)
    BY <1>9 DEF TryLease
  <2> QED
    BY <1>0, <2>1
<1>10. CASE Decide(w) \/ Apply(w)
  BY <1>10 DEF Decide, Apply
<1>11. CASE Unlease(w)
  <2>1. pc[w] = "unlease" /\ lease' = IF lease = w THEN None ELSE lease
    BY <1>11 DEF Unlease
  <2>2. pc'[w] \notin Leaseholding
    BY <1>0, <1>11 DEF Unlease
  <2> QED
    BY <2>1, <2>2
<1>12. CASE Fail(w)
  <2>1. UNCHANGED lease
    BY <1>12 DEF Fail
  <2>2. pc'[w] \notin Leaseholding \/ pc[w] \in Leaseholding
    BY <1>0, <1>12 DEF Fail
  <2> QED
    BY <2>1, <2>2
<1>13. CASE Stop(w)
  <2>1. UNCHANGED lease \/ (lease = None /\ lease' = w)
    BY <1>13 DEF Stop
  <2>2. pc'[w] \notin Leaseholding
    BY <1>0, <1>13 DEF Stop
  <2> QED
    BY <2>1, <2>2
<1> QED
  BY <1>1, <1>2, <1>3, <1>4, <1>5, <1>6, <1>7, <1>8, <1>9, <1>10, <1>11, <1>12, <1>13
     DEF Acts, WriterStep

\* The lease is exclusive while its holder decides.
LEMMA LeaseNext ==
  ASSUME SnapshotTypeOK, DecidersHoldLease, [SnapshotNext]_snapshotVars
  PROVE  DecidersHoldLease'
<1> SUFFICES ASSUME NEW v \in Workers, pc'[v] \in Leaseholding
             PROVE  lease' = v
  BY DEF DecidersHoldLease
<1>0. v # None
  BY NoneAssumption
<1>1. CASE Elsewhere
  <2>1. pc'[v] = pc[v] /\ lease = v
    BY <1>1, ElsewhereStill DEF Still, DecidersHoldLease
  <2>2. CASE LeaseExpires
    BY <1>0, <2>1, <2>2 DEF LeaseExpires, Leaseholding
  <2>3. CASE ~LeaseExpires
    BY <1>1, <2>1, <2>3 DEF Elsewhere, Change, OpenAccount, CommitAccount, ChangeGroup,
                             EnqueueGroup, CommitGroupRow, LockExpires, snapshotVars
  <2> QED
    BY <2>2, <2>3
<1>2. ASSUME NEW w \in Workers, Acts(w), v # w
      PROVE  lease' = v
  <2>1. pc'[v] = pc[v] /\ lease = v
    BY <1>2, OthersStill DEF Still, DecidersHoldLease
  <2> QED
    BY <1>0, <1>2, <2>1, LeaseMoves DEF DecidersHoldLease
<1>3. CASE Acts(v)
  BY <1>0, <1>3, LeaseMoves DEF DecidersHoldLease
<1> QED
  BY <1>1, <1>2, <1>3, SomebodyActs

-----------------------------------------------------------------------------
(* Decisions, epochs and snapshots. *)

\* Where a worker gets its decision, its token and its accounts from, and what it
\* does to the bucket.
Moves(w) ==
    /\ pc'[w] = "apply" => Decide(w)
    /\ applied' = applied \/ Apply(w)
    /\ pc'[w] \in {"allocate", "activate"} =>
          Load(w) \/ (pc[w] = "allocate" /\ UNCHANGED <<token, data>>)
    /\ token'[w] \in {token[w], 0, epoch'}
    /\ epoch' > epoch \/ (epoch' = epoch /\ retiredAt' = retiredAt)
    /\ retiredAt' \in {retiredAt, accounts}
    /\ \/ active' = None
       \/ active' = active /\ retiredAt' = retiredAt
       \/ /\ active' = data[w] /\ token[w] = epoch /\ pc[w] = "activate"
          /\ retiredAt' = retiredAt

\* Every step of a worker is such a move.
LEMMA WorkersMove ==
  ASSUME SnapshotTypeOK, NEW w \in Workers, Acts(w)
  PROVE  Moves(w)
<1> USE DEF Enters, SnapshotTypeOK
<1> DEFINE calm == /\ UNCHANGED <<applied, retiredAt, epoch, active>>
                   /\ token'[w] \in {token[w], 0}
                   /\ pc'[w] \notin {"apply", "allocate", "activate"}
<1>0. calm => Moves(w)
  BY DEF Moves
<1> USE DEF ghosts, bucketVars
<1>1. CASE w \in Pollers /\ (Poll(w) \/ PollerStep(w))
  <2>1. UNCHANGED <<applied, retiredAt, epoch, active, token>>
    BY <1>1 DEF Poll, PollerStep, HandleRow, SetWatermark, Cleanup, writeVars
  <2>2. pc'[w] \notin {"apply", "allocate", "activate"}
    BY <1>1 DEF Poll, PollerStep, HandleRow, SetWatermark, Cleanup
  <2> QED
    BY <1>0, <2>1, <2>2
<1>2. CASE ListBuckets(w) \/ ListActiveGroups(w) \/ Miss(w)
  <2>1. UNCHANGED <<applied, retiredAt, epoch, active, token>>
    BY <1>2 DEF ListBuckets, ListActiveGroups, Miss, writeVars
  <2>2. pc'[w] \notin {"apply", "allocate", "activate"}
    BY <1>2 DEF ListBuckets, ListActiveGroups, Miss
  <2> QED
    BY <1>0, <2>1, <2>2
<1>3. CASE Capture(w)
  <2>1. UNCHANGED <<applied, retiredAt, active>>
    BY <1>3 DEF Capture
  <2>2. CASE retired
    <3>1. UNCHANGED epoch /\ (After(w, TRUE) \/ (pc'[w] = "lease" /\ UNCHANGED token))
      BY <1>3, <2>2 DEF Capture, writeVars
    <3> QED
      BY <1>0, <2>1, <3>1, AfterMemory
  <2>3. CASE ~retired
    <3>1. /\ epoch' = IF epoch = 0 THEN 1 ELSE epoch
          /\ token' = [token EXCEPT ![w] = epoch']
          /\ pc'[w] \in {"load", "lock"}
      BY <1>3, <2>3 DEF Capture
    <3> QED
      BY <2>1, <3>1 DEF Moves
  <2> QED
    BY <2>2, <2>3
<1>4. CASE TryLock(w)
  <2>1. UNCHANGED <<applied, retiredAt, active, epoch>>
    BY <1>4 DEF TryLock
  <2>2. (\E ok \in BOOLEAN : After(w, ok)) \/ (pc'[w] = "load" /\ UNCHANGED token)
    BY <1>4 DEF TryLock, writeVars
  <2> QED
    BY <1>0, <2>1, <2>2, AfterMemory
<1>5. CASE Load(w)
  <2>1. pc'[w] = "allocate" /\ UNCHANGED <<applied, retiredAt, active, epoch, token>>
    BY <1>5 DEF Load
  <2> QED
    BY <1>5, <2>1 DEF Moves
<1>6. CASE Allocate(w)
  <2>1. UNCHANGED <<applied, retiredAt, active, epoch>> /\ pc[w] = "allocate"
    BY <1>6 DEF Allocate
  <2>2. \/ \E ok \in BOOLEAN : Published(w, ok)
        \/ pc'[w] = "activate" /\ UNCHANGED <<token, data>>
    BY <1>6 DEF Allocate, writeVars
  <2>3. CASE \E ok \in BOOLEAN : Published(w, ok)
    BY <1>0, <2>1, <2>3, PublishedMemory
  <2>4. CASE pc'[w] = "activate" /\ UNCHANGED <<token, data>>
    BY <2>1, <2>4 DEF Moves
  <2> QED
    BY <2>2, <2>3, <2>4
<1>7. CASE Activate(w)
  <2>1. UNCHANGED <<applied, retiredAt, epoch>> /\ pc[w] = "activate"
    BY <1>7 DEF Activate
  <2>2. active' = active \/ (active' = data[w] /\ token[w] = epoch)
    BY <1>7 DEF Activate, Fenced
  <2>3. \E ok \in BOOLEAN : Published(w, ok)
    BY <1>7 DEF Activate
  <2>4. pc'[w] \notin {"apply", "allocate", "activate"} /\ token'[w] \in {token[w], 0}
    BY <2>3, PublishedMemory
  <2> QED
    BY <2>1, <2>2, <2>4 DEF Moves
<1>8. CASE Unlock(w)
  <2>1. UNCHANGED <<applied, retiredAt, active, epoch>>
    BY <1>8 DEF Unlock
  <2>2. \E ok \in BOOLEAN : After(w, ok)
    BY <1>8 DEF Unlock
  <2> QED
    BY <1>0, <2>1, <2>2, AfterMemory
<1>9. CASE TryLease(w)
  <2>1. UNCHANGED <<applied, retiredAt, active, epoch>>
    BY <1>9 DEF TryLease
  <2>2. After(w, FALSE) \/ (pc'[w] = "decide" /\ UNCHANGED token)
    BY <1>9 DEF TryLease, writeVars
  <2> QED
    BY <1>0, <2>1, <2>2, AfterMemory
<1>10. CASE Decide(w)
  <2>1. pc'[w] = "apply" /\ UNCHANGED <<applied, retiredAt, active, epoch, token>>
    BY <1>10 DEF Decide
  <2> QED
    BY <1>10, <2>1 DEF Moves
<1>11. CASE Apply(w)
  <2>1. pc'[w] = "unlease"
    BY <1>11 DEF Apply
  <2>2. CASE Reopen(w)
    <3>1. /\ epoch' = IF epoch = 0 THEN 1 ELSE epoch
          /\ token'[w] = epoch' /\ UNCHANGED retiredAt
          /\ active' \in {active, None}
      BY <2>2 DEF Reopen
    <3> QED
      BY <1>11, <2>1, <3>1 DEF Moves
  <2>3. CASE Retire(w)
    <3>1. /\ epoch' > epoch \/ (epoch' = epoch /\ retiredAt' = retiredAt)
          /\ retiredAt' \in {retiredAt, accounts}
          /\ active' = None /\ UNCHANGED token
      BY <2>3 DEF Retire
    <3> QED
      BY <1>11, <2>1, <3>1 DEF Moves
  <2> QED
    BY <1>11, <2>2, <2>3 DEF Apply
<1>12. CASE Unlease(w)
  <2>1. UNCHANGED <<applied, retiredAt, active, epoch>>
    BY <1>12 DEF Unlease
  <2>2. (\E ok \in BOOLEAN : After(w, ok)) \/ (pc'[w] = "lock" /\ UNCHANGED token)
    BY <1>12 DEF Unlease
  <2> QED
    BY <1>0, <2>1, <2>2, AfterMemory
<1>13. CASE Fail(w)
  <2>1. UNCHANGED <<applied, retiredAt, active, epoch>>
    BY <1>13 DEF Fail
  <2>2. \/ \E ok \in BOOLEAN : After(w, ok) \/ Published(w, ok)
        \/ pc'[w] = "unlease" /\ UNCHANGED token
    BY <1>13 DEF Fail, writeVars
  <2> QED
    BY <1>0, <2>1, <2>2, AfterMemory, PublishedMemory
<1>14. CASE Stop(w)
  <2>1. UNCHANGED <<applied, retiredAt, active, epoch>>
    BY <1>14 DEF Stop
  <2>2. \E ok \in BOOLEAN : After(w, ok)
    BY <1>14 DEF Stop
  <2> QED
    BY <1>0, <2>1, <2>2, AfterMemory
<1> QED
  BY <1>1, <1>2, <1>3, <1>4, <1>5, <1>6, <1>7, <1>8, <1>9, <1>10, <1>11, <1>12, <1>13,
     <1>14 DEF Acts, WriterStep

\* The steps of nobody leave the bucket alone.
LEMMA NobodyMoves ==
  ASSUME Elsewhere
  PROVE  UNCHANGED <<applied, retiredAt, epoch, active>>
BY DEF Elsewhere, Change, OpenAccount, CommitAccount, ChangeGroup, EnqueueGroup,
       CommitGroupRow, LockExpires, LeaseExpires, snapshotVars, ghosts, bucketVars

\* The database only goes on, and the rows that exist stay what they are about.
Onward ==
    /\ group <= group' /\ accounts <= accounts' /\ nextId <= nextId'
    /\ \A i \in Ids : i < nextId =>
          rows'[i].kind = rows[i].kind /\ rows'[i].at = rows[i].at

\* Every step of the system goes on so.
LEMMA NextOnward ==
  ASSUME SnapshotTypeOK, DbInv, [SnapshotNext]_snapshotVars
  PROVE  Onward
<1>0. accounts \in Nat /\ group \in Nat /\ nextId \in Nat
  BY DEF DbInv, DbType
<1>1. CASE ~Change
  BY <1>0, <1>1, WorkersKeepRows DEF RowsKept, Onward
<1>2. CASE OpenAccount \/ EnqueueGroup
  BY <1>0, <1>2 DEF OpenAccount, EnqueueGroup, Insert, Onward, DbInv, DbType
<1>3. ASSUME NEW i \in Ids, rows' = [rows EXCEPT ![i].state = "ready"]
      PROVE  \A j \in Ids : rows'[j].kind = rows[j].kind /\ rows'[j].at = rows[j].at
  BY <1>3 DEF DbInv, DbType, Row
<1>4. CASE CommitAccount \/ CommitGroupRow
  <2>1. group' = group /\ accounts' >= accounts /\ nextId' = nextId
    BY <1>0, <1>4 DEF CommitAccount, CommitGroupRow
  <2>2. UNCHANGED rows \/ \E i \in Ids : rows' = [rows EXCEPT ![i].state = "ready"]
    BY <1>4 DEF CommitAccount, CommitGroupRow, Open
  <2> QED
    BY <1>0, <1>3, <2>1, <2>2 DEF Onward
<1>5. CASE ChangeGroup
  BY <1>0, <1>5 DEF ChangeGroup, Onward
<1> QED
  BY <1>1, <1>2, <1>4, <1>5 DEF Change

\* A decision is applied while its maker has the lease: nobody else has one.
LEMMA PlansNext ==
  ASSUME SnapshotTypeOK, DbInv, DecidersHoldLease, PlansAreFresh,
         [SnapshotNext]_snapshotVars
  PROVE  applied <= applied' /\ PlansAreFresh'
<1>0. /\ group \in Nat /\ group' \in Nat /\ group <= group'
      /\ applied \in Nat /\ applied' \in Nat
      /\ \A v \in Workers : plan[v] \in Nat
  BY NextOnward, SnapshotNextType DEF Onward, SnapshotTypeOK
<1>1. CASE Elsewhere
  <2>1. UNCHANGED applied /\ \A v \in Workers : pc'[v] = pc[v] /\ plan'[v] = plan[v]
    BY <1>1, NobodyMoves, ElsewhereStill DEF Still
  <2> QED
    BY <1>0, <2>1 DEF PlansAreFresh
<1>2. ASSUME NEW w \in Workers, Acts(w)
      PROVE  applied <= applied' /\ PlansAreFresh'
  <2>1. Moves(w)
    BY <1>2, WorkersMove
  <2>2. applied' = applied
        \/ (applied' = plan[w] /\ pc[w] = "apply" /\ pc'[w] = "unlease")
    <3>1. applied' = applied \/ Apply(w)
      BY <2>1 DEF Moves
    <3>2. Apply(w) => pc[w] = "apply" /\ pc' = [pc EXCEPT ![w] = "unlease"]
                      /\ applied' = plan[w]
      BY DEF Apply, Enters
    <3> QED
      BY <3>1, <3>2 DEF SnapshotTypeOK
  <2>3. applied <= applied' /\ applied' <= group
    BY <1>0, <2>2 DEF PlansAreFresh
  <2>4. ASSUME NEW v \in Workers, pc'[v] = "apply", v # w
        PROVE  applied' <= plan'[v] /\ plan'[v] <= group'
    <3>1. pc[v] = "apply" /\ plan'[v] = plan[v]
      BY <1>2, <2>4, OthersStill DEF Still
    <3>2. lease = v /\ pc[w] # "apply"
      BY <2>4, <3>1 DEF DecidersHoldLease, Leaseholding
    <3> QED
      BY <1>0, <2>2, <3>1, <3>2 DEF PlansAreFresh
  <2>5. ASSUME pc'[w] = "apply"
        PROVE  applied' <= plan'[w] /\ plan'[w] <= group'
    <3>1. Decide(w)
      BY <2>1, <2>5 DEF Moves
    <3>2. plan'[w] = group /\ applied' = applied
      BY <3>1, <2>2 DEF Decide, SnapshotTypeOK
    <3> QED
      BY <1>0, <3>2 DEF PlansAreFresh
  <2> QED
    BY <1>0, <2>3, <2>4, <2>5 DEF PlansAreFresh
<1> QED
  BY <1>1, <1>2, SomebodyActs

\* Retiring a bucket moves the epoch past every token.
LEMMA WritersNext ==
  ASSUME SnapshotTypeOK, DbInv, WritersAreFresh, [SnapshotNext]_snapshotVars
  PROVE  WritersAreFresh'
<1>0. /\ accounts \in Nat /\ accounts' \in Nat /\ accounts <= accounts'
      /\ retiredAt \in Nat /\ epoch \in Nat /\ epoch' \in Nat
      /\ \A v \in Workers : token[v] \in Nat /\ data[v] \in Nat
  BY NextOnward, SnapshotNextType DEF Onward, SnapshotTypeOK
<1>1. CASE Elsewhere
  <2>1. /\ UNCHANGED <<retiredAt, epoch>>
        /\ \A v \in Workers : pc'[v] = pc[v] /\ token'[v] = token[v] /\ data'[v] = data[v]
    BY <1>1, NobodyMoves, ElsewhereStill DEF Still
  <2> QED
    BY <1>0, <2>1 DEF WritersAreFresh
<1>2. ASSUME NEW w \in Workers, Acts(w)
      PROVE  WritersAreFresh'
  <2>1. /\ pc'[w] \in {"allocate", "activate"} =>
              Load(w) \/ (pc[w] = "allocate" /\ UNCHANGED <<token, data>>)
        /\ token'[w] \in {token[w], 0, epoch'}
        /\ epoch' > epoch \/ (epoch' = epoch /\ retiredAt' = retiredAt)
        /\ retiredAt' \in {retiredAt, accounts}
    BY <1>2, WorkersMove DEF Moves
  <2>2. retiredAt' <= accounts'
    BY <1>0, <2>1 DEF WritersAreFresh
  <2>3. ASSUME NEW v \in Workers, v # w
        PROVE  /\ token'[v] <= epoch'
               /\ pc'[v] \in {"allocate", "activate"} /\ token'[v] = epoch' =>
                     retiredAt' <= data'[v]
    <3>1. pc'[v] = pc[v] /\ token'[v] = token[v] /\ data'[v] = data[v]
      BY <1>2, <2>3, OthersStill DEF Still
    <3> QED
      BY <1>0, <2>1, <3>1 DEF WritersAreFresh
  <2>4. token'[w] <= epoch'
    BY <1>0, <2>1 DEF WritersAreFresh
  <2>5. ASSUME pc'[w] \in {"allocate", "activate"}, token'[w] = epoch'
        PROVE  retiredAt' <= data'[w]
    <3>1. CASE Load(w)
      <4>1. data'[w] = accounts /\ UNCHANGED retiredAt
        BY <3>1 DEF Load, SnapshotTypeOK, ghosts
      <4> QED
        BY <1>0, <4>1 DEF WritersAreFresh
    <3>2. CASE pc[w] = "allocate" /\ UNCHANGED <<token, data>>
      BY <1>0, <2>1, <2>5, <3>2 DEF WritersAreFresh
    <3> QED
      BY <2>1, <2>5, <3>1, <3>2
  <2> QED
    BY <2>2, <2>3, <2>4, <2>5 DEF WritersAreFresh
<1> QED
  BY <1>1, <1>2, SomebodyActs

\* What is activated is not older than the last retirement.
LEMMA SnapshotNotOlder ==
  ASSUME SnapshotTypeOK, WritersAreFresh, NotOlderThanRetirement,
         [SnapshotNext]_snapshotVars
  PROVE  NotOlderThanRetirement'
<1>1. CASE Elsewhere
  BY <1>1, NobodyMoves DEF NotOlderThanRetirement
<1>2. ASSUME NEW w \in Workers, Acts(w)
      PROVE  NotOlderThanRetirement'
  <2>1. \/ active' = None
        \/ active' = active /\ retiredAt' = retiredAt
        \/ /\ active' = data[w] /\ token[w] = epoch /\ pc[w] = "activate"
           /\ retiredAt' = retiredAt
    BY <1>2, WorkersMove DEF Moves
  <2>2. data[w] \in Nat /\ retiredAt \in Nat
    BY DEF SnapshotTypeOK
  <2> QED
    BY <2>1, <2>2 DEF NotOlderThanRetirement, WritersAreFresh
<1> QED
  BY <1>1, <1>2, SomebodyActs

-----------------------------------------------------------------------------
(* The batches of the pollers. *)

\* What a step may rely on.
Ground ==
    /\ SnapshotTypeOK /\ SnapshotTypeOK' /\ DbInv
    /\ DecidersHoldLease /\ PlansAreFresh
    /\ Onward /\ applied <= applied'

\* The numbers that are compared are numbers.
LEMMA GroundNumbers ==
  ASSUME Ground, NEW v \in Pollers
  PROVE  /\ group \in Nat /\ group' \in Nat /\ nextId \in Nat /\ nextId' \in Nat
         /\ applied \in Nat /\ applied' \in Nat /\ due[v] \in Nat /\ due'[v] \in Nat
         /\ plan[v] \in Nat /\ plan'[v] \in Nat
         /\ v \in Workers /\ todo[v] \in SUBSET Ids /\ Ids \in SUBSET Nat
<1> USE BoundAssumption
<1>1. v \in Workers /\ Ids \in SUBSET Nat
  BY DEF Workers, Ids
<1>2. /\ group \in Nat /\ nextId \in Nat /\ applied \in Nat /\ due[v] \in Nat
      /\ plan[v] \in Nat /\ todo[v] \in SUBSET Ids
  BY <1>1 DEF Ground, SnapshotTypeOK
<1>3. /\ group' \in Nat /\ nextId' \in Nat /\ applied' \in Nat /\ due'[v] \in Nat
      /\ plan'[v] \in Nat
  BY <1>1 DEF Ground, SnapshotTypeOK
<1> QED
  BY <1>1, <1>2, <1>3

\* The rows of a batch are the same after a step.
LEMMA BatchRowsKept ==
  ASSUME Ground, NEW v \in Pollers, BatchOf(v), NEW i \in todo[v]
  PROVE  /\ i \in Ids /\ i < nextId'
         /\ rows'[i].kind = rows[i].kind /\ rows'[i].at = rows[i].at
BY GroundNumbers DEF Ground, Onward, BatchOf

\* The row in hand stays the row in hand.
LEMMA CurrentKept ==
  ASSUME Ground, NEW v \in Pollers, BatchOf(v), todo[v] # {}, todo'[v] = todo[v]
  PROVE  Current(v)' = Current(v) /\ rows'[Current(v)].kind = rows[Current(v)].kind
<1>1. Current(v)' = Current(v)
  BY DEF Current
<1>2. Current(v) \in todo[v]
  BY CurrentIsListed DEF Ground
<1> QED
  BY <1>1, <1>2, BatchRowsKept

\* A batch that stays the same stays covered: decisions never go back.
LEMMA CoveredKept ==
  ASSUME Ground, NEW v \in Pollers, BatchOf(v), due'[v] = due[v],
         todo'[v] = todo[v], seen'[v] = seen[v]
  PROVE  Covered(v)' /\ due'[v] <= group' /\ \A i \in todo'[v] : i < nextId'
<1>1. Covered(v)'
  BY GroundNumbers, BatchRowsKept DEF Ground, BatchOf, Covered
<1>2. due'[v] <= group'
  BY GroundNumbers DEF Ground, Onward, BatchOf
<1> QED
  BY <1>1, <1>2, BatchRowsKept

\* Steps of others leave a batch covered.
LEMMA StillBatch ==
  ASSUME Ground, NEW v \in Pollers, BatchOf(v), Still(v)
  PROVE  BatchOf(v)'
<1>1. /\ Covered(v)' /\ due'[v] <= group' /\ \A i \in todo'[v] : i < nextId'
  BY CoveredKept DEF Still
<1>2. /\ pc'[v] = pc[v] /\ plan'[v] = plan[v] /\ todo'[v] = todo[v]
      /\ seen'[v] = seen[v] /\ due'[v] = due[v]
      /\ v \in strict' <=> v \in strict
      /\ v \in bad' <=> v \in bad
  BY DEF Still
<1>3. due[v] <= applied => due'[v] <= applied'
  BY <1>2, GroundNumbers DEF Ground
<1>4. pc'[v] \in Writing => v \in strict' \/ rows'[Current(v)'].kind = "account"
  BY <1>2, CurrentKept DEF BatchOf, Handling
<1> QED
  BY <1>1, <1>2, <1>3, <1>4 DEF BatchOf

\* The end of a job: the row has taken effect, or was not about the group, or the
\* batch is given up.
LEMMA AfterBatch ==
  ASSUME Ground, NEW v \in Pollers, BatchOf(v), NEW ok \in BOOLEAN, After(v, ok),
         ok => due[v] <= applied \/ rows[Current(v)].kind = "account"
  PROVE  BatchOf(v)'
<1>0. v \in Workers /\ SnapshotTypeOK
  BY DEF Ground, Workers
<1>1. CASE ~ok
  <2>1. /\ pc'[v] = "idle" /\ todo'[v] = {} /\ seen'[v] = {} /\ due'[v] = 0
        /\ v \notin strict'
    BY <1>0, <1>1, AfterMemory
  <2> QED
    BY <2>1, GroundNumbers DEF BatchOf, Covered, Writing, Polling, Handling, Leaseholding
<1>2. CASE ok
  <2>1. /\ pc'[v] = "next" /\ todo'[v] = todo[v] \ {Current(v)} /\ due'[v] = due[v]
        /\ seen'[v] = IF rows[Current(v)].kind = "group" THEN Kinds ELSE seen[v]
        /\ v \notin strict'
    BY <1>0, <1>2, AfterMemory
  <2>2. Covered(v)'
    <3>1. CASE due[v] <= applied
      BY <2>1, <3>1, GroundNumbers DEF Covered, Ground
    <3>2. CASE ~(due[v] <= applied)
      <4>1. PICK i \in todo[v] : rows[i].kind = "group" /\ rows[i].at = due[v]
        BY <3>2 DEF BatchOf, Covered
      <4>2. rows[Current(v)].kind = "account" /\ "group" \notin seen[v]
        BY <1>2, <3>2 DEF BatchOf, Covered
      <4>3. i # Current(v) /\ seen'[v] = seen[v]
        BY <2>1, <4>1, <4>2
      <4> QED
        BY <2>1, <4>1, <4>2, <4>3, BatchRowsKept DEF Covered
    <3> QED
      BY <3>1, <3>2
  <2>3. due'[v] <= group' /\ \A i \in todo'[v] : i < nextId'
    BY <2>1, GroundNumbers, BatchRowsKept DEF Ground, Onward, BatchOf
  <2> QED
    BY <2>1, <2>2, <2>3 DEF BatchOf, Writing, Polling, Handling, Leaseholding
<1> QED
  BY <1>1, <1>2

\* A writer goes on with its row.
LEMMA WritingBatch ==
  ASSUME Ground, NEW v \in Pollers, BatchOf(v), pc[v] \in Writing, pc'[v] \in Writing,
         UNCHANGED <<pollVars, strict>>
  PROVE  BatchOf(v)'
<1>1. /\ Covered(v)' /\ due'[v] <= group' /\ \A i \in todo'[v] : i < nextId'
      /\ todo'[v] # {}
  BY CoveredKept DEF BatchOf, Handling, pollVars
<1>2. due[v] <= applied => due'[v] <= applied'
  BY GroundNumbers DEF Ground, pollVars
<1>3. v \in strict' \/ rows'[Current(v)'].kind = "account"
  BY CurrentKept DEF BatchOf, Handling, pollVars
<1> QED
  BY <1>1, <1>2, <1>3 DEF BatchOf, Writing, Polling, Handling, Leaseholding, pollVars

\* A new batch has its newest group row still to be handled.
LEMMA PollBatch ==
  ASSUME Ground, NEW v \in Pollers, BatchOf(v), Poll(v)
  PROVE  BatchOf(v)'
<1> DEFINE past == CHOOSE m \in 0 .. MaxGroup :
                       /\ \A i \in Found : rows[i].at <= m
                       /\ m = 0 \/ \E i \in Found : rows[i].at = m
<1>1. /\ pc[v] = "idle" /\ Found # {} /\ Found \in SUBSET Ids
      /\ todo' = [todo EXCEPT ![v] = Found]
      /\ due' = [due EXCEPT ![v] = past]
      /\ pc' = [pc EXCEPT ![v] = "next"]
      /\ UNCHANGED <<seen, strict>>
  BY DEF Poll, Found, Enters, writeVars
<1>2. past \in 0 .. MaxGroup /\ (past = 0 \/ \E i \in Found : rows[i].at = past)
  BY <1>1, FoundIsBounded DEF Ground
<1> HIDE DEF past
<1>3. /\ todo'[v] = Found /\ due'[v] = past /\ pc'[v] = "next"
      /\ seen'[v] = {} /\ v \notin strict'
  BY <1>1, GroundNumbers DEF Ground, SnapshotTypeOK, BatchOf, Polling
<1>4. \A i \in Found : i < nextId
  BY <1>1, GroundNumbers DEF Ground, DbInv, IdsArePaidFor, Found, Ids
<1>5. \A i \in Found : /\ rows'[i].kind = rows[i].kind /\ rows'[i].at = rows[i].at
                       /\ i < nextId'
  BY <1>1, <1>4, GroundNumbers DEF Ground, Onward
<1>6. \A i \in Found : rows[i].at <= group /\ (rows[i].at # 0 => rows[i].kind = "group")
  BY <1>1 DEF Ground, DbInv, RowsTellThePast, DbType, Row, Kinds
<1>7. past <= group'
  BY <1>2, <1>6, GroundNumbers DEF Ground, Onward
<1>8. Covered(v)'
  BY <1>2, <1>3, <1>5, <1>6, GroundNumbers DEF Covered
<1> QED
  BY <1>3, <1>5, <1>7, <1>8 DEF BatchOf, Writing, Polling, Handling, Leaseholding

\* A row that is skipped is of a kind that was handled in this batch.
LEMMA HandleBatch ==
  ASSUME Ground, NEW v \in Pollers, BatchOf(v), HandleRow(v)
  PROVE  BatchOf(v)'
<1>0. v \in Workers
  BY GroundNumbers
<1>1. /\ pc[v] = "next" /\ v \notin strict
      /\ UNCHANGED <<due, strict>> /\ due'[v] = due[v]
  BY DEF HandleRow, BatchOf, Polling, writeVars
<1>2. CASE todo[v] = {} /\ Enters(v, "mark") /\ UNCHANGED <<todo, seen>>
  <2>1. pc'[v] = "mark"
    BY <1>0, <1>2 DEF Enters, Ground, SnapshotTypeOK
  <2>2. /\ Covered(v)' /\ due'[v] <= group' /\ \A i \in todo'[v] : i < nextId'
    BY <1>1, <1>2, CoveredKept
  <2> QED
    BY <1>1, <1>2, <2>1, <2>2 DEF BatchOf, Writing, Polling, Handling, Leaseholding
<1>3. CASE /\ todo[v] # {} /\ rows[Current(v)].kind \in seen[v]
           /\ todo' = [todo EXCEPT ![v] = @ \ {Current(v)}]
           /\ UNCHANGED <<pc, seen>>
  <2>1. todo'[v] = todo[v] \ {Current(v)} /\ pc'[v] = "next"
    BY <1>1, <1>3 DEF Ground, SnapshotTypeOK
  <2>2. Covered(v)'
    <3>1. CASE due[v] <= applied
      BY <1>1, <3>1, GroundNumbers DEF Covered, Ground
    <3>2. CASE ~(due[v] <= applied)
      <4>1. PICK i \in todo[v] : rows[i].kind = "group" /\ rows[i].at = due[v]
        BY <3>2 DEF BatchOf, Covered
      <4>2. "group" \notin seen[v] /\ i # Current(v)
        BY <1>3, <3>2, <4>1 DEF BatchOf, Covered
      <4> QED
        BY <1>1, <1>3, <2>1, <4>1, <4>2, BatchRowsKept DEF Covered
    <3> QED
      BY <3>1, <3>2
  <2>3. due'[v] <= group' /\ \A i \in todo'[v] : i < nextId'
    BY <1>1, <2>1, GroundNumbers, BatchRowsKept DEF Ground, Onward, BatchOf
  <2> QED
    BY <1>1, <2>1, <2>2, <2>3 DEF BatchOf, Writing, Polling, Handling, Leaseholding
<1>4. CASE /\ todo[v] # {} /\ rows[Current(v)].kind = "group"
           /\ Enters(v, "lease") /\ UNCHANGED <<todo, seen>>
  <2>1. pc'[v] = "lease"
    BY <1>0, <1>4 DEF Enters, Ground, SnapshotTypeOK
  <2>2. /\ Covered(v)' /\ due'[v] <= group' /\ \A i \in todo'[v] : i < nextId'
    BY <1>1, <1>4, CoveredKept
  <2> QED
    BY <1>1, <1>4, <2>1, <2>2 DEF BatchOf, Writing, Polling, Handling, Leaseholding
<1>5. CASE /\ todo[v] # {} /\ rows[Current(v)].kind # "group"
           /\ Enters(v, "capture") /\ UNCHANGED todo
           /\ seen' = [seen EXCEPT ![v] = @ \union {"account"}]
  <2>1. pc'[v] = "capture" /\ seen'[v] = seen[v] \union {"account"}
    BY <1>0, <1>5 DEF Enters, Ground, SnapshotTypeOK
  <2>2. due'[v] <= group' /\ \A i \in todo'[v] : i < nextId'
    BY <1>1, <1>5, GroundNumbers, BatchRowsKept DEF Ground, Onward, BatchOf
  <2>3. Covered(v)'
    BY <1>1, <1>5, <2>1, GroundNumbers, BatchRowsKept DEF Covered, BatchOf, Ground
  <2>4. rows[Current(v)].kind \in Kinds
    BY <1>5, CurrentIsListed, GroundNumbers DEF Ground, DbInv, DbType, Row
  <2>5. rows'[Current(v)'].kind = "account"
    BY <1>5, <2>4, CurrentKept DEF Kinds
  <2> QED
    BY <1>1, <1>5, <2>1, <2>2, <2>3, <2>5 DEF BatchOf, Writing, Polling, Handling, Leaseholding
<1> QED
  BY <1>2, <1>3, <1>4, <1>5 DEF HandleRow

\* The watermark and the cleanup come when nothing is left to be handled.
LEMMA PollerBatch ==
  ASSUME Ground, NEW v \in Pollers, BatchOf(v), SetWatermark(v) \/ Cleanup(v)
  PROVE  BatchOf(v)'
<1>0. v \in Workers /\ v \notin strict /\ UNCHANGED strict
  BY GroundNumbers DEF SetWatermark, Cleanup, BatchOf, Polling, writeVars
<1>1. CASE SetWatermark(v)
  <2>1. pc'[v] = "clean" /\ pc[v] = "mark" /\ UNCHANGED <<todo, seen, due>>
    BY <1>0, <1>1 DEF SetWatermark, Enters, Ground, SnapshotTypeOK, pollVars
  <2>2. /\ Covered(v)' /\ due'[v] <= group' /\ \A i \in todo'[v] : i < nextId'
    BY <2>1, CoveredKept
  <2> QED
    BY <1>0, <2>1, <2>2 DEF BatchOf, Writing, Polling, Handling, Leaseholding
<1>2. CASE Cleanup(v)
  <2>1. pc'[v] = "idle" /\ todo'[v] = {} /\ seen'[v] = {} /\ due'[v] = 0
    BY <1>0, <1>2 DEF Cleanup, Enters, Ground, SnapshotTypeOK
  <2> QED
    BY <1>0, <2>1, GroundNumbers DEF BatchOf, Covered, Writing, Polling, Handling, Leaseholding
<1> QED
  BY <1>1, <1>2

\* A decision under the lease is at least as new as the rows of the batch.
LEMMA DeciderBatch ==
  ASSUME Ground, NEW v \in Pollers, BatchOf(v),
         TryLease(v) \/ Decide(v) \/ Apply(v) \/ Unlease(v)
  PROVE  BatchOf(v)'
<1>0. v \in Workers
  BY GroundNumbers
<1>1. UNCHANGED pollVars => /\ Covered(v)' /\ due'[v] <= group'
                            /\ \A i \in todo'[v] : i < nextId'
                            /\ todo'[v] # {} /\ due'[v] = due[v]
  <2>1. todo[v] # {}
    BY DEF BatchOf, Handling, Leaseholding, TryLease, Decide, Apply, Unlease
  <2> QED
    BY <2>1, CoveredKept DEF pollVars
<1>2. v \in strict => due[v] <= applied'
  BY GroundNumbers DEF BatchOf, Ground
<1>3. CASE TryLease(v)
  <2>1. CASE After(v, FALSE)
    BY <2>1, AfterBatch
  <2>2. CASE Enters(v, "decide") /\ UNCHANGED <<pollVars, writeVars, bad>>
    <3>1. pc'[v] = "decide" /\ UNCHANGED strict
      BY <1>0, <2>2 DEF Enters, Ground, SnapshotTypeOK, writeVars
    <3> QED
      BY <1>1, <1>2, <2>2, <3>1 DEF BatchOf, Writing, Polling, Handling, Leaseholding
  <2> QED
    BY <1>3, <2>1, <2>2 DEF TryLease
<1>4. CASE Decide(v)
  <2>1. pc'[v] = "apply" /\ UNCHANGED <<pollVars, strict>> /\ plan'[v] = group
    BY <1>0, <1>4 DEF Decide, Enters, Ground, SnapshotTypeOK
  <2> QED
    BY <1>1, <1>2, <2>1 DEF BatchOf, Writing, Polling, Handling, Leaseholding
<1>5. CASE Apply(v)
  <2>1. /\ pc[v] = "apply" /\ pc'[v] = "unlease" /\ UNCHANGED <<pollVars, strict>>
        /\ applied' = plan[v]
    BY <1>0, <1>5 DEF Apply, Enters, Ground, SnapshotTypeOK
  <2>2. due[v] <= applied'
    BY <2>1 DEF BatchOf
  <2> QED
    BY <1>1, <2>1, <2>2 DEF BatchOf, Writing, Polling, Handling, Leaseholding
<1>6. CASE Unlease(v)
  <2> DEFINE ok == v \notin bad /\ lease = v
  <2>1. pc[v] = "unlease" /\ (ok => due[v] <= applied)
    BY <1>6 DEF Unlease, BatchOf
  <2>2. CASE After(v, ok)
    <3>1. ok \in BOOLEAN
      OBVIOUS
    <3> HIDE DEF ok
    <3> QED
      BY <2>1, <2>2, <3>1, AfterBatch
  <2>3. CASE /\ ok /\ strict' = strict \union {v} /\ Enters(v, "lock")
             /\ UNCHANGED <<pollVars, token, data, plan, bad>>
    <3>1. pc'[v] = "lock" /\ v \in strict' /\ due[v] <= applied'
      BY <1>0, <2>1, <2>3, GroundNumbers DEF Enters, Ground, SnapshotTypeOK
    <3> QED
      BY <1>1, <2>3, <3>1 DEF BatchOf, Writing, Polling, Handling, Leaseholding
  <2> QED
    BY <1>6, <2>2, <2>3 DEF Unlease
<1> QED
  BY <1>3, <1>4, <1>5, <1>6

\* A rebuild counts as handled where the row is not about the group, or after
\* the bucket was reopened.
LEMMA WriterBatch ==
  ASSUME Ground, NEW v \in Pollers, BatchOf(v),
         \/ Capture(v) \/ TryLock(v) \/ Load(v) \/ Allocate(v) \/ Activate(v) \/ Unlock(v)
  PROVE  BatchOf(v)'
<1>0. v \in Workers /\ v \notin Fulls /\ v \notin Readers /\ SnapshotTypeOK
  BY GroundNumbers, WorkerAssumption DEF Ground
<1>1. /\ pc[v] \in Writing
      /\ due[v] <= applied \/ rows[Current(v)].kind = "account"
  BY DEF BatchOf, Writing, Capture, TryLock, Load, Allocate, Activate, Unlock
<1>2. ASSUME NEW p \in Writing, Enters(v, p), UNCHANGED <<pollVars, strict>>
      PROVE  BatchOf(v)'
  <2>1. pc'[v] = p
    BY <1>0, <1>2 DEF Enters, SnapshotTypeOK
  <2> QED
    BY <1>1, <1>2, <2>1, WritingBatch
<1>3. ASSUME NEW ok \in BOOLEAN, After(v, ok)
      PROVE  BatchOf(v)'
  BY <1>1, <1>3, AfterBatch
<1>4. ASSUME NEW ok \in BOOLEAN, Published(v, ok)
      PROVE  BatchOf(v)'
  <2>1. pc'[v] = "unlock" /\ UNCHANGED <<pollVars, strict>>
    BY <1>0, <1>4, PublishedMemory DEF writeVars
  <2> QED
    BY <1>1, <2>1, WritingBatch DEF Writing
<1>5. \/ \E ok \in BOOLEAN : After(v, ok) \/ Published(v, ok)
      \/ \E p \in Writing : Enters(v, p) /\ UNCHANGED <<pollVars, strict>>
  <2>1. CASE Capture(v)
    BY <1>0, <2>1 DEF Capture, Writing
  <2>2. CASE TryLock(v)
    BY <2>2 DEF TryLock, Writing, writeVars
  <2>3. CASE Load(v)
    BY <2>3 DEF Load, Writing
  <2>4. CASE Allocate(v)
    BY <2>4 DEF Allocate, Writing, writeVars
  <2>5. CASE Activate(v)
    BY <2>5 DEF Activate
  <2>6. CASE Unlock(v)
    BY <2>6 DEF Unlock
  <2> QED
    BY <2>1, <2>2, <2>3, <2>4, <2>5, <2>6
<1> QED
  BY <1>2, <1>3, <1>4, <1>5

\* A failure gives up the batch or is remembered until the job ends.
LEMMA FailureBatch ==
  ASSUME Ground, NEW v \in Pollers, BatchOf(v), Fail(v) \/ Stop(v)
  PROVE  BatchOf(v)'
<1>0. v \in Workers /\ v \notin Readers /\ SnapshotTypeOK
  BY GroundNumbers, WorkerAssumption DEF Ground
<1>1. CASE Stop(v)
  BY <1>1, AfterBatch DEF Stop
<1>2. CASE pc[v] \in {"load", "allocate", "activate"} /\ Published(v, FALSE)
  <2>1. pc'[v] = "unlock" /\ UNCHANGED <<pollVars, strict>>
    BY <1>0, <1>2, PublishedMemory DEF writeVars
  <2> QED
    BY <1>2, <2>1, WritingBatch DEF Writing
<1>3. CASE pc[v] = "unlock" /\ After(v, v \notin bad)
  <2>1. due[v] <= applied \/ rows[Current(v)].kind = "account"
    BY <1>3 DEF BatchOf, Writing
  <2> QED
    BY <1>3, <2>1, AfterBatch
<1>4. CASE /\ pc[v] \in {"decide", "apply"} /\ Enters(v, "unlease")
           /\ bad' = bad \union {v} /\ UNCHANGED <<pollVars, writeVars>>
  <2>1. /\ pc'[v] = "unlease" /\ v \in bad' /\ UNCHANGED <<pollVars, strict>>
        /\ todo'[v] = todo[v] /\ todo[v] # {} /\ due'[v] = due[v]
    BY <1>0, <1>4 DEF Enters, SnapshotTypeOK, writeVars, pollVars, BatchOf, Handling,
                      Leaseholding
  <2>2. /\ Covered(v)' /\ due'[v] <= group' /\ \A i \in todo'[v] : i < nextId'
    BY <2>1, CoveredKept DEF pollVars
  <2>3. v \in strict' => due'[v] <= applied'
    BY <2>1, GroundNumbers DEF BatchOf, Ground
  <2> QED
    BY <2>1, <2>2, <2>3 DEF BatchOf, Writing, Polling
<1> QED
  BY <1>1, <1>2, <1>3, <1>4 DEF Fail

\* The inductive invariant.
SnapshotInv ==
    /\ SnapshotTypeOK /\ DbInv
    /\ DecidersHoldLease /\ PlansAreFresh /\ BatchesAreCovered
    /\ WritersAreFresh /\ NotOlderThanRetirement

\* Every step leaves every batch covered.
LEMMA BatchesNext ==
  ASSUME SnapshotInv, [SnapshotNext]_snapshotVars
  PROVE  BatchesAreCovered'
<1>1. Ground
  BY NextOnward, PlansNext, SnapshotNextType DEF SnapshotInv, Ground
<1> SUFFICES ASSUME NEW v \in Pollers PROVE BatchOf(v)'
  BY DEF BatchesAreCovered
<1>2. BatchOf(v) /\ v \in Workers /\ v \notin Fulls /\ v \notin Readers
  BY WorkerAssumption DEF SnapshotInv, BatchesAreCovered, Workers
<1>3. CASE Elsewhere
  BY <1>1, <1>2, <1>3, ElsewhereStill, StillBatch
<1>4. ASSUME NEW w \in Workers, Acts(w), v # w
      PROVE  BatchOf(v)'
  BY <1>1, <1>2, <1>4, OthersStill, StillBatch DEF Ground
<1>5. CASE Acts(v)
  BY <1>1, <1>2, <1>5, PollBatch, HandleBatch, PollerBatch, DeciderBatch, WriterBatch,
     FailureBatch DEF Acts, PollerStep, WriterStep
<1> QED
  BY <1>3, <1>4, <1>5, SomebodyActs

\* The invariant holds at the start.
LEMMA SnapshotInitInv == SnapshotInit => SnapshotInv
<1> SUFFICES ASSUME SnapshotInit PROVE SnapshotInv
  OBVIOUS
<1> USE BoundAssumption
<1>1. SnapshotTypeOK /\ DbType
  BY SnapshotInitType, TypeParts
<1>2. \A i \in Ids : rows[i] = NoRow
  BY DEF SnapshotInit
<1>3. IdsArePaidFor /\ RowsTellThePast
  <2>1. Open("account") = {}
    BY <1>2 DEF Open, NoRow
  <2> QED
    BY <1>2, <2>1 DEF IdsArePaidFor, OneIfOpen, RowsTellThePast, NoRow, SnapshotInit
<1>4. \A w \in Workers : pc[w] = "idle" /\ token[w] = 0
  BY DEF SnapshotInit
<1>5. DecidersHoldLease /\ PlansAreFresh
  BY <1>4 DEF SnapshotInit, DecidersHoldLease, Leaseholding, PlansAreFresh
<1>6. WritersAreFresh /\ NotOlderThanRetirement
  BY <1>4 DEF SnapshotInit, WritersAreFresh, NotOlderThanRetirement
<1>7. BatchesAreCovered
  BY <1>4 DEF SnapshotInit, BatchesAreCovered, BatchOf, Covered, Writing, Handling,
              Leaseholding, Polling, Workers
<1> QED
  BY <1>1, <1>3, <1>5, <1>6, <1>7 DEF SnapshotInv, DbInv

\* Every step preserves it.
LEMMA SnapshotNextInv == SnapshotInv /\ [SnapshotNext]_snapshotVars => SnapshotInv'
BY SnapshotNextType, LeaseNext, PlansNext, WritersNext, SnapshotNotOlder, BatchesNext
   DEF SnapshotInv

\* It holds throughout.
LEMMA SnapshotSpecInv == SnapshotSpec => []SnapshotInv
BY SnapshotInitInv, SnapshotNextInv, PTL DEF SnapshotSpec

\* Ids, numbers of changes, watermarks and places of workers stay in their ranges:
\* the sequence never runs past the changes that drew from it.
THEOREM SnapshotTypeCorrect == SnapshotSpec => []SnapshotTypeOK
BY SnapshotSpecInv, PTL DEF SnapshotInv

\* With any number of outbox workers, full rebuilds and readers, no snapshot that
\* was loaded before the bucket was retired is served after it: the epoch that
\* RetireBucket moves is past every token that was captured.
THEOREM RetiredDataStaysOut == SnapshotSpec => []NotOlderThanRetirement
BY SnapshotSpecInv, PTL DEF SnapshotInv

\* No worker moves the watermark past rows about the group that have not taken
\* effect, whatever fails, whoever stops and however many workers share the outbox.
THEOREM ConsumedRowsTookEffect == SnapshotSpec => []ConsumedRowsAreApplied
<1>1. SnapshotInv => ConsumedRowsAreApplied
  <2> SUFFICES ASSUME SnapshotInv, NEW w \in Pollers, pc[w] = "mark"
               PROVE  applied >= due[w]
    BY DEF ConsumedRowsAreApplied
  <2>1. Covered(w) /\ todo[w] = {} /\ applied \in Nat /\ due[w] \in Nat
    BY DEF SnapshotInv, BatchesAreCovered, BatchOf, SnapshotTypeOK
  <2> QED
    BY <2>1 DEF Covered
<1> QED
  BY <1>1, SnapshotSpecInv, PTL

\* Retiring and reopening never go back to an older state of the group: the state
\* is read and applied under one lease.
THEOREM LifecycleOnlyGoesForward == SnapshotSpec => LifecycleNeverGoesBack
<1>1. SnapshotInv /\ [SnapshotNext]_snapshotVars => [applied' >= applied]_snapshotVars
  BY PlansNext, SnapshotNextType DEF SnapshotInv, SnapshotTypeOK
<1> QED
  BY <1>1, SnapshotSpecInv, PTL DEF SnapshotSpec, LifecycleNeverGoesBack
=============================================================================
