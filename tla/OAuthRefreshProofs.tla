------------------------- MODULE OAuthRefreshProofs -------------------------
(***************************************************************************)
(* Proofs about OAuthRefresh, for any number of processes and requests and *)
(* any bounds: type correctness, that only an administrator's write undoes *)
(* a reauthorisation of a Grok account, that a refresh puts a Grok account *)
(* in error for its token only while the token is dead, that an error over *)
(* an accepted token needs an overlap, and that the successor of the row's *)
(* token is not lost.                                                      *)
(*                                                                         *)
(* The inductive invariant says what each actor knows of the provider: a   *)
(* document somebody has read holds a token that was accepted once, and    *)
(* one whose token was rejected or rotated stays behind the provider for   *)
(* ever, because the provider's rotations only go up.  The fourth theorem  *)
(* adds that a rejected token is past, neither accepted nor about to be    *)
(* stored; the fifth, who holds which token: every step only forgets       *)
(* tokens, has the provider rotate one, or hands one to the row.           *)
(***************************************************************************)
EXTENDS OAuthRefresh, TLAPS

\* The document's token is the one the provider accepts, or an older one.
Known(d, cur) == d \in Doc /\ d.gen <= cur[d.family]

\* The document's token has been used.
Used(d, cur) == d \in Doc /\ d.gen < cur[d.family]

\* A caller about to call has a token with a rotation left; a caller whose
\* token was rotated or rejected holds a used one; an attempt begins without
\* the outcome of the one before.
CallerKnows(c, cur) ==
    /\ c.pc = "call" => Known(c.read, cur) /\ c.read.gen < MaxGen
    /\ c.pc \in {"recover", "store"} \/ c.outcome = "rejected"
         => Used(c.read, cur)
    /\ c.outcome # "none" => c.pc \in {"release", "mark"}

\* An administrator's request calls with a token that has a rotation left and
\* writes a known one.
RequestKnows(r, cur) ==
    /\ r.pc \in {"call", "write"} => Known(r.doc, cur)
    /\ r.pc = "call" => r.doc.gen < MaxGen

AgedHaveNext == \A t \in aged : t[2] < MaxGen

CallersKnow == \A p \in Processes : CallerKnows(proc[p], current)

RowKnows == Known(cred, current)

AdminsKnow == \A a \in Admins : RequestKnows(admin[a], current)

IInv == TypeOK /\ AgedHaveNext /\ CallersKnow /\ RowKnows /\ AdminsKnow

-----------------------------------------------------------------------------
\* A rotation only takes what is known further back.
LEMMA RotationKeeps ==
    ASSUME current \in [0..MaxReauth -> 0..MaxGen],
           NEW f \in 0..MaxReauth, current[f] < MaxGen,
           NEW cur, cur = [current EXCEPT ![f] = @ + 1]
    PROVE  /\ cur \in [0..MaxReauth -> 0..MaxGen]
           /\ \A d : Known(d, current) => Known(d, cur)
           /\ \A d : Used(d, current) => Used(d, cur)
           /\ \A d : Known(d, current) /\ d.family = f /\ d.gen = current[f]
                => Used(d, cur)
<1>1. cur \in [0..MaxReauth -> 0..MaxGen]
      /\ \A g \in 0..MaxReauth : cur[g] = IF g = f THEN current[f] + 1 ELSE current[g]
  BY BoundsAssumption
<1>2. \A d \in Doc : d.family \in 0..MaxReauth /\ d.gen \in 0..MaxGen
  BY DEF Doc
<1>3. \A d : Known(d, current) => Known(d, cur)
  <2> SUFFICES ASSUME NEW d, Known(d, current) PROVE Known(d, cur)
    OBVIOUS
  <2>1. d \in Doc /\ d.gen <= current[d.family]
    BY DEF Known
  <2>2. d.family \in 0..MaxReauth /\ d.gen \in 0..MaxGen
    BY <2>1, <1>2
  <2>3. d.gen <= cur[d.family]
    BY <2>1, <2>2, <1>1, BoundsAssumption
  <2> QED BY <2>1, <2>3 DEF Known
<1>4. \A d : Used(d, current) => Used(d, cur)
  <2> SUFFICES ASSUME NEW d, Used(d, current) PROVE Used(d, cur)
    OBVIOUS
  <2>1. d \in Doc /\ d.gen < current[d.family]
    BY DEF Used
  <2>2. d.family \in 0..MaxReauth /\ d.gen \in 0..MaxGen
    BY <2>1, <1>2
  <2>3. d.gen < cur[d.family]
    BY <2>1, <2>2, <1>1, BoundsAssumption
  <2> QED BY <2>1, <2>3 DEF Used
<1>5. \A d : Known(d, current) /\ d.family = f /\ d.gen = current[f] => Used(d, cur)
  <2> SUFFICES ASSUME NEW d, Known(d, current), d.family = f, d.gen = current[f]
               PROVE Used(d, cur)
    OBVIOUS
  <2>1. d \in Doc
    BY DEF Known
  <2>2. d.gen < cur[d.family]
    BY <1>1, BoundsAssumption
  <2> QED BY <2>1, <2>2 DEF Used
<1> QED BY <1>1, <1>3, <1>4, <1>5

\* The successor of a used token is known.
LEMMA RotatedIsKnown ==
    ASSUME current \in [0..MaxReauth -> 0..MaxGen], NEW d, Used(d, current)
    PROVE  /\ Known(Rotated(d), current)
           /\ Rotated(d).family = d.family
<1>1. d \in Doc /\ d.gen < current[d.family]
  BY DEF Used
<1>2. d.family \in 0..MaxReauth /\ d.gen \in 0..MaxGen /\ d.edit \in 0..MaxEdits
  BY <1>1 DEF Doc
<1>3. current[d.family] \in 0..MaxGen
  BY <1>2
<1>4. d.gen + 1 \in 0..MaxGen /\ d.gen + 1 <= current[d.family]
  BY <1>1, <1>2, <1>3, BoundsAssumption
<1>5. Rotated(d) = [family |-> d.family, gen |-> d.gen + 1, edit |-> d.edit]
  BY <1>1 DEF Rotated, Doc
<1>6. Rotated(d) \in Doc
  BY <1>5, <1>4, <1>2 DEF Doc
<1> QED BY <1>4, <1>5, <1>6 DEF Known

\* What a move of one process changes.
LEMMA MoveOfOne ==
    ASSUME proc \in [Processes -> Caller], NEW p \in Processes, NEW c \in Caller,
           Moves(p, c), NEW cur, CallerKnows(c, cur),
           \A q \in Processes : CallerKnows(proc[q], cur)
    PROVE  /\ proc' \in [Processes -> Caller]
           /\ \A q \in Processes : CallerKnows(proc'[q], cur)
<1>1. proc' = [proc EXCEPT ![p] = c]
  BY DEF Moves
<1>2. proc' \in [Processes -> Caller]
  BY <1>1
<1>3. \A q \in Processes : proc'[q] = IF q = p THEN c ELSE proc[q]
  BY <1>1
<1> QED BY <1>2, <1>3

\* A step of one process that changes nothing but itself and the lock.
LEMMA MoveKeeps ==
    ASSUME IInv, NEW p \in Processes, NEW c \in Caller, Moves(p, c),
           CallerKnows(c, current), UNCHANGED <<row, provider, people>>,
           lock' \in Processes \cup {None}, faults' \in 0..MaxEvents,
           mishaps' \subseteq Mishap
    PROVE  IInv'
<1> USE DEF IInv, row, provider, people
<1>1. proc' \in [Processes -> Caller]
      /\ \A q \in Processes : CallerKnows(proc'[q], current)
  BY MoveOfOne DEF TypeOK, CallersKnow
<1>2. TypeOK'
  BY <1>1 DEF TypeOK
<1>3. CallersKnow'
  BY <1>1 DEF CallersKnow
<1>4. AgedHaveNext' /\ RowKnows'
  BY DEF AgedHaveNext, RowKnows
<1>5. AdminsKnow'
  BY DEF AdminsKnow
<1> QED BY <1>2, <1>3, <1>4, <1>5

LEMMA FaultInRange ==
    ASSUME TypeOK, Fault
    PROVE  faults' \in 0..MaxEvents
BY BoundsAssumption DEF Fault, MoreEvents, TypeOK

\* The caller that leaves, and the one that returns.
LEMMA AwayIsCaller == Away \in Caller /\ \A cur : CallerKnows(Away, cur)
<1>1. Away \in Caller
  BY BoundsAssumption DEF Away, Caller
<1> QED BY <1>1 DEF Away, CallerKnows

LEMMA InitIInv == Init => IInv
<1> SUFFICES ASSUME Init PROVE IInv
  OBVIOUS
<1>1. cred \in Doc
  BY BoundsAssumption DEF Init, Doc
<1>2. current \in [0..MaxReauth -> 0..MaxGen]
  BY BoundsAssumption DEF Init
<1>3. proc \in [Processes -> Caller] /\ CallersKnow
  BY AwayIsCaller DEF Init, CallersKnow
<1>4. admin \in [Admins -> Request]
  BY DEF Init, AtRest, Request, Statuses
<1>5. TypeOK
  BY <1>1, <1>2, <1>3, <1>4, BoundsAssumption DEF Init, TypeOK, Statuses
<1>6. RowKnows
  BY <1>1, BoundsAssumption DEF Init, RowKnows, Known
<1>7. AgedHaveNext
  BY DEF Init, AgedHaveNext
<1>8. AdminsKnow
  BY DEF Init, AdminsKnow, AtRest, RequestKnows
<1> QED BY <1>3, <1>5, <1>6, <1>7, <1>8 DEF IInv

-----------------------------------------------------------------------------
\* The updates of a caller's record.
LEMMA Entered ==
    ASSUME NEW c \in Caller, NEW k \in {"background", "request"},
           NEW d,
           d = [c EXCEPT !.pc = "acquire", !.kind = k]
    PROVE  d \in Caller /\ d.pc = "acquire" /\ d.outcome = c.outcome
BY BoundsAssumption DEF Caller

LEMMA Retried ==
    ASSUME NEW c \in Caller, NEW n \in 0..(MaxRetries - 1),
           NEW d,
           d = [c EXCEPT !.pc = "acquire", !.tries = n]
    PROVE  d \in Caller /\ d.pc = "acquire" /\ d.outcome = c.outcome
BY BoundsAssumption DEF Caller

LEMMA Acquired ==
    ASSUME NEW c \in Caller, NEW h \in BOOLEAN,
           NEW d,
           d = [c EXCEPT !.pc = "read", !.holds = h]
    PROVE  d \in Caller /\ d.pc = "read" /\ d.outcome = c.outcome
BY BoundsAssumption DEF Caller

LEMMA ReadFor ==
    ASSUME NEW c \in Caller, NEW r \in Doc,
           NEW d,
           d = [c EXCEPT !.pc = "call", !.read = r]
    PROVE  d \in Caller /\ d.pc = "call" /\ d.read = r /\ d.outcome = c.outcome
BY BoundsAssumption DEF Caller

LEMMA MovedTo ==
    ASSUME NEW c \in Caller, NEW x \in {"recover", "store"},
           NEW d,
           d = [c EXCEPT !.pc = x]
    PROVE  d \in Caller /\ d.pc = x /\ d.read = c.read /\ d.outcome = c.outcome
BY BoundsAssumption DEF Caller

LEMMA Marking ==
    ASSUME NEW o \in {"rejected", "denied"}, NEW r \in Doc \cup {None}, NEW d,
           d = [Away EXCEPT !.pc = "mark", !.read = r, !.outcome = o]
    PROVE  d \in Caller
<1>1. Away \in Caller
  BY AwayIsCaller
<1>2. o \in {"none", "done", "failed", "rejected", "denied"}
  OBVIOUS
<1> QED BY <1>1, <1>2 DEF Caller

\* The return of RefreshIfNeeded is a move to a caller, whatever else the step
\* changes; a rejected one needs a used token.
LEMMA ReturnIsMove ==
    ASSUME proc \in [Processes -> Caller], NEW p \in Processes,
           NEW o \in {"done", "failed", "rejected", "denied"},
           NEW r \in Doc \cup {None}, ReturnsWith(p, o, r), NEW cur,
           o = "rejected" => Used(r, cur)
    PROVE  \E c \in Caller : Moves(p, c) /\ CallerKnows(c, cur)
<1>c. PICK c : c = [proc[p] EXCEPT !.pc = "release", !.outcome = o, !.read = r]
  OBVIOUS
<1>1. proc[p] \in Caller
  OBVIOUS
<1>2. c.pc = "release" /\ c.outcome = o /\ c.read = r
  BY <1>1, <1>c DEF Caller
<1>0. c \in Caller
  BY <1>1, <1>c DEF Caller
<1>3. CallerKnows(c, cur)
  BY <1>2 DEF CallerKnows
<1>4. Moves(p, c)
  BY <1>c DEF ReturnsWith
<1> QED BY <1>0, <1>3, <1>4

LEMMA ReturnKeeps ==
    ASSUME IInv, NEW p \in Processes,
           NEW o \in {"done", "failed", "rejected", "denied"},
           NEW r \in Doc \cup {None}, ReturnsWith(p, o, r),
           o = "rejected" => Used(r, current),
           UNCHANGED <<row, provider, people>>, lock' \in Processes \cup {None},
           faults' \in 0..MaxEvents, mishaps' \subseteq Mishap
    PROVE  IInv'
<1>1. proc \in [Processes -> Caller]
  BY DEF IInv, TypeOK
<1>2. PICK c \in Caller : Moves(p, c) /\ CallerKnows(c, current)
  BY <1>1, ReturnIsMove
<1> QED BY <1>2, MoveKeeps

LEMMA EnterKeeps ==
    ASSUME IInv, NEW p \in Processes, NEW kind \in {"background", "request"},
           Enter(p, kind)
    PROVE  IInv'
<1> DEFINE c == [Away EXCEPT !.pc = "acquire", !.kind = kind]
<1>1. c.pc = "acquire" /\ c.outcome = Away.outcome
  BY AwayIsCaller, Entered
<1>2. c \in Caller
  BY AwayIsCaller, Entered
<1>3. CallerKnows(c, current)
  BY <1>1 DEF CallerKnows, Away
<1>4. Moves(p, c) /\ UNCHANGED <<row, provider, people>>
      /\ lock' \in Processes \cup {None} /\ faults' \in 0..MaxEvents
      /\ mishaps' \subseteq Mishap
  BY DEF Enter, IInv, TypeOK, record
<1> HIDE DEF c
<1> QED BY <1>2, <1>3, <1>4, MoveKeeps

LEMMA AcquireKeeps ==
    ASSUME IInv, NEW p \in Processes,
           AcquireRefreshLock(p) \/ AcquireDegraded(p)
    PROVE  IInv'
<1> DEFINE c(h) == [proc[p] EXCEPT !.pc = "read", !.holds = h]
<1>1. proc[p] \in Caller /\ CallerKnows(proc[p], current) /\ proc[p].pc = "acquire"
  BY DEF IInv, TypeOK, CallersKnow, AcquireRefreshLock, AcquireDegraded
<1>2. \A h \in BOOLEAN : c(h).pc = "read" /\ c(h).outcome = proc[p].outcome
  BY <1>1, Acquired
<1>3. \A h \in BOOLEAN : c(h) \in Caller
  BY <1>1, Acquired
<1>4. \A h \in BOOLEAN : CallerKnows(c(h), current)
  BY <1>1, <1>2 DEF CallerKnows
<1>5. CASE AcquireRefreshLock(p)
  <2>1. UNCHANGED <<row, provider, people>> /\ faults' \in 0..MaxEvents
        /\ mishaps' \subseteq Mishap
    BY <1>5 DEF AcquireRefreshLock, record, IInv, TypeOK
  <2>2. \/ lock' = p /\ Moves(p, c(TRUE))
        \/ lock' = lock /\ Moves(p, Away)
    BY <1>5 DEF AcquireRefreshLock
  <2>3. lock \in Processes \cup {None}
    BY DEF IInv, TypeOK
  <2>4. CASE lock' = p /\ Moves(p, c(TRUE))
    <3>1. c(TRUE) \in Caller /\ CallerKnows(c(TRUE), current)
      BY <1>3, <1>4
    <3> HIDE DEF c
    <3> QED BY <2>1, <2>4, <3>1, MoveKeeps
  <2>5. CASE lock' = lock /\ Moves(p, Away)
    BY <2>1, <2>3, <2>5, AwayIsCaller, MoveKeeps
  <2> QED BY <2>2, <2>4, <2>5
<1>6. CASE AcquireDegraded(p)
  <2>1. UNCHANGED <<row, provider, people>> /\ lock' \in Processes \cup {None}
        /\ mishaps' \subseteq Mishap
    BY <1>6 DEF AcquireDegraded, IInv, TypeOK, Mishap
  <2>2. faults' \in 0..MaxEvents
    BY <1>6, FaultInRange DEF AcquireDegraded, IInv
  <2>3. Moves(p, c(FALSE))
    BY <1>6 DEF AcquireDegraded
  <2>4. c(FALSE) \in Caller /\ CallerKnows(c(FALSE), current)
    BY <1>3, <1>4
  <2> HIDE DEF c
  <2> QED BY <2>1, <2>2, <2>3, <2>4, MoveKeeps
<1> QED BY <1>5, <1>6

LEMMA RereadKeeps ==
    ASSUME IInv, NEW p \in Processes, Reread(p) \/ RereadFails(p)
    PROVE  IInv'
<1>1. CASE Reread(p)
  <2>1. UNCHANGED <<row, provider, people>> /\ lock' \in Processes \cup {None}
        /\ faults' \in 0..MaxEvents /\ mishaps' \subseteq Mishap
    BY <1>1 DEF Reread, record, IInv, TypeOK
  <2>2. CASE status = "active" /\ NeedsRefresh(cred)
    <3>c. PICK c : c = [proc[p] EXCEPT !.pc = "call", !.read = cred]
      OBVIOUS
    <3>1. proc[p] \in Caller /\ CallerKnows(proc[p], current)
          /\ proc[p].pc = "read" /\ cred \in Doc /\ Known(cred, current)
      BY <1>1 DEF IInv, TypeOK, CallersKnow, RowKnows, Reread
    <3>2. <<cred.family, cred.gen>> \in aged
      BY <2>2 DEF NeedsRefresh, TokenOf
    <3>3. cred.gen < MaxGen
      <4> DEFINE t == <<cred.family, cred.gen>>
      <4>1. t[2] < MaxGen
        BY <3>2 DEF IInv, AgedHaveNext
      <4> QED BY <4>1
    <3>4. c.pc = "call" /\ c.read = cred /\ c.outcome = proc[p].outcome
      BY <3>1, <3>c DEF Caller
    <3>5. c \in Caller
      BY <3>1, <3>c, ReadFor
    <3>6. Moves(p, c)
      BY <1>1, <2>2, <3>c DEF Reread
    <3>7. c.outcome = "none"
      BY <3>1, <3>4 DEF CallerKnows
    <3>8. CallerKnows(c, current)
      BY <3>1, <3>3, <3>4, <3>7 DEF CallerKnows
    <3> QED BY <2>1, <3>5, <3>6, <3>8, MoveKeeps
  <2>3. CASE ~ (status = "active" /\ NeedsRefresh(cred))
    <3>1. ReturnsWith(p, "done", None)
      BY <1>1, <2>3 DEF Reread, Returns
    <3> QED BY <2>1, <3>1, ReturnKeeps
  <2> QED BY <2>2, <2>3
<1>2. CASE RereadFails(p)
  <2>1. UNCHANGED <<row, provider, people>> /\ lock' \in Processes \cup {None}
        /\ mishaps' \subseteq Mishap /\ ReturnsWith(p, "done", None)
    BY <1>2 DEF RereadFails, Returns, IInv, TypeOK
  <2>2. faults' \in 0..MaxEvents
    BY <1>2, FaultInRange DEF RereadFails, IInv
  <2> QED BY <2>1, <2>2, ReturnKeeps
<1> QED BY <1>1, <1>2

\* The provider's answers.  A rejected token differs from the accepted one,
\* which is not older than any token that was read.
LEMMA CallRejectedKeeps ==
    ASSUME IInv, NEW p \in Processes, CallRejected(p)
    PROVE  IInv'
<1>1. proc[p] \in Caller /\ CallerKnows(proc[p], current)
      /\ proc[p].pc = "call" /\ ~ Live(proc[p].read)
  BY DEF IInv, TypeOK, CallersKnow, CallRejected
<1>2. Known(proc[p].read, current) /\ proc[p].outcome = "none"
  BY <1>1 DEF CallerKnows
<1>3. Used(proc[p].read, current)
  <2>1. proc[p].read.family \in 0..MaxReauth /\ proc[p].read.gen \in 0..MaxGen
    BY <1>2 DEF Known, Doc
  <2>2. current[proc[p].read.family] \in 0..MaxGen
    BY <2>1 DEF IInv, TypeOK
  <2> QED BY <1>1, <1>2, <2>1, <2>2, BoundsAssumption DEF Known, Used, Live
<1>c. PICK c : c = [proc[p] EXCEPT !.pc = "recover"]
  OBVIOUS
<1>4. c.pc = "recover" /\ c.outcome = proc[p].outcome /\ c.read = proc[p].read
  BY <1>1, <1>c DEF Caller
<1>5. c \in Caller
  BY <1>1, <1>c, MovedTo
<1>6. CallerKnows(c, current)
  BY <1>2, <1>3, <1>4 DEF CallerKnows
<1>7. UNCHANGED <<row, provider, people>>
      /\ lock' \in Processes \cup {None} /\ faults' \in 0..MaxEvents
      /\ mishaps' \subseteq Mishap
  BY DEF CallRejected, record, IInv, TypeOK
<1>8. CASE Moves(p, c)
  BY <1>5, <1>6, <1>7, <1>8, MoveKeeps
<1>9. CASE Rejected(p)
  <2>1. proc[p].read \in Doc /\ ReturnsWith(p, "rejected", proc[p].read)
    BY <1>2, <1>9 DEF Known, Rejected
  <2> QED BY <1>3, <1>7, <2>1, ReturnKeeps
<1> QED BY <1>c, <1>8, <1>9 DEF CallRejected

LEMMA CallFailsKeeps ==
    ASSUME IInv, NEW p \in Processes, CallFails(p) \/ CallDenied(p)
    PROVE  IInv'
<1>1. UNCHANGED <<row, provider, people>> /\ lock' \in Processes \cup {None}
      /\ mishaps' \subseteq Mishap
  BY DEF CallFails, CallDenied, IInv, TypeOK
<1>2. faults' \in 0..MaxEvents
  BY FaultInRange DEF CallFails, CallDenied, Denied, IInv
<1>3. CASE CallFails(p)
  <2>1. PICK o \in {"failed", "done"} : ReturnsWith(p, o, None)
    BY <1>3 DEF CallFails, Returns
  <2> QED BY <1>1, <1>2, <2>1, ReturnKeeps
<1>4. CASE CallDenied(p)
  <2>1. ReturnsWith(p, "denied", proc[p].read) /\ proc[p].pc = "call"
    BY <1>4 DEF CallDenied, Denied
  <2>2. proc[p].read \in Doc
    BY <2>1 DEF IInv, CallersKnow, CallerKnows, Known
  <2> QED BY <1>1, <1>2, <2>1, <2>2, ReturnKeeps
<1> QED BY <1>3, <1>4

\* A Grok request that finds its account not eligible, inside and before
\* RefreshIfNeeded.
LEMMA IneligibleKeeps ==
    ASSUME IInv, NEW p \in Processes, Ineligible(p) \/ RequestDenied(p)
    PROVE  IInv'
<1>1. UNCHANGED <<row, provider, people>> /\ lock' \in Processes \cup {None}
      /\ mishaps' \subseteq Mishap /\ cred \in Doc
  BY DEF Ineligible, RequestDenied, IInv, TypeOK
<1>2. faults' \in 0..MaxEvents
  BY FaultInRange DEF Ineligible, RequestDenied, Denied, IInv
<1>3. CASE Ineligible(p)
  <2>1. ReturnsWith(p, "denied", cred)
    BY <1>3 DEF Ineligible, Denied
  <2> QED BY <1>1, <1>2, <2>1, ReturnKeeps
<1>4. CASE RequestDenied(p)
  <2>c. PICK c : c = [Away EXCEPT !.pc = "mark", !.read = cred, !.outcome = "denied"]
    OBVIOUS
  <2>1. c.pc = "mark" /\ c.outcome = "denied"
    BY <2>c DEF Away
  <2>2. c \in Caller
    BY <1>1, <2>c, Marking
  <2>3. CallerKnows(c, current) /\ Moves(p, c)
    BY <1>4, <2>c, <2>1 DEF CallerKnows, RequestDenied
  <2> QED BY <1>1, <1>2, <2>2, <2>3, MoveKeeps
<1> QED BY <1>3, <1>4

\* A rotation at the provider, with the move of the process that asked.
LEMMA RotationStepKeeps ==
    ASSUME IInv, NEW p \in Processes, proc[p].pc = "call", Live(proc[p].read),
           current' = [current EXCEPT ![proc[p].read.family] = @ + 1],
           NEW c \in Caller, Moves(p, c),
           Used(proc[p].read, current') => CallerKnows(c, current'),
           UNCHANGED <<row, aged, lock, people>>,
           faults' \in 0..MaxEvents, mishaps' \subseteq Mishap
    PROVE  IInv'
<1> DEFINE f == proc[p].read.family
<1>1. CallerKnows(proc[p], current)
  BY DEF IInv, CallersKnow
<1>2. Known(proc[p].read, current) /\ proc[p].read.gen < MaxGen
  BY <1>1 DEF CallerKnows
<1>3. f \in 0..MaxReauth /\ current[f] = proc[p].read.gen
      /\ current \in [0..MaxReauth -> 0..MaxGen]
  BY <1>2 DEF Known, Doc, Live, IInv, TypeOK
<1>c. PICK cur : cur = [current EXCEPT ![f] = @ + 1]
  OBVIOUS
<1>4. /\ cur \in [0..MaxReauth -> 0..MaxGen]
      /\ \A d : Known(d, current) => Known(d, cur)
      /\ \A d : Used(d, current) => Used(d, cur)
      /\ \A d : Known(d, current) /\ d.family = f /\ d.gen = current[f]
           => Used(d, cur)
  BY <1>2, <1>3, <1>c, RotationKeeps
<1>5. current' = cur
  BY <1>c
<1>6. CallerKnows(c, cur)
  BY <1>2, <1>3, <1>4, <1>5
<1>7. \A q \in Processes : CallerKnows(proc[q], cur)
  <2> SUFFICES ASSUME NEW q \in Processes PROVE CallerKnows(proc[q], cur)
    OBVIOUS
  <2>1. CallerKnows(proc[q], current)
    BY DEF IInv, CallersKnow
  <2> QED BY <2>1, <1>4 DEF CallerKnows
<1>8. proc \in [Processes -> Caller]
  BY DEF IInv, TypeOK
<1>9. proc' \in [Processes -> Caller]
      /\ \A q \in Processes : CallerKnows(proc'[q], cur)
  BY <1>6, <1>7, <1>8, MoveOfOne
<1>10. TypeOK'
  BY <1>4, <1>5, <1>9 DEF TypeOK, IInv, row, people
<1>11. CallersKnow'
  BY <1>5, <1>9 DEF CallersKnow
<1>12. AgedHaveNext'
  BY DEF IInv, AgedHaveNext
<1>13. RowKnows'
  BY <1>4, <1>5 DEF IInv, RowKnows, row, people
<1>14. AdminsKnow'
  BY <1>4, <1>5 DEF IInv, AdminsKnow, RequestKnows, row, people
<1> QED BY <1>10, <1>11, <1>12, <1>13, <1>14 DEF IInv

LEMMA CallSucceedsKeeps ==
    ASSUME IInv, NEW p \in Processes, CallSucceeds(p)
    PROVE  IInv'
<1>1. proc[p] \in Caller /\ CallerKnows(proc[p], current)
      /\ proc[p].pc = "call" /\ Live(proc[p].read)
  BY DEF IInv, TypeOK, CallersKnow, CallSucceeds
<1>c. PICK c : c = [proc[p] EXCEPT !.pc = "store"]
  OBVIOUS
<1>2. c.pc = "store" /\ c.outcome = proc[p].outcome /\ c.read = proc[p].read
  BY <1>1, <1>c DEF Caller
<1>3. c \in Caller
  BY <1>1, <1>c, MovedTo
<1>4. proc[p].outcome = "none"
  BY <1>1 DEF CallerKnows
<1>5. Used(proc[p].read, current') => CallerKnows(c, current')
  BY <1>2, <1>4 DEF CallerKnows
<1>6. /\ Moves(p, c) /\ UNCHANGED <<row, aged, lock, people>>
      /\ current' = [current EXCEPT ![proc[p].read.family] = @ + 1]
      /\ faults' \in 0..MaxEvents /\ mishaps' \subseteq Mishap
  BY <1>c DEF CallSucceeds, record, IInv, TypeOK
<1> QED BY <1>1, <1>3, <1>5, <1>6, RotationStepKeeps

LEMMA CallCutOffKeeps ==
    ASSUME IInv, NEW p \in Processes, CallCutOff(p)
    PROVE  IInv'
<1>1. proc[p].pc = "call" /\ Live(proc[p].read)
      /\ proc \in [Processes -> Caller]
  BY DEF IInv, TypeOK, CallCutOff
<1>2. PICK o \in {"failed", "done"} : ReturnsWith(p, o, None)
  BY DEF CallCutOff, Returns
<1>c. PICK c \in Caller : Moves(p, c) /\ CallerKnows(c, current')
  BY <1>1, <1>2, ReturnIsMove
<1>3. UNCHANGED <<row, aged, lock, people>> /\ mishaps' \subseteq Mishap
      /\ current' = [current EXCEPT ![proc[p].read.family] = @ + 1]
  BY DEF CallCutOff, IInv, TypeOK, Mishap
<1>4. faults' \in 0..MaxEvents
  BY FaultInRange DEF CallCutOff, IInv
<1> QED BY <1>1, <1>c, <1>3, <1>4, RotationStepKeeps

LEMMA TryRecoverKeeps ==
    ASSUME IInv, NEW p \in Processes, TryRecover(p) \/ TryRecoverFails(p)
    PROVE  IInv'
<1>1. CallerKnows(proc[p], current) /\ proc[p].pc = "recover"
  BY DEF IInv, CallersKnow, TryRecover, TryRecoverFails
<1>2. Used(proc[p].read, current)
  BY <1>1 DEF CallerKnows
<1>3. UNCHANGED <<row, provider, people>> /\ lock' \in Processes \cup {None}
      /\ mishaps' \subseteq Mishap
  BY DEF TryRecover, TryRecoverFails, record, IInv, TypeOK
<1>4. faults' \in 0..MaxEvents
  BY FaultInRange DEF TryRecover, TryRecoverFails, record, IInv, TypeOK
<1>5. \/ ReturnsWith(p, "done", None)
      \/ ReturnsWith(p, "rejected", proc[p].read)
  BY DEF TryRecover, TryRecoverFails, Returns, Rejected
<1>6. proc[p].read \in Doc
  BY <1>2 DEF Used
<1> QED BY <1>2, <1>3, <1>4, <1>5, <1>6, ReturnKeeps

LEMMA StoreFailsKeeps ==
    ASSUME IInv, NEW p \in Processes, StoreFails(p)
    PROVE  IInv'
<1>1. UNCHANGED <<row, provider, people>> /\ lock' \in Processes \cup {None}
      /\ mishaps' \subseteq Mishap
  BY DEF StoreFails, IInv, TypeOK, Mishap
<1>2. faults' \in 0..MaxEvents
  BY FaultInRange DEF StoreFails, IInv
<1>3. \E o \in {"failed", "done"} : ReturnsWith(p, o, None)
  BY DEF StoreFails, Returns
<1> QED BY <1>1, <1>2, <1>3, ReturnKeeps

\* A store writes the successor of a used token, on a Grok account of the
\* grant that is in the row.
LEMMA StoreWrites ==
    ASSUME IInv, NEW p \in Processes, Store(p) \/ StoreDenied(p)
    PROVE  /\ Known(cred', current)
           /\ platform = "grok" => cred'.family = cred.family
<1>1. CallerKnows(proc[p], current) /\ proc[p].pc = "store"
      /\ current \in [0..MaxReauth -> 0..MaxGen] /\ Known(cred, current)
  BY DEF IInv, TypeOK, CallersKnow, Store, StoreDenied, RowKnows
<1>2. Used(proc[p].read, current)
  BY <1>1 DEF CallerKnows
<1>3. Known(Rotated(proc[p].read), current)
      /\ Rotated(proc[p].read).family = proc[p].read.family
  BY <1>1, <1>2, RotatedIsKnown
<1>4. CASE Applies(p)
  <2>1. cred' = Rotated(proc[p].read)
    BY <1>4 DEF Store, StoreDenied, Stored
  <2>2. platform = "grok" => cred = proc[p].read
    BY <1>4 DEF Applies
  <2> QED BY <1>3, <2>1, <2>2
<1>5. CASE ~ Applies(p)
  <2>1. cred' = cred
    BY <1>5 DEF Store, StoreDenied, Stored
  <2> QED BY <1>1, <2>1
<1> QED BY <1>4, <1>5

LEMMA StoreKeeps ==
    ASSUME IInv, NEW p \in Processes, Store(p) \/ StoreDenied(p)
    PROVE  IInv'
<1>1. Known(cred', current)
  BY StoreWrites
<1>0. cred' \in Doc /\ cred' = Stored(p)
  BY <1>1 DEF Known, Store, StoreDenied
<1>2. proc \in [Processes -> Caller]
      /\ (ReturnsWith(p, "done", None) \/ ReturnsWith(p, "denied", Stored(p)))
      /\ \A q \in Processes : CallerKnows(proc[q], current)
  BY DEF Store, StoreDenied, Denied, Returns, IInv, TypeOK, CallersKnow
<1>c. PICK c \in Caller : Moves(p, c) /\ CallerKnows(c, current)
  BY <1>0, <1>2, ReturnIsMove
<1>3. proc' \in [Processes -> Caller]
      /\ \A q \in Processes : CallerKnows(proc'[q], current)
  BY <1>2, <1>c, MoveOfOne
<1>4. UNCHANGED <<platform, status, current, aged, lock, admin, grants, edits,
                  mishaps>>
  BY DEF Store, StoreDenied, provider, people, record
<1>5. faults' \in 0..MaxEvents
  BY FaultInRange DEF Store, StoreDenied, Denied, record, IInv, TypeOK
<1>6. TypeOK'
  BY <1>0, <1>3, <1>4, <1>5 DEF TypeOK, IInv
<1>7. CallersKnow'
  BY <1>3, <1>4 DEF CallersKnow
<1>8. RowKnows'
  BY <1>1, <1>4 DEF RowKnows, IInv
<1>9. AdminsKnow'
  BY <1>1, <1>4 DEF AdminsKnow, IInv
<1>10. AgedHaveNext'
  BY <1>4 DEF AgedHaveNext, IInv
<1> QED BY <1>6, <1>7, <1>8, <1>9, <1>10 DEF IInv

\* What the caller of RefreshIfNeeded does next.
LEMMA ContinuesIsCaller ==
    ASSUME NEW c \in Caller, NEW cur, CallerKnows(c, cur)
    PROVE  Continues(c) \in Caller /\ CallerKnows(Continues(c), cur)
<1>1. CASE c.outcome \in {"rejected", "denied"} /\ (c.kind = "background" \/ platform = "grok")
  <2>d. PICK d : d = [Away EXCEPT !.pc = "mark", !.read = c.read, !.outcome = c.outcome]
    OBVIOUS
  <2>0. c.read \in Doc \cup {None}
    BY DEF Caller
  <2>1. d.pc = "mark" /\ d.read = c.read /\ d.outcome = c.outcome
    BY <2>d DEF Away
  <2>5. d \in Caller
    <3>1. PICK o \in {"rejected", "denied"} : o = c.outcome
      BY <1>1
    <3>2. PICK r \in Doc \cup {None} : r = c.read
      BY <2>0
    <3> QED BY <2>d, <3>1, <3>2, Marking
  <2>2. Continues(c) = d
    BY <1>1, <2>d DEF Continues
  <2>3. c.outcome = "rejected" => Used(c.read, cur)
    BY DEF CallerKnows
  <2>4. CallerKnows(d, cur)
    BY <2>1, <2>3 DEF CallerKnows
  <2> QED BY <2>5, <2>2, <2>4
<1>2. CASE c.kind = "background" /\ c.outcome = "failed" /\ AttemptLeft(c)
  <2>d. PICK d : d = [Away EXCEPT !.pc = "acquire", !.tries = c.tries + 1]
    OBVIOUS
  <2>1. c.tries + 1 \in 0..(MaxRetries - 1)
    BY <1>2, BoundsAssumption DEF AttemptLeft, Caller
  <2>2. d.pc = "acquire" /\ d.outcome = Away.outcome /\ d \in Caller
    BY <2>1, <2>d, AwayIsCaller, Retried
  <2>3. Continues(c) = d
    BY <1>2, <2>d DEF Continues
  <2>4. CallerKnows(d, cur)
    BY <2>2 DEF CallerKnows, Away
  <2> QED BY <2>2, <2>3, <2>4
<1>3. CASE /\ ~ (c.outcome \in {"rejected", "denied"} /\ (c.kind = "background" \/ platform = "grok"))
           /\ ~ (c.kind = "background" /\ c.outcome = "failed" /\ AttemptLeft(c))
  <2>1. Continues(c) = Away
    BY <1>3 DEF Continues
  <2> QED BY <2>1, AwayIsCaller
<1> QED BY <1>1, <1>2, <1>3

LEMMA ReleaseKeeps ==
    ASSUME IInv, NEW p \in Processes, Release(p) \/ ReleaseFails(p)
    PROVE  IInv'
<1>1. proc[p] \in Caller /\ CallerKnows(proc[p], current)
  BY DEF IInv, TypeOK, CallersKnow
<1>2. Continues(proc[p]) \in Caller /\ CallerKnows(Continues(proc[p]), current)
  BY <1>1, ContinuesIsCaller
<1>3. UNCHANGED <<row, provider, people>> /\ lock' \in Processes \cup {None}
      /\ mishaps' \subseteq Mishap /\ Moves(p, Continues(proc[p]))
  BY DEF Release, ReleaseFails, record, IInv, TypeOK
<1>4. faults' \in 0..MaxEvents
  BY FaultInRange DEF Release, ReleaseFails, record, IInv, TypeOK
<1> QED BY <1>2, <1>3, <1>4, MoveKeeps

\* The steps after which the process has left.
LEMMA LeavesKeeps ==
    ASSUME IInv, NEW p \in Processes, MarkErrorFails(p) \/ Crash(p)
    PROVE  IInv'
<1>1. UNCHANGED <<row, provider, people>> /\ lock' \in Processes \cup {None}
      /\ mishaps' \subseteq Mishap /\ Moves(p, Away)
  BY DEF MarkErrorFails, Crash, Mishap, IInv, TypeOK
<1>2. faults' \in 0..MaxEvents
  BY FaultInRange DEF MarkErrorFails, Crash, IInv, TypeOK
<1> QED BY <1>1, <1>2, AwayIsCaller, MoveKeeps

LEMMA MarkErrorKeeps ==
    ASSUME IInv, NEW p \in Processes, MarkError(p)
    PROVE  IInv'
<1>1. proc \in [Processes -> Caller] /\ Moves(p, Away)
      /\ \A q \in Processes : CallerKnows(proc[q], current)
  BY DEF MarkError, IInv, TypeOK, CallersKnow
<1>2. proc' \in [Processes -> Caller]
      /\ \A q \in Processes : CallerKnows(proc'[q], current)
  BY <1>1, AwayIsCaller, MoveOfOne
<1>3. UNCHANGED <<platform, cred, current, aged, lock, admin, grants, edits,
                  faults, mishaps>>
      /\ status' \in {status, "error", "denied"}
  BY DEF MarkError, Reason, provider, people, record
<1>4. TypeOK'
  BY <1>2, <1>3 DEF TypeOK, IInv, Statuses
<1>5. CallersKnow'
  BY <1>2, <1>3 DEF CallersKnow
<1>6. RowKnows' /\ AgedHaveNext'
  BY <1>3 DEF RowKnows, AgedHaveNext, IInv
<1>7. AdminsKnow'
  BY <1>3 DEF AdminsKnow, IInv
<1> QED BY <1>4, <1>5, <1>6, <1>7 DEF IInv

LEMMA LockLapsesKeeps ==
    ASSUME IInv, LockLapses \/ LockLapsesEarly
    PROVE  IInv'
<1>1. UNCHANGED <<row, provider, people, proc>> /\ lock' = None
      /\ mishaps' \subseteq Mishap
  BY DEF LockLapses, LockLapsesEarly, record, Mishap, IInv, TypeOK
<1>2. faults' \in 0..MaxEvents
  BY FaultInRange DEF LockLapses, LockLapsesEarly, record, IInv, TypeOK
<1>3. TypeOK'
  BY <1>1, <1>2 DEF TypeOK, IInv, row, provider, people
<1>4. CallersKnow' /\ RowKnows' /\ AgedHaveNext'
  BY <1>1 DEF CallersKnow, RowKnows, AgedHaveNext, IInv, row, provider, people
<1>5. AdminsKnow'
  BY <1>1 DEF AdminsKnow, IInv, row, provider, people
<1> QED BY <1>3, <1>4, <1>5 DEF IInv

LEMMA TokenAgesKeeps ==
    ASSUME IInv, TokenAges
    PROVE  IInv'
<1>1. UNCHANGED <<platform, cred, status, current, lock, proc, admin, grants,
                  edits, faults, mishaps>>
      /\ aged' = aged \cup {<<cred.family, cred.gen>>} /\ cred.gen < MaxGen
  BY DEF TokenAges, TokenOf, row, people, record
<1>2. cred.family \in 0..MaxReauth /\ cred.gen \in 0..MaxGen
  BY DEF IInv, TypeOK, Doc
<1>3. TypeOK'
  BY <1>1, <1>2 DEF TypeOK, IInv, Token
<1>4. AgedHaveNext'
  BY <1>1 DEF AgedHaveNext, IInv
<1>5. CallersKnow' /\ RowKnows'
  BY <1>1 DEF CallersKnow, RowKnows, IInv
<1>6. AdminsKnow'
  BY <1>1 DEF AdminsKnow, IInv
<1> QED BY <1>3, <1>4, <1>5, <1>6 DEF IInv

-----------------------------------------------------------------------------
\* What a move of one administrator's request changes.
LEMMA RequestOfOne ==
    ASSUME admin \in [Admins -> Request], NEW a \in Admins, NEW r \in Request,
           AdminMoves(a, r), NEW cur, RequestKnows(r, cur),
           \A b \in Admins : RequestKnows(admin[b], cur)
    PROVE  /\ admin' \in [Admins -> Request]
           /\ \A b \in Admins : RequestKnows(admin'[b], cur)
<1>1. admin' = [admin EXCEPT ![a] = r]
  BY DEF AdminMoves
<1>2. admin' \in [Admins -> Request]
  BY <1>1
<1>3. \A b \in Admins : admin'[b] = IF b = a THEN r ELSE admin[b]
  BY <1>1
<1> QED BY <1>2, <1>3

\* The administrators' steps leave the callers and the tokens that are due
\* alone; only a manual refresh reaches the provider.
LEMMA AdminFrame ==
    ASSUME IInv, UNCHANGED <<platform, aged, lock, proc>>,
           NEW a \in Admins, NEW r \in Request, AdminMoves(a, r),
           RequestKnows(r, current'),
           current' \in [0..MaxReauth -> 0..MaxGen],
           \A d : Known(d, current) => Known(d, current'),
           \A d : Used(d, current) => Used(d, current'),
           Known(cred', current'), status' \in Statuses,
           grants' \in 0..MaxReauth, edits' \in 0..MaxEdits,
           faults' \in 0..MaxEvents, mishaps' \subseteq Mishap
    PROVE  IInv'
<1>1. \A b \in Admins : RequestKnows(admin[b], current')
  BY DEF IInv, AdminsKnow, RequestKnows
<1>2. admin' \in [Admins -> Request]
      /\ \A b \in Admins : RequestKnows(admin'[b], current')
  BY <1>1, RequestOfOne DEF IInv, TypeOK
<1>3. TypeOK'
  BY <1>2 DEF TypeOK, IInv, Known
<1>4. AgedHaveNext'
  BY DEF AgedHaveNext, IInv
<1>5. CallersKnow'
  <2> SUFFICES ASSUME NEW q \in Processes PROVE CallerKnows(proc[q], current')
    BY DEF CallersKnow
  <2>1. CallerKnows(proc[q], current)
    BY DEF IInv, CallersKnow
  <2> QED BY <2>1 DEF CallerKnows
<1>6. RowKnows' /\ AdminsKnow'
  BY <1>2 DEF RowKnows, AdminsKnow
<1> QED BY <1>3, <1>4, <1>5, <1>6 DEF IInv

LEMMA AtRestIsRequest ==
    /\ AtRest \in Request /\ \A cur : RequestKnows(AtRest, cur)
    /\ \A r : r = [AtRest EXCEPT !.pc = "clear"]
          => r \in Request /\ r.pc = "clear" /\ \A cur : RequestKnows(r, cur)
BY DEF AtRest, Request, RequestKnows, Statuses

\* A request begins with a known document: the row's tokens, or a new grant's.
LEMMA AdminBeginsKeeps ==
    ASSUME IInv, NEW a \in Admins,
           AdminReauthorises(a) \/ AdminEdits(a) \/ AdminRefreshes(a)
    PROVE  IInv'
<1>1. UNCHANGED <<platform, cred, status, current, aged, lock, proc, faults, mishaps>>
  BY DEF AdminReauthorises, AdminEdits, AdminRefreshes, others, row, provider, record
<1>2. grants' \in 0..MaxReauth /\ edits' \in 0..MaxEdits
  BY BoundsAssumption DEF AdminReauthorises, AdminEdits, AdminRefreshes, IInv, TypeOK
<1>3. /\ Known(cred, current) /\ cred \in Doc /\ status \in Statuses
      /\ current \in [0..MaxReauth -> 0..MaxGen]
      /\ faults \in 0..MaxEvents /\ mishaps \subseteq Mishap
      /\ cred.family \in 0..MaxReauth /\ cred.gen \in 0..MaxGen
      /\ cred.edit \in 0..MaxEdits
  BY DEF IInv, TypeOK, RowKnows, Doc
<1>4. \E r \in Request : AdminMoves(a, r) /\ RequestKnows(r, current)
  <2>1. CASE AdminReauthorises(a)
    <3>d. PICK d : d = [family |-> grants + 1, gen |-> 0, edit |-> cred.edit]
      OBVIOUS
    <3>r. PICK r : r = [pc |-> "write", kind |-> "reauth", status |-> status, doc |-> d]
      OBVIOUS
    <3>1. grants + 1 \in 0..MaxReauth
      BY <2>1, <1>2 DEF AdminReauthorises
    <3>2. current[grants + 1] \in 0..MaxGen
      BY <1>3, <3>1
    <3>3. Known(d, current)
      BY <3>d, <3>1, <3>2, <1>3, BoundsAssumption DEF Known, Doc
    <3>4. d \in Doc
      BY <3>3 DEF Known
    <3>5. r \in Request
      BY <3>r, <3>4, <1>3 DEF Request
    <3>6. RequestKnows(r, current)
      BY <3>r, <3>3 DEF RequestKnows
    <3>7. AdminMoves(a, r)
      BY <2>1, <3>d, <3>r DEF AdminReauthorises
    <3> QED BY <3>5, <3>6, <3>7
  <2>2. CASE AdminEdits(a)
    <3>d. PICK d : d = [cred EXCEPT !.edit = edits + 1]
      OBVIOUS
    <3>r. PICK r : r = [pc |-> "write", kind |-> "edit", status |-> status, doc |-> d]
      OBVIOUS
    <3>1. edits + 1 \in 0..MaxEdits
      BY <2>2, <1>2 DEF AdminEdits
    <3>2. d = [family |-> cred.family, gen |-> cred.gen, edit |-> edits + 1]
      BY <3>d, <1>3 DEF Doc
    <3>4. d \in Doc
      BY <3>2, <3>1, <1>3 DEF Doc
    <3>3. Known(d, current)
      BY <3>2, <3>4, <1>3 DEF Known
    <3>5. r \in Request
      BY <3>r, <3>4, <1>3 DEF Request
    <3>6. RequestKnows(r, current)
      BY <3>r, <3>3 DEF RequestKnows
    <3>7. AdminMoves(a, r)
      BY <2>2, <3>d, <3>r DEF AdminEdits
    <3> QED BY <3>5, <3>6, <3>7
  <2>3. CASE AdminRefreshes(a)
    <3>r. PICK r : r = [AtRest EXCEPT !.pc = "call", !.kind = "manual", !.doc = cred]
      OBVIOUS
    <3>1. r = [pc |-> "call", kind |-> "manual", doc |-> cred, status |-> "active"]
      BY <3>r DEF AtRest
    <3>2. r \in Request
      BY <3>1, <1>3 DEF Request, Statuses
    <3>3. RequestKnows(r, current)
      BY <2>3, <3>1, <1>3 DEF RequestKnows, AdminRefreshes
    <3>4. AdminMoves(a, r)
      BY <2>3, <3>r DEF AdminRefreshes
    <3> QED BY <3>2, <3>3, <3>4
  <2> QED BY <2>1, <2>2, <2>3
<1> QED BY <1>1, <1>2, <1>3, <1>4, AdminFrame

LEMMA AdminCallsKeeps ==
    ASSUME IInv, NEW a \in Admins, AdminCalls(a)
    PROVE  IInv'
<1> DEFINE d == admin[a].doc
           f == d.family
<1>1. UNCHANGED <<platform, cred, status, aged, lock, proc, grants, edits, faults>>
      /\ mishaps' \subseteq Mishap
  BY DEF AdminCalls, row, Mishap, IInv, TypeOK
<1>2. status' \in Statuses /\ grants' \in 0..MaxReauth
      /\ edits' \in 0..MaxEdits /\ faults' \in 0..MaxEvents /\ status \in Statuses
  BY <1>1 DEF IInv, TypeOK
<1>3. admin[a] \in Request /\ admin[a].pc = "call"
      /\ Known(cred, current) /\ current \in [0..MaxReauth -> 0..MaxGen]
  BY DEF AdminCalls, IInv, TypeOK, RowKnows
<1>0. Known(d, current) /\ d.gen < MaxGen
  BY <1>3 DEF IInv, AdminsKnow, RequestKnows
<1>4. CASE Live(d)
  <2>c. PICK cur : cur = [current EXCEPT ![f] = @ + 1]
    OBVIOUS
  <2>1. f \in 0..MaxReauth /\ current[f] = d.gen
    BY <1>0, <1>4 DEF Known, Doc, Live
  <2>2. /\ cur \in [0..MaxReauth -> 0..MaxGen]
        /\ \A e : Known(e, current) => Known(e, cur)
        /\ \A e : Used(e, current) => Used(e, cur)
        /\ Used(d, cur)
    BY <1>0, <1>3, <2>1, <2>c, RotationKeeps
  <2>3. current' = cur
    BY <1>4, <2>c DEF AdminCalls
  <2>n. PICK n : n = Rotated(d)
    OBVIOUS
  <2>4. Known(n, cur)
    <3>2. d \in Doc /\ d.gen < cur[f]
      BY <2>2 DEF Used
    <3>3. f \in 0..MaxReauth /\ d.gen \in 0..MaxGen /\ d.edit \in 0..MaxEdits
          /\ cur[f] \in 0..MaxGen
      BY <3>2, <2>1, <2>2 DEF Doc
    <3>4. d.gen + 1 \in 0..MaxGen /\ d.gen + 1 <= cur[f]
      BY <3>2, <3>3, BoundsAssumption
    <3>5. n = [family |-> f, gen |-> d.gen + 1, edit |-> d.edit]
      BY <2>n, <3>2 DEF Rotated, Doc
    <3> QED BY <3>3, <3>4, <3>5 DEF Known, Doc
  <2>r. PICK r : r = [admin[a] EXCEPT !.pc = "write", !.status = status, !.doc = n]
    OBVIOUS
  <2>5. AdminMoves(a, r)
    <3>1. AdminMoves(a, [admin[a] EXCEPT !.pc = "write", !.status = status,
                                         !.doc = Rotated(@)])
      BY <1>4 DEF AdminCalls
    <3>2. [admin[a] EXCEPT !.pc = "write", !.status = status, !.doc = Rotated(@)] = r
      BY <1>3, <2>r, <2>n DEF Request
    <3> QED BY <3>1, <3>2
  <2>6. n \in Doc
    BY <2>4 DEF Known
  <2>7. r \in Request
    BY <1>2, <1>3, <2>r, <2>6 DEF Request
  <2>8. r.pc = "write" /\ r.doc = n
    BY <1>3, <2>r DEF Request
  <2>9. RequestKnows(r, current')
    BY <2>3, <2>4, <2>8 DEF RequestKnows
  <2>11. /\ current' \in [0..MaxReauth -> 0..MaxGen]
         /\ \A e : Known(e, current) => Known(e, current')
         /\ \A e : Used(e, current) => Used(e, current')
         /\ Known(cred', current')
    BY <1>1, <1>3, <2>2, <2>3
  <2> QED BY <1>1, <1>2, <2>5, <2>7, <2>9, <2>11, AdminFrame
<1>5. CASE ~ Live(d)
  <2>1. current' = current /\ AdminMoves(a, AtRest)
    BY <1>5 DEF AdminCalls
  <2> QED BY <1>1, <1>2, <1>3, <2>1, AtRestIsRequest, AdminFrame
<1> QED BY <1>4, <1>5

LEMMA AdminWritesKeeps ==
    ASSUME IInv, NEW a \in Admins, AdminWrites(a)
    PROVE  IInv'
<1>1. UNCHANGED <<platform, current, aged, lock, proc, grants, edits, faults>>
      /\ mishaps' \subseteq Mishap /\ admin[a].pc = "write" /\ admin[a] \in Request
  BY DEF AdminWrites, provider, Mishap, IInv, TypeOK
<1>2. Known(cred', current)
  BY <1>1 DEF AdminWrites, IInv, AdminsKnow, RequestKnows
<1>3. PICK r \in Request : AdminMoves(a, r) /\ RequestKnows(r, current)
  <2>1. CASE admin[a].kind = "reauth"
    <3>r. PICK r : r = [AtRest EXCEPT !.pc = "clear"]
      OBVIOUS
    <3>1. AdminMoves(a, r)
      BY <2>1, <3>r DEF AdminWrites
    <3> QED BY <3>r, <3>1, AtRestIsRequest
  <2>2. CASE admin[a].kind # "reauth"
    BY <2>2, AtRestIsRequest DEF AdminWrites
  <2> QED BY <2>1, <2>2
<1>6. status' \in Statuses
  BY <1>1 DEF AdminWrites, Request
<1>7. current' \in [0..MaxReauth -> 0..MaxGen] /\ grants' \in 0..MaxReauth
      /\ edits' \in 0..MaxEdits /\ faults' \in 0..MaxEvents
  BY <1>1 DEF IInv, TypeOK
<1> QED BY <1>1, <1>2, <1>3, <1>6, <1>7, AdminFrame

LEMMA AdminEndsKeeps ==
    ASSUME IInv, NEW a \in Admins,
           AdminWriteFails(a) \/ AdminClears(a) \/ AdminClearFails(a)
    PROVE  IInv'
<1>1. UNCHANGED <<platform, cred, current, aged, lock, proc, grants, edits>>
      /\ mishaps' \subseteq Mishap /\ AdminMoves(a, AtRest)
      /\ status' \in Statuses
  BY DEF AdminWriteFails, AdminClears, AdminClearFails, row, provider, record,
         Mishap, IInv, TypeOK, Statuses
<1>2. faults' \in 0..MaxEvents
  BY FaultInRange DEF AdminWriteFails, AdminClears, AdminClearFails, record,
                      IInv, TypeOK
<1>3. current' \in [0..MaxReauth -> 0..MaxGen] /\ grants' \in 0..MaxReauth
      /\ edits' \in 0..MaxEdits /\ Known(cred', current)
  BY <1>1 DEF IInv, TypeOK, RowKnows
<1> QED BY <1>1, <1>2, <1>3, AtRestIsRequest, AdminFrame

-----------------------------------------------------------------------------
LEMMA NextKeeps == IInv /\ [Next]_vars => IInv'
<1> SUFFICES ASSUME IInv, [Next]_vars PROVE IInv'
  OBVIOUS
<1>1. CASE TokenAges
  BY <1>1, TokenAgesKeeps
<1>2. ASSUME NEW p \in Processes, NEW kind \in {"background", "request"},
             Enter(p, kind)
      PROVE  IInv'
  BY <1>2, EnterKeeps
<1>3. ASSUME NEW p \in Processes, Step(p)
      PROVE  IInv'
  <2>1. CASE AcquireRefreshLock(p)
    BY <2>1, AcquireKeeps
  <2>2. CASE Reread(p)
    BY <2>2, RereadKeeps
  <2>3. CASE CallSucceeds(p)
    BY <2>3, CallSucceedsKeeps
  <2>4. CASE CallRejected(p)
    BY <2>4, CallRejectedKeeps
  <2>5. CASE TryRecover(p)
    BY <2>5, TryRecoverKeeps
  <2>6. CASE Store(p)
    BY <2>6, StoreKeeps
  <2>7. CASE Release(p)
    BY <2>7, ReleaseKeeps
  <2>8. CASE MarkError(p)
    BY <2>8, MarkErrorKeeps
  <2> QED BY <1>3, <2>1, <2>2, <2>3, <2>4, <2>5, <2>6, <2>7, <2>8 DEF Step
<1>4. ASSUME NEW p \in Processes, Fails(p)
      PROVE  IInv'
  <2>1. CASE AcquireDegraded(p)
    BY <2>1, AcquireKeeps
  <2>2. CASE RereadFails(p)
    BY <2>2, RereadKeeps
  <2>3. CASE CallFails(p) \/ CallDenied(p)
    BY <2>3, CallFailsKeeps
  <2>4. CASE CallCutOff(p)
    BY <2>4, CallCutOffKeeps
  <2>5. CASE TryRecoverFails(p)
    BY <2>5, TryRecoverKeeps
  <2>6. CASE Ineligible(p) \/ RequestDenied(p)
    BY <2>6, IneligibleKeeps
  <2>7. CASE StoreFails(p)
    BY <2>7, StoreFailsKeeps
  <2>8. CASE StoreDenied(p)
    BY <2>8, StoreKeeps
  <2>9. CASE ReleaseFails(p)
    BY <2>9, ReleaseKeeps
  <2>10. CASE MarkErrorFails(p) \/ Crash(p)
    BY <2>10, LeavesKeeps
  <2> QED BY <1>4, <2>1, <2>2, <2>3, <2>4, <2>5, <2>6, <2>7, <2>8, <2>9, <2>10
          DEF Fails
<1>5. CASE LockLapses \/ LockLapsesEarly
  BY <1>5, LockLapsesKeeps
<1>6. ASSUME NEW a \in Admins, Administers(a)
      PROVE  IInv'
  <2>1. CASE AdminReauthorises(a) \/ AdminEdits(a) \/ AdminRefreshes(a)
    BY <2>1, AdminBeginsKeeps
  <2>2. CASE AdminCalls(a)
    BY <2>2, AdminCallsKeeps
  <2>3. CASE AdminWrites(a)
    BY <2>3, AdminWritesKeeps
  <2>4. CASE AdminWriteFails(a) \/ AdminClears(a) \/ AdminClearFails(a)
    BY <2>4, AdminEndsKeeps
  <2> QED BY <1>6, <2>1, <2>2, <2>3, <2>4 DEF Administers
<1>7. CASE UNCHANGED vars
  <2>1. TypeOK' /\ AgedHaveNext'
    BY <1>7 DEF IInv, TypeOK, AgedHaveNext, vars
  <2>2. CallersKnow' /\ RowKnows'
    BY <1>7 DEF IInv, CallersKnow, RowKnows, vars
  <2>3. AdminsKnow'
    BY <1>7 DEF IInv, AdminsKnow, vars
  <2> QED BY <2>1, <2>2, <2>3 DEF IInv
<1> QED BY <1>1, <1>2, <1>3, <1>4, <1>5, <1>6, <1>7 DEF Next

\* Few actions write the row.
LEMMA RowWriters ==
    ASSUME [Next]_vars
    PROVE  /\ platform' = platform
           /\ \/ cred' = cred
              \/ \E a \in Admins : AdminWrites(a)
              \/ \E p \in Processes : Store(p) \/ StoreDenied(p)
           /\ \/ status' = status \/ status' = "active"
              \/ \E a \in Admins : AdminWrites(a)
              \/ \E p \in Processes : MarkError(p)
<1>1. CASE UNCHANGED vars
  BY <1>1 DEF vars
<1>2. ASSUME NEW p \in Processes, Step(p)
      PROVE  /\ platform' = platform
             /\ cred' = cred \/ Store(p)
             /\ status' = status \/ MarkError(p)
  BY <1>2 DEF Step, AcquireRefreshLock, Reread, CallSucceeds, CallRejected,
              TryRecover, Store, Release, MarkError, row
<1>3. ASSUME NEW p \in Processes, Fails(p)
      PROVE  /\ platform' = platform
             /\ cred' = cred \/ StoreDenied(p)
             /\ status' = status
  BY <1>3 DEF Fails, AcquireDegraded, RereadFails, CallFails, CallDenied,
              CallCutOff, TryRecoverFails, Ineligible, RequestDenied, StoreFails,
              StoreDenied, ReleaseFails, MarkErrorFails, Crash, row
<1>4. ASSUME NEW p \in Processes, NEW kind \in {"background", "request"},
             Enter(p, kind)
      PROVE  platform' = platform /\ cred' = cred /\ status' = status
  BY <1>4 DEF Enter, row
<1>5. CASE TokenAges \/ LockLapses \/ LockLapsesEarly
  BY <1>5 DEF TokenAges, LockLapses, LockLapsesEarly, row
<1>6. ASSUME NEW a \in Admins, Administers(a)
      PROVE  /\ platform' = platform
             /\ cred' = cred \/ AdminWrites(a)
             /\ status' = status \/ status' = "active" \/ AdminWrites(a)
  <2>1. CASE AdminReauthorises(a) \/ AdminEdits(a) \/ AdminRefreshes(a)
    BY <2>1 DEF AdminReauthorises, AdminEdits, AdminRefreshes, others, row
  <2>2. CASE AdminCalls(a) \/ AdminWriteFails(a) \/ AdminClearFails(a)
    BY <2>2 DEF AdminCalls, AdminWriteFails, AdminClearFails, row
  <2>3. CASE AdminClears(a)
    BY <2>3 DEF AdminClears
  <2>4. CASE AdminWrites(a)
    BY <2>4 DEF AdminWrites
  <2> QED BY <1>6, <2>1, <2>2, <2>3, <2>4 DEF Administers
<1> QED BY <1>1, <1>2, <1>3, <1>4, <1>5, <1>6 DEF Next

\* The administrator whose request writes the row leaves "write".
LEMMA WriteMoves ==
    ASSUME IInv, NEW a \in Admins, AdminWrites(a)
    PROVE  admin[a].pc = "write" /\ admin'[a].pc # "write"
<1>1. admin \in [Admins -> Request] /\ admin[a].pc = "write"
  BY DEF IInv, TypeOK, AdminWrites
<1>2. CASE admin[a].kind = "reauth"
  <2>r. PICK r : r = [AtRest EXCEPT !.pc = "clear"]
    OBVIOUS
  <2>1. admin' = [admin EXCEPT ![a] = r]
    BY <1>2, <2>r DEF AdminWrites, AdminMoves
  <2>2. admin'[a] = r /\ r.pc = "clear"
    BY <1>1, <2>r, <2>1 DEF AtRest
  <2> QED BY <1>1, <2>2
<1>3. CASE admin[a].kind # "reauth"
  <2>1. admin' = [admin EXCEPT ![a] = AtRest]
    BY <1>3 DEF AdminWrites, AdminMoves
  <2>2. admin'[a] = AtRest
    BY <1>1, <2>1
  <2> QED BY <1>1, <2>2 DEF AtRest
<1> QED BY <1>2, <1>3

\* The refresh preserves the types of its state: the retries of the background
\* cycle stay below MaxRetries and no token is rotated past its bound.
THEOREM TypeCorrect == Spec => []TypeOK
<1>1. IInv => TypeOK
  BY DEF IInv
<1> QED BY <1>1, InitIInv, NextKeeps, PTL DEF Spec

\* A refresh of a Grok account never puts an older grant's credentials in place
\* of a reauthorisation (UpdateGrokOAuthCredentialsIfUnchanged), whatever the
\* number of processes and however the lock fails: a step that takes the row
\* back to an older grant is an administrator's write.
THEOREM ReauthorisationSurvives == Spec => ReauthorisationKept
<1>1. ASSUME IInv, [Next]_vars, platform = "grok", cred'.family < cred.family
      PROVE  \E a \in Admins : admin[a].pc = "write" /\ admin'[a] # admin[a]
  <2>1. cred.family \in 0..MaxReauth
    BY <1>1 DEF IInv, TypeOK, Doc
  <2>2. cred' # cred
    BY <1>1, <2>1, BoundsAssumption
  <2>3. ASSUME NEW p \in Processes, Store(p) \/ StoreDenied(p)
        PROVE  FALSE
    <3>1. cred'.family = cred.family
      BY <1>1, <2>3, StoreWrites
    <3> QED BY <1>1, <2>1, <3>1, BoundsAssumption
  <2>4. PICK a \in Admins : AdminWrites(a)
    BY <1>1, <2>2, <2>3, RowWriters
  <2> QED BY <1>1, <2>4, WriteMoves
<1>2. IInv /\ [Next]_vars
        => [platform = "grok" /\ cred'.family < cred.family
              => \E a \in Admins : admin[a].pc = "write" /\ admin'[a] # admin[a]]_vars
  BY <1>1
<1> QED BY <1>2, InitIInv, NextKeeps, PTL DEF Spec, ReauthorisationKept

\* A Grok account is put in error for its refresh token only while the token in
\* its row is dead: the rejected token stays behind the provider and
\* SetGrokOAuthRefreshErrorIfCredentialsUnchanged compares the row with it.
\* Only an administrator's write puts an error back otherwise.
THEOREM ErrorsAreDead == Spec => MarkedIsDead
<1>1. ASSUME IInv, [Next]_vars, platform = "grok", status = "active",
             status' = "error"
      PROVE  \/ ~ Live(cred)
             \/ \E a \in Admins : admin[a].pc = "write" /\ admin'[a] # admin[a]
  <2>1. ASSUME NEW a \in Admins, AdminWrites(a)
        PROVE  \E b \in Admins : admin[b].pc = "write" /\ admin'[b] # admin[b]
    BY <1>1, <2>1, WriteMoves
  <2>2. ASSUME NEW p \in Processes, MarkError(p)
        PROVE  ~ Live(cred)
    <3>1. Marks(p) /\ proc[p].outcome = "rejected"
      BY <1>1, <2>2 DEF MarkError, Reason
    <3>2. cred = proc[p].read
      BY <1>1, <3>1 DEF Marks
    <3>3. CallerKnows(proc[p], current)
      BY <1>1 DEF IInv, CallersKnow
    <3>4. Used(cred, current)
      BY <3>1, <3>2, <3>3 DEF CallerKnows
    <3>5. cred.gen \in 0..MaxGen /\ cred.family \in 0..MaxReauth
          /\ current \in [0..MaxReauth -> 0..MaxGen]
      BY <1>1 DEF IInv, TypeOK, Doc
    <3> QED BY <3>4, <3>5, BoundsAssumption DEF Used, Live
  <2> QED BY <1>1, <2>1, <2>2, RowWriters
<1>2. IInv /\ [Next]_vars
        => [platform = "grok" /\ status = "active" /\ status' = "error"
              => \/ ~ Live(cred)
                 \/ \E a \in Admins : admin[a].pc = "write" /\ admin'[a] # admin[a]]_vars
  BY <1>1
<1> QED BY <1>2, InitIInv, NextKeeps, PTL DEF Spec, MarkedIsDead

-----------------------------------------------------------------------------
(***************************************************************************)
(* The shapes of the steps: what a process does to the lock, and which of  *)
(* the row, the provider and the actor's own document a step changes.      *)
(***************************************************************************)

\* Between the acquisition of the lock and its release.
Inside(c) == c.pc \in {"read", "call", "recover", "store", "release"}

\* The provider has rejected the caller's token.
Refused(c) == c.pc = "recover" \/ c.outcome = "rejected"

\* It has, or it is about to.
Lost(c) == Refused(c) \/ (c.pc = "call" /\ ~ Live(c.read))

LockStep(p) ==
    \/ /\ lock' = lock
       /\ Inside(proc'[p]) => Inside(proc[p]) /\ proc'[p].holds = proc[p].holds
    \/ lock = None /\ lock' = p /\ proc'[p].holds = TRUE
    \/ lock' = None /\ Inside(proc[p]) /\ ~ Inside(proc'[p])
    \/ "unlocked" \in mishaps'

Alone(p) ==
    /\ \A q \in Processes : q # p => proc'[q] = proc[q]
    /\ UNCHANGED <<platform, admin, grants>>
    /\ mishaps \subseteq mishaps'
    /\ mishaps' \subseteq mishaps \cup {"unlocked", "cut"}
    /\ LockStep(p)

Quiet(p) ==
    /\ UNCHANGED <<cred, status, current>>
    /\ proc'[p].pc \notin {"call", "store"}
    /\ Refused(proc'[p]) => Lost(proc[p]) /\ proc'[p].read = proc[p].read
    /\ proc[p].pc = "store" => "cut" \in mishaps'

Reads(p) ==
    /\ UNCHANGED <<cred, status, current>>
    /\ proc[p].pc = "read" /\ proc'[p].pc = "call" /\ proc'[p].read = cred
    /\ proc'[p].outcome = "none"

Rotates(p) ==
    /\ UNCHANGED <<cred, status>>
    /\ proc[p].pc = "call" /\ Live(proc[p].read)
    /\ current' = [current EXCEPT ![proc[p].read.family] = @ + 1]
    /\ proc'[p].outcome # "rejected"
    /\ \/ proc'[p].pc = "store" /\ proc'[p].read = proc[p].read
       \/ proc'[p].pc = "release" /\ "cut" \in mishaps'

Stores(p) ==
    /\ UNCHANGED <<status, current, mishaps>>
    /\ proc[p].pc = "store" /\ proc'[p].pc = "release"
    /\ proc'[p].outcome \in {"done", "denied"}
    /\ cred' = IF Applies(p) THEN Rotated(proc[p].read) ELSE cred

MarksRow(p) ==
    /\ UNCHANGED <<cred, current>>
    /\ proc[p].pc = "mark" /\ proc'[p] = Away
    /\ status' = IF Marks(p) THEN Reason(proc[p]) ELSE status

ProcessStep(p) ==
    /\ Alone(p)
    /\ Quiet(p) \/ Reads(p) \/ Rotates(p) \/ Stores(p) \/ MarksRow(p)

\* An administrator's request begins, is answered by the provider, writes the
\* row, or ends.
Begins(a) ==
    /\ UNCHANGED <<cred, status, current, mishaps>> /\ admin[a].pc = "idle"
    /\ \/ /\ grants < MaxReauth /\ grants' = grants + 1
          /\ admin'[a].pc = "write" /\ admin'[a].kind = "reauth"
          /\ admin'[a].doc.family = grants + 1 /\ admin'[a].doc.gen = 0
          /\ admin'[a].doc.edit = cred.edit
       \/ /\ grants' = grants /\ admin'[a].pc = "write"
          /\ admin'[a].kind = "edit" /\ admin'[a].status = status
          /\ admin'[a].doc.family = cred.family /\ admin'[a].doc.gen = cred.gen
       \/ /\ grants' = grants /\ admin'[a].pc = "call"
          /\ admin'[a].kind = "manual" /\ admin'[a].doc = cred

Answers(a) ==
    /\ UNCHANGED <<cred, status, grants>> /\ admin[a].pc = "call"
    /\ mishaps' = mishaps \cup {"unlocked"}
    /\ \/ /\ Live(admin[a].doc)
          /\ current' = [current EXCEPT ![admin[a].doc.family] = @ + 1]
          /\ admin'[a].pc = "write" /\ admin'[a].kind = admin[a].kind
          /\ admin'[a].doc = Rotated(admin[a].doc)
       \/ current' = current /\ admin'[a].pc = "idle"

Writes(a) ==
    /\ UNCHANGED <<current, grants>> /\ admin[a].pc = "write"
    /\ cred' = admin[a].doc /\ status' = admin[a].status
    /\ \/ /\ admin[a].kind = "reauth" /\ admin'[a].pc = "clear"
          /\ "reauth" \in mishaps'
       \/ /\ admin[a].kind # "reauth" /\ admin'[a].pc = "idle"
          /\ "edit" \in mishaps' /\ mishaps' \subseteq mishaps \cup {"edit"}

Ends(a) ==
    /\ UNCHANGED <<cred, current, grants>> /\ admin'[a].pc = "idle"
    /\ \/ /\ admin[a].pc = "write" /\ status' = status
          /\ admin[a].kind = "manual" => "cut" \in mishaps'
          /\ mishaps' \subseteq mishaps \cup {"cut"}
       \/ admin[a].pc = "clear" /\ status' = "active" /\ mishaps' = mishaps
       \/ admin[a].pc = "clear" /\ status' = status /\ "clear" \in mishaps'

AdminStep(a) ==
    /\ \A b \in Admins : b # a => admin'[b] = admin[b]
    /\ UNCHANGED <<platform, lock, proc>>
    /\ mishaps \subseteq mishaps'
    /\ Begins(a) \/ Answers(a) \/ Writes(a) \/ Ends(a)

\* What is left: time, and the lapse of the lock.
Lapse ==
    /\ UNCHANGED <<platform, cred, status, current, proc, admin, grants>>
    /\ mishaps \subseteq mishaps' /\ mishaps' \subseteq mishaps \cup {"unlocked"}
    /\ \/ lock' = lock
       \/ lock' = None /\ ~ Holding(lock)
       \/ "unlocked" \in mishaps'

LEMMA MovedOne ==
    ASSUME IInv, NEW p \in Processes, NEW c, Moves(p, c)
    PROVE  proc'[p] = c /\ \A q \in Processes : q # p => proc'[q] = proc[q]
BY DEF Moves, IInv, TypeOK

LEMMA ReturnedOne ==
    ASSUME IInv, NEW p \in Processes, NEW o, NEW r, ReturnsWith(p, o, r)
    PROVE  /\ \A q \in Processes : q # p => proc'[q] = proc[q]
           /\ proc'[p].pc = "release" /\ proc'[p].outcome = o
           /\ proc'[p].read = r /\ proc'[p].holds = proc[p].holds
<1>c. PICK c : c = [proc[p] EXCEPT !.pc = "release", !.outcome = o, !.read = r]
  OBVIOUS
<1>1. proc[p] \in Caller
  BY DEF IInv, TypeOK
<1>2. c.pc = "release" /\ c.outcome = o /\ c.read = r /\ c.holds = proc[p].holds
  BY <1>1, <1>c DEF Caller
<1>3. Moves(p, c)
  BY <1>c DEF ReturnsWith
<1> QED BY <1>2, <1>3, MovedOne

\* Before the release a caller has no outcome.
LEMMA NoOutcomeYet ==
    ASSUME IInv, NEW p \in Processes, proc[p].pc \notin {"release", "mark"}
    PROVE  proc[p].outcome = "none"
BY DEF IInv, CallersKnow, CallerKnows

LEMMA EnterShape ==
    ASSUME IInv, NEW p \in Processes, NEW kind \in {"background", "request"},
           Enter(p, kind)
    PROVE  ProcessStep(p)
<1>c. PICK c : c = [Away EXCEPT !.pc = "acquire", !.kind = kind]
  OBVIOUS
<1>1. c.pc = "acquire" /\ c.outcome = "none"
  BY <1>c DEF Away
<1>2. proc'[p] = c /\ \A q \in Processes : q # p => proc'[q] = proc[q]
  BY <1>c, MovedOne DEF Enter
<1>3. UNCHANGED <<platform, cred, status, current, lock, admin, grants, mishaps>>
  BY DEF Enter, row, provider, people, record
<1>4. Alone(p)
  BY <1>1, <1>2, <1>3 DEF Alone, LockStep, Inside
<1>5. Quiet(p)
  BY <1>1, <1>2, <1>3 DEF Quiet, Refused, Enter
<1> QED BY <1>4, <1>5 DEF ProcessStep

LEMMA LeavesShape ==
    ASSUME IInv, NEW p \in Processes, Moves(p, Away), proc[p].pc = "store" => "cut" \in mishaps',
           UNCHANGED <<platform, cred, status, current, lock, admin, grants>>,
           mishaps \subseteq mishaps', mishaps' \subseteq mishaps \cup {"unlocked", "cut"}
    PROVE  ProcessStep(p)
<1>2. proc'[p] = Away /\ \A q \in Processes : q # p => proc'[q] = proc[q]
  BY MovedOne
<1>4. Alone(p)
  BY <1>2 DEF Alone, LockStep, Inside, Away
<1>5. Quiet(p)
  BY <1>2 DEF Quiet, Refused, Away
<1> QED BY <1>4, <1>5 DEF ProcessStep

LEMMA AcquireShape ==
    ASSUME IInv, NEW p \in Processes,
           AcquireRefreshLock(p) \/ AcquireDegraded(p)
    PROVE  ProcessStep(p)
<1>1. proc[p] \in Caller /\ proc[p].pc = "acquire" /\ proc[p].outcome = "none"
  BY NoOutcomeYet DEF IInv, TypeOK, AcquireRefreshLock, AcquireDegraded
<1>2. UNCHANGED <<platform, cred, status, current, admin, grants>>
      /\ mishaps \subseteq mishaps' /\ mishaps' \subseteq mishaps \cup {"unlocked", "cut"}
  BY DEF AcquireRefreshLock, AcquireDegraded, row, provider, people, record
<1>3. ASSUME NEW h \in BOOLEAN,
             Moves(p, [proc[p] EXCEPT !.pc = "read", !.holds = h]),
             \/ lock = None /\ lock' = p /\ h = TRUE
             \/ "unlocked" \in mishaps'
      PROVE  ProcessStep(p)
  <2>c. PICK c : c = [proc[p] EXCEPT !.pc = "read", !.holds = h]
    OBVIOUS
  <2>1. c.pc = "read" /\ c.outcome = "none" /\ c.holds = h
    BY <1>1, <2>c DEF Caller
  <2>2. proc'[p] = c /\ \A q \in Processes : q # p => proc'[q] = proc[q]
    BY <1>3, <2>c, MovedOne
  <2>3. Alone(p)
    BY <1>2, <1>3, <2>1, <2>2 DEF Alone, LockStep
  <2>4. Quiet(p)
    BY <1>1, <1>2, <2>1, <2>2 DEF Quiet, Refused
  <2> QED BY <2>3, <2>4 DEF ProcessStep
<1>4. CASE AcquireRefreshLock(p)
  <2>1. CASE LockFree
    <3>1. Moves(p, [proc[p] EXCEPT !.pc = "read", !.holds = TRUE])
          /\ lock = None /\ lock' = p
      BY <1>4, <2>1 DEF AcquireRefreshLock, LockFree
    <3> QED BY <1>3, <3>1
  <2>2. CASE ~ LockFree
    <3>1. Moves(p, Away) /\ lock' = lock
      BY <1>4, <2>2 DEF AcquireRefreshLock
    <3> QED BY <1>1, <1>2, <3>1, LeavesShape
  <2> QED BY <2>1, <2>2
<1>5. CASE AcquireDegraded(p)
  <2>1. Moves(p, [proc[p] EXCEPT !.pc = "read", !.holds = FALSE])
        /\ "unlocked" \in mishaps'
    BY <1>5 DEF AcquireDegraded
  <2> QED BY <1>3, <2>1
<1> QED BY <1>4, <1>5

\* A return that changes nothing else.
LEMMA ReturnShape ==
    ASSUME IInv, NEW p \in Processes, NEW o, NEW r, ReturnsWith(p, o, r),
           Inside(proc[p]),
           UNCHANGED <<platform, cred, status, current, lock, admin, grants>>,
           mishaps \subseteq mishaps', mishaps' \subseteq mishaps \cup {"unlocked", "cut"},
           o = "rejected" => Lost(proc[p]) /\ r = proc[p].read,
           proc[p].pc = "store" => "cut" \in mishaps'
    PROVE  ProcessStep(p)
<1>1. /\ \A q \in Processes : q # p => proc'[q] = proc[q]
      /\ proc'[p].pc = "release" /\ proc'[p].outcome = o
      /\ proc'[p].read = r /\ proc'[p].holds = proc[p].holds
  BY ReturnedOne
<1>2. Alone(p)
  BY <1>1 DEF Alone, LockStep
<1>3. Quiet(p)
  BY <1>1 DEF Quiet, Refused
<1> QED BY <1>2, <1>3 DEF ProcessStep

LEMMA RereadShape ==
    ASSUME IInv, NEW p \in Processes, Reread(p) \/ RereadFails(p)
    PROVE  ProcessStep(p)
<1>1. proc[p] \in Caller /\ proc[p].pc = "read" /\ proc[p].outcome = "none"
      /\ Inside(proc[p])
  BY NoOutcomeYet DEF IInv, TypeOK, Reread, RereadFails, Inside
<1>2. UNCHANGED <<platform, cred, status, current, lock, admin, grants, mishaps>>
  BY DEF Reread, RereadFails, row, provider, people, record
<1>3. CASE ReturnsWith(p, "done", None)
  BY <1>1, <1>2, <1>3, ReturnShape
<1>4. CASE Moves(p, [proc[p] EXCEPT !.pc = "call", !.read = cred])
  <2>c. PICK c : c = [proc[p] EXCEPT !.pc = "call", !.read = cred]
    OBVIOUS
  <2>1. c.pc = "call" /\ c.outcome = "none" /\ c.read = cred
        /\ c.holds = proc[p].holds
    BY <1>1, <2>c DEF Caller
  <2>2. proc'[p] = c /\ \A q \in Processes : q # p => proc'[q] = proc[q]
    BY <1>4, <2>c, MovedOne
  <2>3. Alone(p)
    BY <1>1, <1>2, <2>1, <2>2 DEF Alone, LockStep
  <2>4. Reads(p)
    BY <1>1, <1>2, <2>1, <2>2 DEF Reads
  <2> QED BY <2>3, <2>4 DEF ProcessStep
<1> QED BY <1>3, <1>4 DEF Reread, RereadFails, Returns

LEMMA CallShape ==
    ASSUME IInv, NEW p \in Processes,
           \/ CallSucceeds(p) \/ CallRejected(p)
           \/ CallFails(p) \/ CallDenied(p) \/ CallCutOff(p)
    PROVE  ProcessStep(p)
<1>1. proc[p] \in Caller /\ proc[p].pc = "call" /\ proc[p].outcome = "none"
      /\ Inside(proc[p])
  BY NoOutcomeYet DEF IInv, TypeOK, CallSucceeds, CallRejected, CallFails,
                      CallDenied, CallCutOff, Inside
<1>2. UNCHANGED <<platform, cred, status, lock, admin, grants>>
      /\ mishaps \subseteq mishaps' /\ mishaps' \subseteq mishaps \cup {"unlocked", "cut"}
  BY DEF CallSucceeds, CallRejected, CallFails, CallDenied, CallCutOff, row, people,
         record
<1>3. CASE CallSucceeds(p)
  <2>c. PICK c : c = [proc[p] EXCEPT !.pc = "store"]
    OBVIOUS
  <2>1. c.pc = "store" /\ c.outcome = "none" /\ c.read = proc[p].read
        /\ c.holds = proc[p].holds
    BY <1>1, <2>c DEF Caller
  <2>2. proc'[p] = c /\ \A q \in Processes : q # p => proc'[q] = proc[q]
    BY <1>3, <2>c, MovedOne DEF CallSucceeds
  <2>3. Alone(p)
    BY <1>1, <1>2, <2>1, <2>2 DEF Alone, LockStep
  <2>4. Rotates(p)
    BY <1>1, <1>2, <1>3, <2>1, <2>2 DEF Rotates, CallSucceeds
  <2> QED BY <2>3, <2>4 DEF ProcessStep
<1>4. CASE CallRejected(p)
  <2>0. current' = current /\ Lost(proc[p])
    BY <1>1, <1>4 DEF CallRejected, provider, Lost
  <2>1. CASE Rejected(p)
    <3>1. ReturnsWith(p, "rejected", proc[p].read)
      BY <2>1 DEF Rejected
    <3> QED BY <1>1, <1>2, <2>0, <3>1, ReturnShape
  <2>2. CASE Moves(p, [proc[p] EXCEPT !.pc = "recover"])
    <3>c. PICK c : c = [proc[p] EXCEPT !.pc = "recover"]
      OBVIOUS
    <3>1. c.pc = "recover" /\ c.outcome = "none" /\ c.read = proc[p].read
          /\ c.holds = proc[p].holds
      BY <1>1, <3>c DEF Caller
    <3>2. proc'[p] = c /\ \A q \in Processes : q # p => proc'[q] = proc[q]
      BY <2>2, <3>c, MovedOne
    <3>3. Alone(p)
      BY <1>1, <1>2, <3>1, <3>2 DEF Alone, LockStep
    <3>4. Quiet(p)
      BY <1>1, <1>2, <3>1, <3>2, <2>0 DEF Quiet
    <3> QED BY <3>3, <3>4 DEF ProcessStep
  <2> QED BY <1>4, <2>1, <2>2 DEF CallRejected
<1>5. CASE CallFails(p) \/ CallDenied(p)
  <2>1. PICK o \in {"failed", "done", "denied"} :
          ReturnsWith(p, o, IF o = "denied" THEN proc[p].read ELSE None)
    BY <1>5 DEF CallFails, CallDenied, Denied, Returns
  <2>2. current' = current
    BY <1>5 DEF CallFails, CallDenied, provider
  <2> QED BY <1>1, <1>2, <2>1, <2>2, ReturnShape
<1>6. CASE CallCutOff(p)
  <2>1. PICK o \in {"failed", "done"} : ReturnsWith(p, o, None)
    BY <1>6 DEF CallCutOff, Returns
  <2>2. /\ \A q \in Processes : q # p => proc'[q] = proc[q]
        /\ proc'[p].pc = "release" /\ proc'[p].outcome = o
        /\ proc'[p].holds = proc[p].holds
    BY <2>1, ReturnedOne
  <2>3. Alone(p)
    BY <1>1, <1>2, <2>2 DEF Alone, LockStep
  <2>4. Rotates(p)
    BY <1>1, <1>2, <1>6, <2>2 DEF Rotates, CallCutOff
  <2> QED BY <2>3, <2>4 DEF ProcessStep
<1> QED BY <1>3, <1>4, <1>5, <1>6

LEMMA RecoverShape ==
    ASSUME IInv, NEW p \in Processes, TryRecover(p) \/ TryRecoverFails(p)
    PROVE  ProcessStep(p)
<1>1. Inside(proc[p]) /\ Lost(proc[p]) /\ proc[p].pc = "recover"
  BY DEF TryRecover, TryRecoverFails, Inside, Lost, Refused
<1>2. UNCHANGED <<platform, cred, status, current, lock, admin, grants, mishaps>>
  BY DEF TryRecover, TryRecoverFails, row, provider, people, record
<1>3. \/ ReturnsWith(p, "done", None)
      \/ ReturnsWith(p, "rejected", proc[p].read)
  BY DEF TryRecover, TryRecoverFails, Returns, Rejected
<1> QED BY <1>1, <1>2, <1>3, ReturnShape

LEMMA IneligibleShape ==
    ASSUME IInv, NEW p \in Processes, Ineligible(p) \/ RequestDenied(p)
    PROVE  ProcessStep(p)
<1>1. UNCHANGED <<platform, cred, status, current, lock, admin, grants, mishaps>>
  BY DEF Ineligible, RequestDenied, row, provider, people
<1>2. CASE Ineligible(p)
  <2>1. ReturnsWith(p, "denied", cred) /\ Inside(proc[p]) /\ proc[p].pc # "store"
    BY <1>2 DEF Ineligible, Denied, Inside
  <2> QED BY <1>1, <2>1, ReturnShape
<1>3. CASE RequestDenied(p)
  <2>c. PICK c : c = [Away EXCEPT !.pc = "mark", !.read = cred, !.outcome = "denied"]
    OBVIOUS
  <2>1. c.pc = "mark" /\ c.outcome = "denied"
    BY <2>c DEF Away
  <2>2. proc'[p] = c /\ \A q \in Processes : q # p => proc'[q] = proc[q]
    BY <1>3, <2>c, MovedOne DEF RequestDenied
  <2>3. Alone(p)
    BY <1>1, <2>1, <2>2 DEF Alone, LockStep, Inside
  <2>4. Quiet(p)
    BY <1>1, <1>3, <2>1, <2>2 DEF Quiet, Refused, RequestDenied
  <2> QED BY <2>3, <2>4 DEF ProcessStep
<1> QED BY <1>2, <1>3

LEMMA StoreShape ==
    ASSUME IInv, NEW p \in Processes, Store(p) \/ StoreDenied(p) \/ StoreFails(p)
    PROVE  ProcessStep(p)
<1>1. Inside(proc[p]) /\ proc[p].pc = "store"
  BY DEF Store, StoreDenied, StoreFails, Inside
<1>2. CASE Store(p) \/ StoreDenied(p)
  <2>1. UNCHANGED <<platform, status, current, lock, admin, grants, mishaps>>
    BY <1>2 DEF Store, StoreDenied, provider, people, record
  <2>0. \/ ReturnsWith(p, "done", None)
        \/ ReturnsWith(p, "denied", Stored(p))
    BY <1>2 DEF Store, StoreDenied, Denied, Returns
  <2>2. /\ \A q \in Processes : q # p => proc'[q] = proc[q]
        /\ proc'[p].pc = "release" /\ proc'[p].outcome \in {"done", "denied"}
        /\ proc'[p].holds = proc[p].holds
    BY <2>0, ReturnedOne
  <2>3. Alone(p)
    BY <1>1, <2>1, <2>2 DEF Alone, LockStep
  <2>4. Stores(p)
    BY <1>1, <1>2, <2>1, <2>2 DEF Stores, Store, StoreDenied, Stored
  <2> QED BY <2>3, <2>4 DEF ProcessStep
<1>3. CASE StoreFails(p)
  <2>1. UNCHANGED <<platform, cred, status, current, lock, admin, grants>>
        /\ mishaps \subseteq mishaps' /\ mishaps' \subseteq mishaps \cup {"unlocked", "cut"}
        /\ "cut" \in mishaps'
    BY <1>3 DEF StoreFails, row, provider, people
  <2>2. \E o \in {"done", "failed"} : ReturnsWith(p, o, None)
    BY <1>3 DEF StoreFails, Returns
  <2> QED BY <1>1, <2>1, <2>2, ReturnShape
<1> QED BY <1>2, <1>3

LEMMA ReleaseShape ==
    ASSUME IInv, NEW p \in Processes, Release(p) \/ ReleaseFails(p)
    PROVE  ProcessStep(p)
<1>1. proc[p] \in Caller /\ Inside(proc[p]) /\ proc[p].pc = "release"
  BY DEF IInv, TypeOK, Release, ReleaseFails, Inside
<1>2. UNCHANGED <<platform, cred, status, current, admin, grants, mishaps>>
      /\ lock' \in {lock, None}
  BY DEF Release, ReleaseFails, row, provider, people, record
<1>3. proc'[p] = Continues(proc[p])
      /\ \A q \in Processes : q # p => proc'[q] = proc[q]
  BY MovedOne DEF Release, ReleaseFails
<1>4. /\ proc'[p].pc \notin {"read", "call", "recover", "store", "release"}
      /\ Refused(proc'[p]) => Refused(proc[p]) /\ proc'[p].read = proc[p].read
  <2> DEFINE c == proc[p]
  <2>1. CASE c.outcome \in {"rejected", "denied"} /\ (c.kind = "background" \/ platform = "grok")
    <3>d. PICK d : d = [Away EXCEPT !.pc = "mark", !.read = c.read, !.outcome = c.outcome]
      OBVIOUS
    <3>1. d.pc = "mark" /\ d.read = c.read /\ d.outcome = c.outcome
      BY <3>d DEF Away
    <3>2. Continues(c) = d
      BY <2>1, <3>d DEF Continues
    <3> QED BY <1>3, <2>1, <3>1, <3>2 DEF Refused
  <2>2. CASE c.kind = "background" /\ c.outcome = "failed" /\ AttemptLeft(c)
    <3>d. PICK d : d = [Away EXCEPT !.pc = "acquire", !.tries = c.tries + 1]
      OBVIOUS
    <3>1. d.pc = "acquire" /\ d.outcome = "none"
      BY <3>d DEF Away
    <3>2. Continues(c) = d
      BY <2>2, <3>d DEF Continues
    <3> QED BY <1>3, <3>1, <3>2 DEF Refused
  <2>3. CASE /\ ~ (c.outcome \in {"rejected", "denied"} /\ (c.kind = "background" \/ platform = "grok"))
             /\ ~ (c.kind = "background" /\ c.outcome = "failed" /\ AttemptLeft(c))
    <3>1. Continues(c) = Away
      BY <2>3 DEF Continues
    <3> QED BY <1>3, <3>1 DEF Away, Refused
  <2> QED BY <2>1, <2>2, <2>3
<1>5. Alone(p)
  BY <1>1, <1>2, <1>3, <1>4 DEF Alone, LockStep, Inside
<1>6. Quiet(p)
  BY <1>1, <1>2, <1>4 DEF Quiet, Lost
<1> QED BY <1>5, <1>6 DEF ProcessStep

LEMMA MarkShape ==
    ASSUME IInv, NEW p \in Processes,
           MarkError(p) \/ MarkErrorFails(p) \/ Crash(p)
    PROVE  ProcessStep(p)
<1>1. CASE MarkError(p)
  <2>1. UNCHANGED <<platform, cred, current, lock, admin, grants, mishaps>>
    BY <1>1 DEF MarkError, provider, people, record
  <2>2. proc'[p] = Away /\ \A q \in Processes : q # p => proc'[q] = proc[q]
    BY <1>1, MovedOne DEF MarkError
  <2>3. Alone(p)
    BY <2>1, <2>2 DEF Alone, LockStep, Inside, Away
  <2>4. MarksRow(p)
    BY <1>1, <2>1, <2>2 DEF MarksRow, MarkError
  <2> QED BY <2>3, <2>4 DEF ProcessStep
<1>2. CASE MarkErrorFails(p) \/ Crash(p)
  <2>1. UNCHANGED <<platform, cred, status, current, lock, admin, grants>>
        /\ mishaps \subseteq mishaps' /\ mishaps' \subseteq mishaps \cup {"unlocked", "cut"}
        /\ Moves(p, Away)
        /\ (proc[p].pc = "store" => "cut" \in mishaps')
    BY <1>2 DEF MarkErrorFails, Crash, row, provider, people
  <2> QED BY <2>1, LeavesShape
<1> QED BY <1>1, <1>2

\* The administrators' steps.
LEMMA MovedRequest ==
    ASSUME IInv, NEW a \in Admins, NEW r, AdminMoves(a, r)
    PROVE  admin'[a] = r /\ \A b \in Admins : b # a => admin'[b] = admin[b]
BY DEF AdminMoves, IInv, TypeOK

LEMMA BeginShape ==
    ASSUME IInv, NEW a \in Admins,
           AdminReauthorises(a) \/ AdminEdits(a) \/ AdminRefreshes(a)
    PROVE  AdminStep(a)
<1>1. UNCHANGED <<platform, cred, status, current, lock, proc, mishaps>>
      /\ admin[a].pc = "idle"
  BY DEF AdminReauthorises, AdminEdits, AdminRefreshes, others, row, provider, record
<1>2. CASE AdminReauthorises(a)
  <2>r. PICK r : r = [pc |-> "write", kind |-> "reauth", status |-> status,
                      doc |-> [family |-> grants + 1, gen |-> 0, edit |-> cred.edit]]
    OBVIOUS
  <2>1. admin'[a] = r /\ \A b \in Admins : b # a => admin'[b] = admin[b]
    BY <1>2, <2>r, MovedRequest DEF AdminReauthorises
  <2>2. Begins(a)
    BY <1>1, <1>2, <2>r, <2>1 DEF Begins, AdminReauthorises
  <2> QED BY <1>1, <2>1, <2>2 DEF AdminStep
<1>3. CASE AdminEdits(a)
  <2>d. PICK d : d = [cred EXCEPT !.edit = edits + 1]
    OBVIOUS
  <2>r. PICK r : r = [pc |-> "write", kind |-> "edit", status |-> status, doc |-> d]
    OBVIOUS
  <2>1. admin'[a] = r /\ \A b \in Admins : b # a => admin'[b] = admin[b]
    BY <1>3, <2>d, <2>r, MovedRequest DEF AdminEdits
  <2>2. d.family = cred.family /\ d.gen = cred.gen
    BY <2>d DEF IInv, TypeOK, Doc
  <2>3. grants' = grants
    BY <1>3 DEF AdminEdits
  <2>4. Begins(a)
    BY <1>1, <2>r, <2>1, <2>2, <2>3 DEF Begins
  <2> QED BY <1>1, <2>1, <2>4 DEF AdminStep
<1>4. CASE AdminRefreshes(a)
  <2>r. PICK r : r = [AtRest EXCEPT !.pc = "call", !.kind = "manual", !.doc = cred]
    OBVIOUS
  <2>1. admin'[a] = r /\ \A b \in Admins : b # a => admin'[b] = admin[b]
    BY <1>4, <2>r, MovedRequest DEF AdminRefreshes
  <2>2. r.pc = "call" /\ r.kind = "manual" /\ r.doc = cred
    BY <2>r DEF AtRest
  <2>3. grants' = grants
    BY <1>4 DEF AdminRefreshes
  <2>4. Begins(a)
    BY <1>1, <2>1, <2>2, <2>3 DEF Begins
  <2> QED BY <1>1, <2>1, <2>4 DEF AdminStep
<1> QED BY <1>2, <1>3, <1>4

LEMMA AnswerShape ==
    ASSUME IInv, NEW a \in Admins, AdminCalls(a)
    PROVE  AdminStep(a)
<1>1. UNCHANGED <<platform, cred, status, lock, proc, grants>>
      /\ mishaps' = mishaps \cup {"unlocked"}
      /\ admin[a].pc = "call" /\ admin[a] \in Request
  BY DEF AdminCalls, row, IInv, TypeOK
<1>2. CASE Live(admin[a].doc)
  <2>n. PICK n : n = Rotated(admin[a].doc)
    OBVIOUS
  <2>r. PICK r : r = [admin[a] EXCEPT !.pc = "write", !.status = status, !.doc = n]
    OBVIOUS
  <2>1. AdminMoves(a, r)
    <3>1. AdminMoves(a, [admin[a] EXCEPT !.pc = "write", !.status = status,
                                         !.doc = Rotated(@)])
      BY <1>2 DEF AdminCalls
    <3>2. [admin[a] EXCEPT !.pc = "write", !.status = status, !.doc = Rotated(@)] = r
      BY <1>1, <2>r, <2>n DEF Request
    <3> QED BY <3>1, <3>2
  <2>2. r.pc = "write" /\ r.kind = admin[a].kind /\ r.doc = n
    BY <1>1, <2>r DEF Request
  <2>3. admin'[a] = r /\ \A b \in Admins : b # a => admin'[b] = admin[b]
    BY <2>1, MovedRequest
  <2>4. current' = [current EXCEPT ![admin[a].doc.family] = @ + 1]
    BY <1>2 DEF AdminCalls
  <2>5. Answers(a)
    BY <1>1, <1>2, <2>n, <2>2, <2>3, <2>4 DEF Answers
  <2> QED BY <1>1, <2>3, <2>5 DEF AdminStep
<1>3. CASE ~ Live(admin[a].doc)
  <2>1. current' = current /\ AdminMoves(a, AtRest)
    BY <1>3 DEF AdminCalls
  <2>2. admin'[a] = AtRest /\ \A b \in Admins : b # a => admin'[b] = admin[b]
    BY <2>1, MovedRequest
  <2>3. Answers(a)
    BY <1>1, <2>1, <2>2 DEF Answers, AtRest
  <2> QED BY <1>1, <2>2, <2>3 DEF AdminStep
<1> QED BY <1>2, <1>3

LEMMA WriteShape ==
    ASSUME IInv, NEW a \in Admins, AdminWrites(a)
    PROVE  AdminStep(a)
<1>1. UNCHANGED <<platform, current, lock, proc, grants>>
      /\ admin[a].pc = "write" /\ cred' = admin[a].doc /\ status' = admin[a].status
      /\ mishaps \subseteq mishaps'
  BY DEF AdminWrites, provider
<1>2. CASE admin[a].kind = "reauth"
  <2>r. PICK r : r = [AtRest EXCEPT !.pc = "clear"]
    OBVIOUS
  <2>1. AdminMoves(a, r) /\ "reauth" \in mishaps'
    BY <1>2, <2>r DEF AdminWrites
  <2>2. admin'[a] = r /\ \A b \in Admins : b # a => admin'[b] = admin[b]
    BY <2>1, MovedRequest
  <2>3. r.pc = "clear"
    BY <2>r DEF AtRest
  <2>4. Writes(a)
    BY <1>1, <1>2, <2>1, <2>2, <2>3 DEF Writes
  <2> QED BY <1>1, <2>2, <2>4 DEF AdminStep
<1>3. CASE admin[a].kind # "reauth"
  <2>1. AdminMoves(a, AtRest) /\ mishaps' = mishaps \cup {"edit"}
    BY <1>3 DEF AdminWrites
  <2>2. admin'[a] = AtRest /\ \A b \in Admins : b # a => admin'[b] = admin[b]
    BY <2>1, MovedRequest
  <2>3. Writes(a)
    BY <1>1, <1>3, <2>1, <2>2 DEF Writes, AtRest
  <2> QED BY <1>1, <2>2, <2>3 DEF AdminStep
<1> QED BY <1>2, <1>3

LEMMA EndShape ==
    ASSUME IInv, NEW a \in Admins,
           AdminWriteFails(a) \/ AdminClears(a) \/ AdminClearFails(a)
    PROVE  AdminStep(a)
<1>1. UNCHANGED <<platform, cred, current, lock, proc, grants>>
      /\ mishaps \subseteq mishaps' /\ AdminMoves(a, AtRest)
  BY DEF AdminWriteFails, AdminClears, AdminClearFails, row, provider, record
<1>2. admin'[a] = AtRest /\ \A b \in Admins : b # a => admin'[b] = admin[b]
  BY <1>1, MovedRequest
<1>3. \/ /\ admin[a].pc = "write" /\ status' = status
         /\ admin[a].kind = "manual" => "cut" \in mishaps'
         /\ mishaps' \subseteq mishaps \cup {"cut"}
      \/ admin[a].pc = "clear" /\ status' = "active" /\ mishaps' = mishaps
      \/ admin[a].pc = "clear" /\ status' = status /\ "clear" \in mishaps'
  BY DEF AdminWriteFails, AdminClears, AdminClearFails, row, record
<1>4. Ends(a)
  BY <1>1, <1>2, <1>3 DEF Ends, AtRest
<1> QED BY <1>1, <1>2, <1>4 DEF AdminStep

\* Every step has one of the shapes.
LEMMA StepShape ==
    ASSUME IInv, [Next]_vars
    PROVE  \/ \E p \in Processes : ProcessStep(p)
           \/ \E a \in Admins : AdminStep(a)
           \/ Lapse
<1>1. ASSUME NEW p \in Processes, Step(p)
      PROVE  ProcessStep(p)
  BY <1>1, AcquireShape, RereadShape, CallShape, RecoverShape, StoreShape,
     ReleaseShape, MarkShape DEF Step
<1>2. ASSUME NEW p \in Processes, Fails(p)
      PROVE  ProcessStep(p)
  BY <1>2, AcquireShape, RereadShape, CallShape, RecoverShape, IneligibleShape,
     StoreShape, ReleaseShape, MarkShape DEF Fails
<1>3. ASSUME NEW p \in Processes, NEW kind \in {"background", "request"},
             Enter(p, kind)
      PROVE  ProcessStep(p)
  BY <1>3, EnterShape
<1>4. CASE TokenAges \/ UNCHANGED vars
  BY <1>4 DEF TokenAges, vars, Lapse, row, people, record
<1>5. CASE LockLapses \/ LockLapsesEarly
  BY <1>5 DEF LockLapses, LockLapsesEarly, Lapses, Lapse, row, provider, people,
              record
<1>6. ASSUME NEW a \in Admins, Administers(a)
      PROVE  AdminStep(a)
  BY <1>6, BeginShape, AnswerShape, WriteShape, EndShape DEF Administers
<1> QED BY <1>1, <1>2, <1>3, <1>4, <1>5, <1>6 DEF Next

-----------------------------------------------------------------------------
(***************************************************************************)
(* An account in error for its token has one that is past.                 *)
(***************************************************************************)

\* The token has been used, and it is not the one a store is about to replace.
Past(d) ==
    /\ Used(d, current)
    /\ \A p \in Processes : proc[p].pc = "store" /\ proc[p].read.family = d.family
          => d.gen < proc[p].read.gen

\* Nobody has called the provider without the lock: one caller is inside.
Exclusive ==
    "unlocked" \notin mishaps =>
        /\ \A p \in Processes : Inside(proc[p]) => proc[p].holds = TRUE /\ lock = p
        /\ \A a \in Admins : admin[a].pc = "write" => admin[a].kind # "manual"

\* An error is cleared only after a reauthorisation.
Clearing == (\E a \in Admins : admin[a].pc = "clear") \/ "clear" \in mishaps

ClearsReauth == Clearing => "reauth" \in mishaps

RefusedArePast == \A p \in Processes : Refused(proc[p]) => Past(proc[p].read)

\* An edit that has read an error has read a token that is past.
EditsArePast ==
    "reauth" \notin mishaps =>
        \A a \in Admins :
            /\ admin[a].pc = "write" /\ admin[a].kind # "reauth"
            /\ admin[a].status = "error"
            => Past(admin[a].doc)

\* On the other platforms, where the store and the error status compare
\* nothing, the caller that is inside has the row's document, and a refused
\* caller shows that the row's token is past.
RowIsRead ==
    platform = "other" =>
        /\ \A p \in Processes : proc[p].pc \in {"call", "store"} => proc[p].read = cred
        /\ \A p \in Processes : Refused(proc[p]) => Past(cred)

ErrorIsPast == status = "error" => Past(cred) \/ Clearing

\* No call without the lock, no administrator's write under the unconditional
\* writes of the other platforms, no edit along with a reauthorisation.
Guarded ==
    /\ "unlocked" \notin mishaps
    /\ platform = "other" => mishaps \cap {"reauth", "edit"} = {}
    /\ ~ ({"reauth", "edit"} \subseteq mishaps)

Health == Guarded => RefusedArePast /\ EditsArePast /\ RowIsRead /\ ErrorIsPast

HealthInv == IInv /\ Exclusive /\ ClearsReauth /\ Health

LEMMA MonotoneMishaps ==
    ASSUME IInv, [Next]_vars
    PROVE  platform' = platform /\ mishaps \subseteq mishaps'
BY StepShape DEF ProcessStep, Alone, AdminStep, Lapse

\* The documents whose tokens matter here are documents.
LEMMA DocFields ==
    ASSUME IInv
    PROVE  /\ current \in [0..MaxReauth -> 0..MaxGen]
           /\ \A d : Known(d, current) \/ Used(d, current) =>
                /\ d \in Doc /\ d.family \in 0..MaxReauth /\ d.gen \in 0..MaxGen
                /\ d.gen <= current[d.family] /\ current[d.family] \in 0..MaxGen
           /\ \A p \in Processes : proc[p].pc = "call" =>
                Known(proc[p].read, current) /\ proc[p].read.gen < MaxGen
           /\ \A p \in Processes : proc[p].pc = "store" \/ Refused(proc[p]) =>
                Used(proc[p].read, current)
           /\ \A a \in Admins : admin[a].pc \in {"call", "write"} =>
                Known(admin[a].doc, current)
           /\ \A a \in Admins : admin[a].pc = "call" => admin[a].doc.gen < MaxGen
           /\ Known(cred, current)
<1>1. current \in [0..MaxReauth -> 0..MaxGen]
  BY DEF IInv, TypeOK
<1>2. ASSUME NEW d, Known(d, current) \/ Used(d, current)
      PROVE  /\ d \in Doc /\ d.family \in 0..MaxReauth /\ d.gen \in 0..MaxGen
             /\ d.gen <= current[d.family] /\ current[d.family] \in 0..MaxGen
  <2>1. d \in Doc
    BY <1>2 DEF Known, Used
  <2>2. d.family \in 0..MaxReauth /\ d.gen \in 0..MaxGen
    BY <2>1 DEF Doc
  <2>3. current[d.family] \in 0..MaxGen
    BY <1>1, <2>2
  <2> QED BY <1>2, <2>1, <2>2, <2>3, BoundsAssumption DEF Known, Used
<1>3. /\ \A p \in Processes : proc[p].pc = "call" =>
           Known(proc[p].read, current) /\ proc[p].read.gen < MaxGen
      /\ \A p \in Processes : proc[p].pc = "store" \/ Refused(proc[p]) =>
           Used(proc[p].read, current)
  BY DEF IInv, CallersKnow, CallerKnows, Refused
<1>4. /\ \A a \in Admins : admin[a].pc \in {"call", "write"} =>
           Known(admin[a].doc, current)
      /\ \A a \in Admins : admin[a].pc = "call" => admin[a].doc.gen < MaxGen
      /\ Known(cred, current)
  BY DEF IInv, AdminsKnow, RequestKnows, RowKnows
<1> QED BY <1>1, <1>2, <1>3, <1>4

\* A token that is known and not accepted has been used.
LEMMA DeadIsUsed ==
    ASSUME IInv, NEW d, Known(d, current), ~ Live(d)
    PROVE  Used(d, current)
BY DocFields, BoundsAssumption DEF Known, Used, Live

\* The provider's rotations only take tokens further back.
LEMMA UsedStays ==
    ASSUME IInv, [Next]_vars, NEW d, Used(d, current)
    PROVE  Used(d, current')
<1>1. ASSUME NEW e, Known(e, current), e.gen < MaxGen, Live(e),
             current' = [current EXCEPT ![e.family] = @ + 1]
      PROVE  Used(d, current')
  <2>1. e.family \in 0..MaxReauth /\ current[e.family] < MaxGen
        /\ current \in [0..MaxReauth -> 0..MaxGen]
    BY <1>1, DocFields DEF Live
  <2>c. PICK cur : cur = [current EXCEPT ![e.family] = @ + 1]
    OBVIOUS
  <2>2. Used(d, cur)
    BY <2>c, <2>1, RotationKeeps
  <2> QED BY <1>1, <2>c, <2>2
<1>2. CASE current' = current
  BY <1>2
<1>3. ASSUME NEW p \in Processes, ProcessStep(p)
      PROVE  Used(d, current')
  <2>1. CASE Rotates(p)
    BY <1>1, <2>1, DocFields DEF Rotates
  <2> QED BY <1>2, <1>3, <2>1 DEF ProcessStep, Quiet, Reads, Stores, MarksRow
<1>4. ASSUME NEW a \in Admins, AdminStep(a)
      PROVE  Used(d, current')
  <2>1. CASE Answers(a)
    BY <1>1, <1>2, <2>1, DocFields DEF Answers
  <2> QED BY <1>2, <1>4, <2>1 DEF AdminStep, Begins, Writes, Ends
<1>5. CASE Lapse
  BY <1>2, <1>5 DEF Lapse
<1> QED BY <1>3, <1>4, <1>5, StepShape

\* A token that is past stays past: who comes to a store has just presented a
\* token the provider accepted.
LEMMA PastStays ==
    ASSUME IInv, [Next]_vars, NEW d, Past(d)
    PROVE  Past(d)'
<1>1. Used(d, current) /\ Used(d, current')
  BY UsedStays DEF Past
<1>2. d.gen \in 0..MaxGen /\ d.gen < current[d.family]
  BY <1>1, DocFields DEF Used
<1> SUFFICES ASSUME NEW q \in Processes, proc'[q].pc = "store",
                    proc'[q].read.family = d.family
             PROVE  d.gen < proc'[q].read.gen
  BY <1>1 DEF Past
<1>3. CASE proc'[q] = proc[q]
  BY <1>3 DEF Past
<1>4. ASSUME NEW p \in Processes, ProcessStep(p)
      PROVE  d.gen < proc'[q].read.gen
  <2>1. q # p => proc'[q] = proc[q]
    BY <1>4 DEF ProcessStep, Alone
  <2>2. CASE q = p
    <3>1. Rotates(p)
      BY <1>4, <2>2 DEF ProcessStep, Quiet, Reads, Stores, MarksRow, Away
    <3>2. proc'[q].read = proc[p].read /\ current[proc[p].read.family] = proc[p].read.gen
      BY <2>2, <3>1 DEF Rotates, Live
    <3> QED BY <1>2, <3>2
  <2> QED BY <1>3, <2>1, <2>2
<1>5. CASE proc' = proc
  BY <1>3, <1>5
<1> QED BY <1>4, <1>5, StepShape DEF AdminStep, Lapse

-----------------------------------------------------------------------------
LEMMA NextExclusive ==
    ASSUME IInv, Exclusive, [Next]_vars
    PROVE  Exclusive'
<1> SUFFICES ASSUME "unlocked" \notin mishaps'
             PROVE  /\ \A q \in Processes : Inside(proc'[q]) =>
                         proc'[q].holds = TRUE /\ lock' = q
                    /\ \A b \in Admins : admin'[b].pc = "write" => admin'[b].kind # "manual"
  BY DEF Exclusive
<1>1. /\ \A q \in Processes : Inside(proc[q]) => proc[q].holds = TRUE /\ lock = q
      /\ \A b \in Admins : admin[b].pc = "write" => admin[b].kind # "manual"
  BY MonotoneMishaps DEF Exclusive
<1>2. ASSUME NEW p \in Processes, ProcessStep(p)
      PROVE  /\ admin' = admin
             /\ \A q \in Processes : Inside(proc'[q]) =>
                  proc'[q].holds = TRUE /\ lock' = q
  <2>1. Alone(p)
    BY <1>2 DEF ProcessStep
  <2>2. (\A q \in Processes : q # p => proc'[q] = proc[q]) /\ admin' = admin
    BY <2>1 DEF Alone
  <2>4. CASE /\ lock' = lock
             /\ Inside(proc'[p]) => Inside(proc[p]) /\ proc'[p].holds = proc[p].holds
    BY <1>1, <2>2, <2>4
  <2>5. CASE lock = None /\ lock' = p /\ proc'[p].holds = TRUE
    BY <1>1, <2>2, <2>5, ProcessesAssumption
  <2>6. CASE lock' = None /\ Inside(proc[p]) /\ ~ Inside(proc'[p])
    BY <1>1, <2>2, <2>6
  <2> QED BY <2>1, <2>4, <2>5, <2>6 DEF Alone, LockStep
<1>3. CASE Lapse
  <2>1. proc' = proc /\ admin' = admin
    BY <1>3 DEF Lapse
  <2>3. CASE lock' = lock
    BY <1>1, <2>1, <2>3
  <2>4. CASE ~ Holding(lock)
    <3>1. \A q \in Processes : ~ Inside(proc[q])
      BY <1>1, <2>4 DEF Holding
    <3> QED BY <1>1, <2>1, <3>1
  <2> QED BY <1>3, <2>3, <2>4 DEF Lapse
<1>4. ASSUME NEW a \in Admins, AdminStep(a)
      PROVE  /\ UNCHANGED <<lock, proc>>
             /\ \A b \in Admins : admin'[b].pc = "write" => admin'[b].kind # "manual"
  <2>1. UNCHANGED <<lock, proc>> /\ \A b \in Admins : b # a => admin'[b] = admin[b]
    BY <1>4 DEF AdminStep
  <2>2. admin'[a].pc = "write" => admin'[a].kind # "manual"
    BY <1>4 DEF AdminStep, Begins, Answers, Writes, Ends
  <2> QED BY <1>1, <2>1, <2>2
<1> QED BY <1>1, <1>2, <1>3, <1>4, StepShape

LEMMA NextClears ==
    ASSUME IInv, ClearsReauth, [Next]_vars
    PROVE  ClearsReauth'
<1> SUFFICES ASSUME Clearing' PROVE "reauth" \in mishaps'
  BY DEF ClearsReauth
<1>1. mishaps \subseteq mishaps' /\ (Clearing => "reauth" \in mishaps)
  BY MonotoneMishaps DEF ClearsReauth
<1>2. ASSUME NEW p \in Processes, ProcessStep(p) PROVE Clearing
  BY <1>2 DEF Clearing, ProcessStep, Alone
<1>3. CASE Lapse
  BY <1>1, <1>3 DEF Clearing, Lapse
<1>4. ASSUME NEW a \in Admins, AdminStep(a) PROVE "reauth" \in mishaps'
  <2>1. \A b \in Admins : b # a => admin'[b] = admin[b]
    BY <1>4 DEF AdminStep
  <2>2. CASE Writes(a)
    <3>1. CASE admin[a].kind = "reauth"
      BY <2>2, <3>1 DEF Writes
    <3>2. CASE admin[a].kind # "reauth"
      <4>1. Clearing
        BY <2>1, <2>2, <3>2 DEF Writes, Clearing
      <4> QED BY <1>1, <4>1
    <3> QED BY <3>1, <3>2
  <2>3. CASE Begins(a)
    <3>1. Clearing
      BY <2>1, <2>3 DEF Begins, Clearing
    <3> QED BY <1>1, <3>1
  <2>4. CASE Ends(a)
    <3>1. Clearing
      BY <2>1, <2>4 DEF Ends, Clearing
    <3> QED BY <1>1, <3>1
  <2>5. CASE Answers(a)
    <3>1. Clearing
      BY <2>1, <2>5 DEF Answers, Clearing
    <3> QED BY <1>1, <3>1
  <2> QED BY <1>4, <2>2, <2>3, <2>4, <2>5 DEF AdminStep
<1> QED BY <1>1, <1>2, <1>3, <1>4, StepShape

\* The row of a platform other than Grok is written only by the caller inside.
LEMMA NextRowIsRead ==
    ASSUME HealthInv, Guarded, Guarded', [Next]_vars
    PROVE  RowIsRead'
<1>0. IInv /\ RowIsRead /\ RefusedArePast /\ platform' = platform
  BY MonotoneMishaps DEF HealthInv, Health
<1> SUFFICES ASSUME platform = "other"
             PROVE  /\ \A q \in Processes : proc'[q].pc \in {"call", "store"}
                          => proc'[q].read = cred'
                    /\ \A q \in Processes : Refused(proc'[q]) => Past(cred)'
  BY <1>0 DEF RowIsRead
<1>1. /\ \A q \in Processes : proc[q].pc \in {"call", "store"} => proc[q].read = cred
      /\ \A q \in Processes : Refused(proc[q]) => Past(cred)
  BY <1>0 DEF RowIsRead
<1>p. PICK d : d = cred
  OBVIOUS
<1>2. Past(cred) => Past(d)'
  BY <1>0, <1>p, PastStays
<1>3. CASE cred' = cred /\ proc' = proc
  BY <1>1, <1>2, <1>3, <1>p
<1>4. ASSUME NEW p \in Processes, ProcessStep(p)
      PROVE  /\ \A q \in Processes : proc'[q].pc \in {"call", "store"}
                  => proc'[q].read = cred'
             /\ \A q \in Processes : Refused(proc'[q]) => Past(cred)'
  <2>1. \A q \in Processes : q # p => proc'[q] = proc[q]
    BY <1>4 DEF ProcessStep, Alone
  <2>2. \A q \in Processes : q # p /\ Inside(proc[p]) => ~ Inside(proc[q])
    BY DEF HealthInv, Exclusive, Guarded
  <2>3. CASE Quiet(p)
    <3>1. cred' = cred /\ proc'[p].pc \notin {"call", "store"}
      BY <2>3 DEF Quiet
    <3>2. ASSUME Refused(proc'[p]) PROVE Past(cred)
      <4>1. CASE Refused(proc[p])
        BY <1>1, <4>1
      <4>2. CASE proc[p].pc = "call" /\ ~ Live(proc[p].read)
        <5>1. proc[p].read = cred /\ Used(cred, current)
          BY <1>0, <1>1, <4>2, DocFields, DeadIsUsed
        <5>2. \A q \in Processes : proc[q].pc # "store"
          BY <2>2, <4>2 DEF Inside
        <5> QED BY <5>1, <5>2 DEF Past
      <4> QED BY <2>3, <3>2, <4>1, <4>2 DEF Quiet, Lost
    <3> QED BY <1>1, <1>2, <1>p, <2>1, <3>1, <3>2
  <2>4. CASE Reads(p)
    <3>1. cred' = cred /\ proc'[p].read = cred /\ ~ Refused(proc'[p])
      BY <2>4 DEF Reads, Refused
    <3> QED BY <1>1, <1>2, <1>p, <2>1, <3>1
  <2>5. CASE Rotates(p)
    <3>1. cred' = cred /\ ~ Refused(proc'[p]) /\ proc[p].pc = "call"
          /\ (proc'[p].pc \in {"call", "store"} => proc'[p].read = proc[p].read)
      BY <2>5 DEF Rotates, Refused
    <3> QED BY <1>1, <1>2, <1>p, <2>1, <3>1
  <2>6. CASE Stores(p)
    <3>1. /\ proc[p].pc = "store" /\ proc'[p].pc = "release"
          /\ proc'[p].outcome # "rejected"
      BY <2>6 DEF Stores
    <3>2. \A q \in Processes : proc'[q].pc \notin {"call", "store"}
      BY <2>1, <2>2, <3>1 DEF Inside
    <3>3. ~ Past(cred)
      <4> SUFFICES ASSUME Past(cred) PROVE FALSE
        OBVIOUS
      <4>1. proc[p].read = cred
        BY <1>1, <3>1
      <4>2. cred.gen < cred.gen /\ cred.gen \in 0..MaxGen
        BY <1>0, <3>1, <4>1, DocFields DEF Past
      <4> QED BY <4>2, BoundsAssumption
    <3>4. \A q \in Processes : ~ Refused(proc'[q])
      BY <1>1, <2>1, <3>1, <3>3 DEF Refused
    <3> QED BY <3>2, <3>4
  <2>7. CASE MarksRow(p)
    <3>1. cred' = cred /\ proc'[p].pc = "idle" /\ ~ Refused(proc'[p])
      BY <2>7 DEF MarksRow, Away, Refused
    <3> QED BY <1>1, <1>2, <1>p, <2>1, <3>1
  <2> QED BY <1>4, <2>3, <2>4, <2>5, <2>6, <2>7 DEF ProcessStep
<1>5. ASSUME NEW a \in Admins, AdminStep(a)
      PROVE  cred' = cred /\ proc' = proc
  <2>1. ~ Writes(a)
    BY <1>0 DEF Writes, Guarded
  <2> QED BY <1>5, <2>1 DEF AdminStep, Begins, Answers, Ends
<1> QED BY <1>0, <1>3, <1>4, <1>5, StepShape DEF Lapse

\* A caller is refused while it is alone inside, so that no store is pending.
LEMMA NextRefused ==
    ASSUME HealthInv, Guarded, [Next]_vars
    PROVE  RefusedArePast'
<1>0. IInv /\ RefusedArePast
  BY DEF HealthInv, Health
<1> SUFFICES ASSUME NEW q \in Processes, Refused(proc'[q]), NEW d,
                    d = proc'[q].read
             PROVE  Past(d)'
  BY DEF RefusedArePast
<1>1. Past(d) => Past(d)'
  BY <1>0, PastStays
<1>2. CASE proc'[q] = proc[q]
  BY <1>0, <1>1, <1>2 DEF RefusedArePast
<1>3. ASSUME NEW p \in Processes, ProcessStep(p)
      PROVE  Past(d)'
  <2>1. q # p => proc'[q] = proc[q]
    BY <1>3 DEF ProcessStep, Alone
  <2>2. CASE q = p
    <3>1. Quiet(p)
      BY <1>3, <2>2 DEF ProcessStep, Reads, Rotates, Stores, MarksRow, Away, Refused
    <3>2. Lost(proc[p]) /\ d = proc[p].read
      BY <2>2, <3>1 DEF Quiet
    <3>3. CASE Refused(proc[p])
      BY <1>0, <1>1, <3>2, <3>3 DEF RefusedArePast
    <3>4. CASE proc[p].pc = "call" /\ ~ Live(proc[p].read)
      <4>1. Used(d, current)
        BY <1>0, <3>2, <3>4, DocFields, DeadIsUsed
      <4>2. \A r \in Processes : proc[r].pc # "store"
        BY <3>4 DEF HealthInv, Exclusive, Guarded, Inside
      <4> QED BY <1>1, <4>1, <4>2 DEF Past
    <3> QED BY <3>2, <3>3, <3>4 DEF Lost
  <2> QED BY <1>2, <2>1, <2>2
<1>4. CASE proc' = proc
  BY <1>2, <1>4
<1> QED BY <1>0, <1>3, <1>4, StepShape DEF AdminStep, Lapse

\* An edit reads the row together with its status.
LEMMA NextEdits ==
    ASSUME HealthInv, Guarded, Guarded', [Next]_vars
    PROVE  EditsArePast'
<1>0. IInv /\ EditsArePast /\ ErrorIsPast /\ ClearsReauth
  BY DEF HealthInv, Health
<1> SUFFICES ASSUME "reauth" \notin mishaps', NEW b \in Admins,
                    admin'[b].pc = "write", admin'[b].kind # "reauth",
                    admin'[b].status = "error", NEW d, d = admin'[b].doc
             PROVE  Past(d)'
  BY DEF EditsArePast
<1>1. "reauth" \notin mishaps /\ ~ Clearing
  BY <1>0, MonotoneMishaps DEF ClearsReauth
<1>2. Past(d) => Past(d)'
  BY <1>0, PastStays
<1>3. CASE admin'[b] = admin[b]
  BY <1>0, <1>1, <1>2, <1>3 DEF EditsArePast
<1>4. ASSUME NEW a \in Admins, AdminStep(a)
      PROVE  Past(d)'
  <2>1. b # a => admin'[b] = admin[b]
    BY <1>4 DEF AdminStep
  <2>2. CASE b = a
    <3>1. Begins(a)
      BY <1>4, <2>2 DEF AdminStep, Answers, Writes, Ends, Guarded
    <3>2. d.family = cred.family /\ d.gen = cred.gen /\ status = "error"
      BY <2>2, <3>1 DEF Begins
    <3>3. Past(cred)
      BY <1>0, <1>1, <3>2 DEF ErrorIsPast
    <3>4. d \in Doc
      <4>1. IInv'
        BY <1>0, NextKeeps
      <4> QED BY <4>1 DEF IInv, AdminsKnow, RequestKnows, Known
    <3>5. Past(d)
      BY <3>2, <3>3, <3>4 DEF Past, Used
    <3> QED BY <1>2, <3>5
  <2> QED BY <1>3, <2>1, <2>2
<1>5. CASE admin' = admin
  BY <1>3, <1>5
<1> QED BY <1>0, <1>4, <1>5, StepShape DEF ProcessStep, Alone, Lapse

\* The error status is written over a token that is past, and no store brings
\* back an accepted one.
LEMMA NextErrors ==
    ASSUME HealthInv, Guarded, Guarded', [Next]_vars
    PROVE  ErrorIsPast'
<1>0. IInv /\ RefusedArePast /\ EditsArePast /\ RowIsRead /\ ErrorIsPast /\ ClearsReauth
      /\ platform \in {"grok", "other"}
  BY DEF HealthInv, Health, IInv, TypeOK
<1>m. mishaps \subseteq mishaps'
  BY <1>0, MonotoneMishaps
<1> SUFFICES ASSUME status' = "error", ~ Clearing' PROVE Past(cred)'
  BY DEF ErrorIsPast
<1>p. PICK d : d = cred
  OBVIOUS
<1>1. Past(cred) => Past(d)'
  BY <1>0, <1>p, PastStays
<1>2. CASE cred' = cred /\ Past(cred)
  BY <1>1, <1>2, <1>p
<1>3. ASSUME NEW p \in Processes, ProcessStep(p)
      PROVE  Past(cred)'
  <2>1. ~ Clearing
    BY <1>3, <1>m DEF Clearing, ProcessStep, Alone
  <2>2. status = "error" => Past(cred)
    BY <1>0, <2>1 DEF ErrorIsPast
  <2>3. CASE Quiet(p) \/ Reads(p) \/ Rotates(p)
    BY <1>2, <2>2, <2>3 DEF Quiet, Reads, Rotates
  <2>4. CASE Stores(p)
    <3>1. /\ proc[p].pc = "store" /\ status' = status
          /\ cred' = IF Applies(p) THEN Rotated(proc[p].read) ELSE cred
      BY <2>4 DEF Stores
    <3>2. Past(cred)
      BY <2>2, <3>1
    <3>3. ~ Applies(p)
      <4> SUFFICES ASSUME proc[p].read = cred PROVE FALSE
        BY <1>0, <3>1 DEF Applies, RowIsRead
      <4>1. cred.gen < cred.gen /\ cred.gen \in 0..MaxGen
        BY <1>0, <3>1, <3>2, DocFields DEF Past
      <4> QED BY <4>1, BoundsAssumption
    <3> QED BY <1>2, <3>1, <3>2, <3>3
  <2>5. CASE MarksRow(p)
    <3>1. cred' = cred /\ status' = IF Marks(p) THEN Reason(proc[p]) ELSE status
      BY <2>5 DEF MarksRow
    <3>2. CASE Marks(p)
      <4>1. Refused(proc[p])
        BY <3>1, <3>2 DEF Reason, Refused
      <4>2. Past(cred)
        BY <1>0, <3>2, <4>1 DEF Marks, RefusedArePast, RowIsRead
      <4> QED BY <1>2, <3>1, <4>2
    <3>3. CASE ~ Marks(p)
      BY <1>2, <2>2, <3>1, <3>3
    <3> QED BY <3>2, <3>3
  <2> QED BY <1>3, <2>3, <2>4, <2>5 DEF ProcessStep
<1>4. CASE Lapse
  <2>1. UNCHANGED <<cred, status, admin>> /\ ~ Clearing
    BY <1>4, <1>m DEF Lapse, Clearing
  <2> QED BY <1>0, <1>2, <2>1 DEF ErrorIsPast
<1>5. ASSUME NEW a \in Admins, AdminStep(a)
      PROVE  Past(cred)'
  <2>1. \A b \in Admins : b # a => admin'[b] = admin[b]
    BY <1>5 DEF AdminStep
  <2>2. CASE Writes(a)
    <3>1. /\ admin[a].pc = "write" /\ cred' = admin[a].doc
          /\ admin[a].status = "error" /\ admin[a].kind # "reauth"
          /\ "edit" \in mishaps'
      BY <2>2 DEF Writes, Clearing
    <3>2. "reauth" \notin mishaps
      BY <1>m, <3>1 DEF Guarded
    <3>d. PICK e : e = admin[a].doc
      OBVIOUS
    <3>3. Past(e)
      BY <1>0, <3>1, <3>2, <3>d DEF EditsArePast
    <3>4. Past(e)'
      BY <1>0, <3>3, PastStays
    <3> QED BY <3>1, <3>4, <3>d
  <2>3. CASE Begins(a) \/ Answers(a) \/ Ends(a)
    <3>1. cred' = cred /\ status' = status /\ ~ Clearing
      BY <1>m, <2>1, <2>3 DEF Begins, Answers, Ends, Clearing
    <3> QED BY <1>0, <1>2, <3>1 DEF ErrorIsPast
  <2> QED BY <1>5, <2>2, <2>3 DEF AdminStep
<1> QED BY <1>0, <1>3, <1>4, <1>5, StepShape

LEMMA NextHealth == HealthInv /\ [Next]_vars => HealthInv'
<1> SUFFICES ASSUME HealthInv, [Next]_vars PROVE HealthInv'
  OBVIOUS
<1>1. IInv' /\ Exclusive' /\ ClearsReauth'
  BY NextKeeps, NextExclusive, NextClears DEF HealthInv
<1>2. Health'
  <2> SUFFICES ASSUME Guarded'
               PROVE  RefusedArePast' /\ EditsArePast' /\ RowIsRead' /\ ErrorIsPast'
    BY DEF Health
  <2>1. Guarded
    BY MonotoneMishaps DEF HealthInv, Guarded
  <2> QED BY <2>1, NextRefused, NextEdits, NextRowIsRead, NextErrors
<1> QED BY <1>1, <1>2 DEF HealthInv

\* An account is in error for a token the provider accepts only after a call
\* without the lock, an administrator's write under the unconditional writes of
\* the platforms other than Grok, an edit along with a reauthorisation, or a
\* clearing of the error that is under way or has failed: under the lock a
\* caller is refused while no store is pending, and a token that is past stays
\* so whoever writes.
THEOREM HealthyErrorsOverlap == Spec => []HealthyErrorNeedsOverlap
<1>1. Init => HealthInv
  <2> SUFFICES ASSUME Init PROVE HealthInv
    OBVIOUS
  <2>1. /\ status = "active" /\ mishaps = {}
        /\ \A a \in Admins : admin[a].pc = "idle"
        /\ \A p \in Processes : proc[p].pc = "idle" /\ proc[p].outcome = "none"
    BY DEF Init, AtRest, Away
  <2>2. Exclusive /\ ClearsReauth
    BY <2>1 DEF Exclusive, Inside, ClearsReauth, Clearing
  <2>3. Health
    BY <2>1 DEF Health, RefusedArePast, Refused, EditsArePast, RowIsRead, ErrorIsPast
  <2> QED BY <2>2, <2>3, InitIInv DEF HealthInv
<1>2. HealthInv => HealthyErrorNeedsOverlap
  <2> SUFFICES ASSUME HealthInv, status = "error", Live(cred), Guarded, ~ Clearing
               PROVE  FALSE
    BY DEF HealthyErrorNeedsOverlap, Guarded, Clearing
  <2>1. Past(cred) /\ IInv
    BY DEF HealthInv, Health, ErrorIsPast
  <2>2. cred.gen < current[cred.family] /\ current[cred.family] = cred.gen
        /\ cred.gen \in 0..MaxGen
    BY <2>1, DocFields DEF Past, Used, Live
  <2> QED BY <2>2, BoundsAssumption
<1> QED BY <1>1, <1>2, NextHealth, PTL DEF Spec

-----------------------------------------------------------------------------
(***************************************************************************)
(* Who holds which token.                                                  *)
(*                                                                         *)
(* A token is seen when somebody could still present it to the provider or *)
(* write it to the row: it is in the row, in front of a call, or in an     *)
(* administrator's request.  The successor of a rotated token is carried   *)
(* by the process, or by the manual refresh, that has yet to store it.  A   *)
(* grant is awaited until its reauthorisation is written.                  *)
(***************************************************************************)
Manual(a) == admin[a].pc = "write" /\ admin[a].kind = "manual"

\* The administrator's request could present its document's token, or write it.
Presents(a) == admin[a].pc = "call" \/ (admin[a].pc = "write" /\ admin[a].kind = "edit")

Obtains(a) == admin[a].pc = "write" /\ admin[a].kind = "reauth"

Seen(f, g) ==
    \/ cred.family = f /\ cred.gen = g
    \/ \E p \in Processes : /\ proc[p].pc = "call"
                            /\ proc[p].read.family = f /\ proc[p].read.gen = g
    \/ \E a \in Admins : /\ Presents(a)
                         /\ admin[a].doc.family = f /\ admin[a].doc.gen = g

Carries(x, f, g) ==
    \/ \E p \in Processes : /\ x = <<"process", p>> /\ proc[p].pc = "store"
                            /\ proc[p].read.family = f /\ proc[p].read.gen + 1 = g
    \/ \E a \in Admins : /\ x = <<"request", a>> /\ Manual(a)
                         /\ admin[a].doc.family = f /\ admin[a].doc.gen = g

Awaited(f) ==
    \/ f \in (grants + 1)..MaxReauth
    \/ \E a \in Admins : Obtains(a) /\ admin[a].doc.family = f

\* A token that is carried is the one the provider accepts, nobody else has
\* it, and the grant has no second carrier.
CarriedOnce ==
    \A a, f, g : Carries(a, f, g) =>
        /\ current[f] = g /\ ~ Seen(f, g)
        /\ \A b, h : Carries(b, f, h) => b = a

\* Nobody has a token of a grant that is awaited.
AwaitedUnused ==
    \A f : Awaited(f) => /\ current[f] = 0
                         /\ \A g : ~ Seen(f, g)
                         /\ \A a, g : ~ Carries(a, f, g)

\* Two reauthorisations are of two grants, and a manual refresh is what calls.
GrantsApart ==
    \A a \in Admins :
        /\ admin[a].pc = "call" => admin[a].kind = "manual"
        /\ Obtains(a) =>
             /\ admin[a].doc.gen = 0 /\ admin[a].doc.family \in 0..grants
             /\ \A b \in Admins :
                  Obtains(b) /\ admin[b].doc.family = admin[a].doc.family => b = a

TokenInv == IInv /\ CarriedOnce /\ AwaitedUnused /\ GrantsApart

(***************************************************************************)
(* A step of the system moves tokens in one of four ways.                  *)
(***************************************************************************)

\* Nobody learns of a token.
Calm ==
    /\ current' = current
    /\ \A f, g : Seen(f, g)' => Seen(f, g)
    /\ \A a, f, g : Carries(a, f, g)' => Carries(a, f, g)

\* The provider rotates a token that is seen; at most a takes the successor.
Rotation(a, f) ==
    /\ Seen(f, current[f])
    /\ current' = [current EXCEPT ![f] = @ + 1]
    /\ \A h, k : Seen(h, k)' => Seen(h, k)
    /\ \A b, h, k : Carries(b, h, k)' =>
          Carries(b, h, k) \/ (b = a /\ h = f /\ k = current[f] + 1)

\* The carrier writes the row.
Handing(a, f, g) ==
    /\ Carries(a, f, g)
    /\ current' = current
    /\ \A h, k : Seen(h, k)' => Seen(h, k) \/ (h = f /\ k = g)
    /\ \A b, h, k : Carries(b, h, k)' => Carries(b, h, k) /\ b # a

\* A reauthorisation writes the row.
Obtaining(f) ==
    /\ Awaited(f) /\ ~ Awaited(f)'
    /\ current' = current
    /\ \A h, k : Seen(h, k)' => Seen(h, k) \/ (h = f /\ k = 0)
    /\ \A b, h, k : Carries(b, h, k)' => Carries(b, h, k)

TokenStep ==
    /\ \A f : Awaited(f)' => Awaited(f)
    /\ \/ Calm
       \/ \E a, f : Rotation(a, f)
       \/ \E a, f, g : Handing(a, f, g)
       \/ \E f : Obtaining(f)

\* A token that is seen, or carried, is one the provider has issued.
LEMMA SeenIsKnown ==
    ASSUME IInv, NEW f, NEW g, Seen(f, g)
    PROVE  f \in 0..MaxReauth /\ g \in 0..MaxGen /\ g <= current[f]
           /\ current[f] \in 0..MaxGen
BY DocFields DEF Seen, Presents

LEMMA CarriedIsKnown ==
    ASSUME IInv, NEW x, NEW f, NEW g, Carries(x, f, g)
    PROVE  f \in 0..MaxReauth
BY DocFields DEF Carries, Manual

\* The four ways preserve who holds which token.
LEMMA TokenStepKeeps ==
    ASSUME IInv, CarriedOnce, AwaitedUnused, TokenStep
    PROVE  CarriedOnce' /\ AwaitedUnused'
<1>a. \A f : Awaited(f)' => Awaited(f)
  BY DEF TokenStep
<1>1. CASE Calm
  <2>1. CarriedOnce'
    BY <1>1 DEF Calm, CarriedOnce
  <2>2. AwaitedUnused'
    BY <1>1, <1>a DEF Calm, AwaitedUnused
  <2> QED BY <2>1, <2>2
<1>2. ASSUME NEW a, NEW f, Rotation(a, f)
      PROVE  CarriedOnce' /\ AwaitedUnused'
  <2>1. f \in 0..MaxReauth /\ current[f] \in 0..MaxGen
        /\ current \in [0..MaxReauth -> 0..MaxGen]
    BY <1>2, SeenIsKnown DEF Rotation, IInv, TypeOK
  <2>2. current'[f] = current[f] + 1
        /\ \A h : h \in 0..MaxReauth /\ h # f => current'[h] = current[h]
    BY <1>2, <2>1 DEF Rotation
  <2>3. \A b, k : ~ Carries(b, f, k)
    BY <1>2 DEF Rotation, CarriedOnce
  <2>4. ~ Seen(f, current[f] + 1)
    <3> SUFFICES ASSUME Seen(f, current[f] + 1) PROVE FALSE
      OBVIOUS
    <3>1. current[f] + 1 <= current[f]
      BY SeenIsKnown
    <3> QED BY <2>1, <3>1, BoundsAssumption
  <2>5. \A b, h, k : Carries(b, h, k) => h \in 0..MaxReauth /\ h # f
    BY <2>3, CarriedIsKnown
  <2>6. CarriedOnce'
    <3> SUFFICES ASSUME NEW b, NEW h, NEW k, Carries(b, h, k)'
                 PROVE  /\ (current[h] = k)' /\ ~ Seen(h, k)'
                        /\ \A c, l : Carries(c, h, l)' => c = b
      BY DEF CarriedOnce
    <3>1. CASE Carries(b, h, k)
      <4>1. current[h] = k /\ ~ Seen(h, k) /\ \A c, l : Carries(c, h, l) => c = b
        BY <3>1 DEF CarriedOnce
      <4>2. h \in 0..MaxReauth /\ h # f
        BY <3>1, <2>5
      <4>3. (current[h] = k)' /\ ~ Seen(h, k)'
        BY <4>1, <4>2, <2>2, <1>2 DEF Rotation
      <4> QED BY <4>1, <4>2, <4>3, <1>2 DEF Rotation
    <3>2. CASE b = a /\ h = f /\ k = current[f] + 1
      <4>1. \A c, l : Carries(c, f, l)' => c = a
        BY <1>2, <2>3 DEF Rotation
      <4>2. (current[h] = k)'
        BY <3>2, <2>2
      <4>3. ~ Seen(h, k)'
        BY <3>2, <2>4, <1>2 DEF Rotation
      <4> QED BY <3>2, <4>1, <4>2, <4>3
    <3> QED BY <3>1, <3>2, <1>2 DEF Rotation
  <2>7. AwaitedUnused'
    <3> SUFFICES ASSUME NEW h, Awaited(h)'
                 PROVE  /\ (current[h] = 0)' /\ \A g : ~ Seen(h, g)'
                        /\ \A b, g : ~ Carries(b, h, g)'
      BY DEF AwaitedUnused
    <3>1. Awaited(h)
      BY <1>a
    <3>2. current[h] = 0 /\ (\A g : ~ Seen(h, g)) /\ (\A b, g : ~ Carries(b, h, g))
      BY <3>1 DEF AwaitedUnused
    <3>3. h # f /\ h \in 0..MaxReauth
      <4>1. grants \in 0..MaxReauth
        BY DEF IInv, TypeOK
      <4>2. h \in 0..MaxReauth
        BY <3>1, <4>1, DocFields, BoundsAssumption DEF Awaited, Obtains
      <4> QED BY <3>2, <4>2, <1>2 DEF Rotation
    <3> QED BY <3>2, <3>3, <2>2, <1>2 DEF Rotation
  <2> QED BY <2>6, <2>7
<1>3. ASSUME NEW a, NEW f, NEW g, Handing(a, f, g)
      PROVE  CarriedOnce' /\ AwaitedUnused'
  <2>1. \A b, h : Carries(b, f, h) => b = a
    BY <1>3 DEF Handing, CarriedOnce
  <2>2. CarriedOnce'
    BY <1>3, <2>1 DEF Handing, CarriedOnce
  <2>3. ~ Awaited(f)
    BY <1>3 DEF Handing, AwaitedUnused
  <2>4. AwaitedUnused'
    BY <1>3, <1>a, <2>3 DEF Handing, AwaitedUnused
  <2> QED BY <2>2, <2>4
<1>4. ASSUME NEW f, Obtaining(f)
      PROVE  CarriedOnce' /\ AwaitedUnused'
  <2>1. \A b, h : ~ Carries(b, f, h)
    BY <1>4 DEF Obtaining, AwaitedUnused
  <2>2. CarriedOnce'
    BY <1>4, <2>1 DEF Obtaining, CarriedOnce
  <2>3. AwaitedUnused'
    BY <1>4, <1>a DEF Obtaining, AwaitedUnused
  <2> QED BY <2>2, <2>3
<1> QED BY <1>1, <1>2, <1>3, <1>4 DEF TokenStep

-----------------------------------------------------------------------------
(***************************************************************************)
(* Every step moves tokens in one of the four ways.                        *)
(***************************************************************************)

\* Carriers are told apart by what they are and by who they are.
LEMMA CarriersApart ==
    /\ \A p, q : <<"process", p>> = <<"process", q>> => p = q
    /\ \A a, b : <<"request", a>> = <<"request", b>> => a = b
    /\ \A p, a : <<"process", p>> # <<"request", a>>
OBVIOUS

\* What a process's step does to the tokens, unless it writes the row.
LEMMA HandsOfProcess ==
    ASSUME NEW p \in Processes, UNCHANGED <<cred, admin>>,
           \A q \in Processes : q # p => proc'[q] = proc[q],
           proc'[p].pc = "call" => proc'[p].read = cred
    PROVE  /\ \A f, g : Seen(f, g)' => Seen(f, g)
           /\ \A x, f, g : Carries(x, f, g)' =>
                \/ Carries(x, f, g)
                \/ /\ x = <<"process", p>> /\ proc'[p].pc = "store"
                   /\ proc'[p].read.family = f /\ proc'[p].read.gen + 1 = g
<1>m. \A a \in Admins : Manual(a)' = Manual(a) /\ Presents(a)' = Presents(a)
  BY DEF Manual, Presents
<1>1. ASSUME NEW f, NEW g, Seen(f, g)' PROVE Seen(f, g)
  <2>1. ASSUME NEW q \in Processes, proc'[q].pc = "call",
               proc'[q].read.family = f, proc'[q].read.gen = g
        PROVE  Seen(f, g)
    <3>1. CASE q = p
      BY <2>1, <3>1 DEF Seen
    <3>2. CASE q # p
      BY <2>1, <3>2 DEF Seen
    <3> QED BY <3>1, <3>2
  <2>2. ASSUME NEW a \in Admins, Presents(a)', admin'[a].doc.family = f,
               admin'[a].doc.gen = g
        PROVE  Seen(f, g)
    BY <1>m, <2>2 DEF Seen
  <2> QED BY <1>1, <2>1, <2>2 DEF Seen
<1>2. ASSUME NEW x, NEW f, NEW g, Carries(x, f, g)'
      PROVE  \/ Carries(x, f, g)
             \/ /\ x = <<"process", p>> /\ proc'[p].pc = "store"
                /\ proc'[p].read.family = f /\ proc'[p].read.gen + 1 = g
  <2>1. ASSUME NEW q \in Processes, x = <<"process", q>>, proc'[q].pc = "store",
               proc'[q].read.family = f, proc'[q].read.gen + 1 = g
        PROVE  \/ Carries(x, f, g)
               \/ /\ x = <<"process", p>> /\ proc'[p].pc = "store"
                  /\ proc'[p].read.family = f /\ proc'[p].read.gen + 1 = g
    <3>1. CASE q = p
      BY <2>1, <3>1
    <3>2. CASE q # p
      BY <2>1, <3>2 DEF Carries
    <3> QED BY <3>1, <3>2
  <2>2. ASSUME NEW a \in Admins, x = <<"request", a>>, Manual(a)',
               admin'[a].doc.family = f, admin'[a].doc.gen = g
        PROVE  Carries(x, f, g)
    BY <1>m, <2>2 DEF Carries
  <2> QED BY <1>2, <2>1, <2>2 DEF Carries
<1> QED BY <1>1, <1>2

\* The token a store writes is the one its process carries.
LEMMA StoredIsCarried ==
    ASSUME IInv, NEW p \in Processes, proc[p].pc = "store"
    PROVE  /\ Rotated(proc[p].read).family = proc[p].read.family
           /\ Rotated(proc[p].read).gen = proc[p].read.gen + 1
           /\ Rotated(proc[p].read).edit = proc[p].read.edit
           /\ Carries(<<"process", p>>, proc[p].read.family, proc[p].read.gen + 1)
<1>1. proc[p].read \in Doc
  BY DocFields
<1> QED BY <1>1 DEF Rotated, Doc, Carries

LEMMA ProcessTokens ==
    ASSUME IInv, NEW p \in Processes, ProcessStep(p)
    PROVE  TokenStep
<1>1. /\ \A q \in Processes : q # p => proc'[q] = proc[q]
      /\ UNCHANGED <<platform, admin, grants>>
  BY DEF ProcessStep, Alone
<1>2. \A f : Awaited(f)' => Awaited(f)
  BY <1>1 DEF Awaited, Obtains
<1>3. CASE Quiet(p) \/ Reads(p) \/ MarksRow(p)
  <2>1. UNCHANGED <<cred, current>> /\ proc'[p].pc # "store"
        /\ (proc'[p].pc = "call" => proc'[p].read = cred)
    BY <1>3 DEF Quiet, Reads, MarksRow, Away
  <2>2. Calm
    BY <1>1, <2>1, HandsOfProcess DEF Calm
  <2> QED BY <1>2, <2>2 DEF TokenStep
<1>4. CASE Rotates(p)
  <2> DEFINE f == proc[p].read.family
  <2>1. /\ UNCHANGED cred /\ proc'[p].pc # "call"
        /\ (proc'[p].pc = "store" => proc'[p].read = proc[p].read)
        /\ current[f] = proc[p].read.gen /\ proc[p].pc = "call"
        /\ current' = [current EXCEPT ![f] = @ + 1]
    BY <1>4 DEF Rotates, Live
  <2>2. Seen(f, current[f])
    BY <2>1 DEF Seen
  <2>3. Rotation(<<"process", p>>, f)
    BY <1>1, <2>1, <2>2, HandsOfProcess DEF Rotation
  <2> QED BY <1>2, <2>3 DEF TokenStep
<1>5. CASE Stores(p)
  <2> DEFINE f == proc[p].read.family
             g == proc[p].read.gen + 1
  <2>1. proc[p].pc = "store" /\ proc'[p].pc = "release" /\ current' = current
        /\ cred' = IF Applies(p) THEN Rotated(proc[p].read) ELSE cred
    BY <1>5 DEF Stores
  <2>2. Carries(<<"process", p>>, f, g) /\ Rotated(proc[p].read).family = f
        /\ Rotated(proc[p].read).gen = g
    BY <2>1, StoredIsCarried
  <2>3. cred' = cred \/ (cred'.family = f /\ cred'.gen = g)
    BY <2>1, <2>2
  <2>m. \A a \in Admins : Manual(a)' = Manual(a) /\ Presents(a)' = Presents(a)
    BY <1>1 DEF Manual, Presents
  <2>4. ASSUME NEW h, NEW k, Seen(h, k)'
        PROVE  Seen(h, k) \/ (h = f /\ k = g)
    <3>1. CASE cred'.family = h /\ cred'.gen = k
      BY <2>3, <3>1 DEF Seen
    <3>2. ASSUME NEW q \in Processes, proc'[q].pc = "call",
                 proc'[q].read.family = h, proc'[q].read.gen = k
          PROVE  Seen(h, k)
      BY <1>1, <2>1, <3>2 DEF Seen
    <3>3. ASSUME NEW a \in Admins, Presents(a)', admin'[a].doc.family = h,
                 admin'[a].doc.gen = k
          PROVE  Seen(h, k)
      BY <1>1, <2>m, <3>3 DEF Seen
    <3> QED BY <2>4, <3>1, <3>2, <3>3 DEF Seen
  <2>5. ASSUME NEW x, NEW h, NEW k, Carries(x, h, k)'
        PROVE  Carries(x, h, k) /\ x # <<"process", p>>
    <3>1. ASSUME NEW q \in Processes, x = <<"process", q>>, proc'[q].pc = "store",
                 proc'[q].read.family = h, proc'[q].read.gen + 1 = k
          PROVE  Carries(x, h, k) /\ x # <<"process", p>>
      <4>1. q # p
        BY <2>1, <3>1
      <4> QED BY <1>1, <3>1, <4>1, CarriersApart DEF Carries
    <3>2. ASSUME NEW a \in Admins, x = <<"request", a>>, Manual(a)',
                 admin'[a].doc.family = h, admin'[a].doc.gen = k
          PROVE  Carries(x, h, k) /\ x # <<"process", p>>
      BY <1>1, <2>m, <3>2, CarriersApart DEF Carries
    <3> QED BY <2>5, <3>1, <3>2 DEF Carries
  <2>6. Handing(<<"process", p>>, f, g)
    BY <2>1, <2>2, <2>4, <2>5 DEF Handing
  <2> QED BY <1>2, <2>6 DEF TokenStep
<1> QED BY <1>3, <1>4, <1>5 DEF ProcessStep

\* What an administrator's step does to the tokens: its own request's matter.
LEMMA HandsOfAdmin ==
    ASSUME NEW a \in Admins, proc' = proc,
           \A b \in Admins : b # a => admin'[b] = admin[b]
    PROVE  /\ \A f, g : Seen(f, g)' =>
                \/ Seen(f, g)
                \/ f = cred'.family /\ g = cred'.gen
                \/ Presents(a)' /\ f = admin'[a].doc.family /\ g = admin'[a].doc.gen
           /\ \A x, f, g : Carries(x, f, g)' =>
                \/ Carries(x, f, g) /\ x # <<"request", a>>
                \/ /\ x = <<"request", a>> /\ Manual(a)'
                   /\ f = admin'[a].doc.family /\ g = admin'[a].doc.gen
<1>1. ASSUME NEW f, NEW g, Seen(f, g)'
      PROVE  \/ Seen(f, g)
             \/ f = cred'.family /\ g = cred'.gen
             \/ Presents(a)' /\ f = admin'[a].doc.family /\ g = admin'[a].doc.gen
  <2>1. ASSUME NEW b \in Admins, b # a, Presents(b)', admin'[b].doc.family = f,
               admin'[b].doc.gen = g
        PROVE  Seen(f, g)
    <3>1. Presents(b)
      BY <2>1 DEF Presents
    <3> QED BY <2>1, <3>1 DEF Seen
  <2> QED BY <1>1, <2>1 DEF Seen
<1>2. ASSUME NEW x, NEW f, NEW g, Carries(x, f, g)'
      PROVE  \/ Carries(x, f, g) /\ x # <<"request", a>>
             \/ /\ x = <<"request", a>> /\ Manual(a)'
                /\ f = admin'[a].doc.family /\ g = admin'[a].doc.gen
  <2>1. ASSUME NEW q \in Processes, x = <<"process", q>>, proc[q].pc = "store",
               proc[q].read.family = f, proc[q].read.gen + 1 = g
        PROVE  Carries(x, f, g) /\ x # <<"request", a>>
    BY <2>1, CarriersApart DEF Carries
  <2>2. ASSUME NEW b \in Admins, b # a, x = <<"request", b>>, Manual(b)',
               admin'[b].doc.family = f, admin'[b].doc.gen = g
        PROVE  Carries(x, f, g) /\ x # <<"request", a>>
    <3>1. Manual(b)
      BY <2>2 DEF Manual
    <3> QED BY <2>2, <3>1, CarriersApart DEF Carries
  <2> QED BY <1>2, <2>1, <2>2 DEF Carries
<1> QED BY <1>1, <1>2

LEMMA AwaitedByAdmin ==
    ASSUME NEW a \in Admins, \A b \in Admins : b # a => admin'[b] = admin[b],
           grants' = grants, ~ Obtains(a)'
    PROVE  /\ \A f : Awaited(f)' => Awaited(f)
           /\ \A f : Awaited(f)' => \/ f \in (grants + 1)..MaxReauth
                                     \/ \E b \in Admins : /\ b # a /\ Obtains(b)
                                                          /\ admin[b].doc.family = f
BY DEF Awaited, Obtains

LEMMA AdminTokens ==
    ASSUME TokenInv, NEW a \in Admins, AdminStep(a)
    PROVE  TokenStep
<1> USE DEF TokenInv
<1>0. /\ proc' = proc /\ \A b \in Admins : b # a => admin'[b] = admin[b]
      /\ grants \in 0..MaxReauth
  BY DEF AdminStep, IInv, TypeOK
<1>1. CASE Begins(a)
  <2>1. UNCHANGED <<cred, current>>
    BY <1>1 DEF Begins
  <2>2. ~ Manual(a)' /\ (Presents(a)' => /\ admin'[a].doc.family = cred.family
                                         /\ admin'[a].doc.gen = cred.gen)
    BY <1>1 DEF Begins, Manual, Presents
  <2>3. Seen(cred.family, cred.gen)
    BY DEF Seen
  <2>4. Calm
    BY <1>0, <2>1, <2>2, <2>3, HandsOfAdmin DEF Calm
  <2>5. ASSUME NEW f, Awaited(f)' PROVE Awaited(f)
    <3>1. CASE grants' = grants /\ ~ Obtains(a)'
      BY <1>0, <2>5, <3>1, AwaitedByAdmin
    <3>2. CASE grants' = grants + 1 /\ grants < MaxReauth
               /\ admin'[a].doc.family = grants + 1
      <4>1. CASE f \in (grants' + 1)..MaxReauth
        <5>1. f \in (grants + 1)..MaxReauth
          BY <1>0, <3>2, <4>1, BoundsAssumption
        <5> QED BY <5>1 DEF Awaited
      <4>2. ASSUME NEW b \in Admins, Obtains(b)', admin'[b].doc.family = f
            PROVE  Awaited(f)
        <5>1. CASE b = a
          <6>1. f \in (grants + 1)..MaxReauth
            BY <1>0, <3>2, <4>2, <5>1, BoundsAssumption
          <6> QED BY <6>1 DEF Awaited
        <5>2. CASE b # a
          BY <1>0, <4>2, <5>2 DEF Awaited, Obtains
        <5> QED BY <5>1, <5>2
      <4> QED BY <2>5, <4>1, <4>2 DEF Awaited
    <3> QED BY <1>1, <3>1, <3>2 DEF Begins, Obtains
  <2> QED BY <2>4, <2>5 DEF TokenStep
<1>2. CASE Answers(a)
  <2>1. cred' = cred /\ grants' = grants /\ admin[a].pc = "call"
        /\ admin[a].kind = "manual"
    BY <1>2 DEF Answers, GrantsApart
  <2>2. ~ Obtains(a)' /\ ~ Presents(a)'
    BY <1>2, <2>1 DEF Answers, Obtains, Presents
  <2>3. \A f : Awaited(f)' => Awaited(f)
    BY <1>0, <2>1, <2>2, AwaitedByAdmin
  <2>4. Seen(cred.family, cred.gen)
    BY DEF Seen
  <2>5. CASE current' = current /\ admin'[a].pc = "idle"
    <3>1. ~ Manual(a)'
      BY <2>5 DEF Manual
    <3>2. Calm
      BY <1>0, <2>1, <2>2, <2>4, <2>5, <3>1, HandsOfAdmin DEF Calm
    <3> QED BY <2>3, <3>2 DEF TokenStep
  <2>6. CASE /\ Live(admin[a].doc)
             /\ current' = [current EXCEPT ![admin[a].doc.family] = @ + 1]
             /\ admin'[a].doc = Rotated(admin[a].doc)
    <3> DEFINE f == admin[a].doc.family
    <3>1. admin[a].doc \in Doc /\ current[f] = admin[a].doc.gen
      BY <2>1, <2>6, DocFields DEF Live
    <3>2. admin'[a].doc.family = f /\ admin'[a].doc.gen = current[f] + 1
      BY <2>6, <3>1 DEF Rotated, Doc
    <3>3. Seen(f, current[f])
      BY <2>1, <3>1 DEF Seen, Presents
    <3>4. Rotation(<<"request", a>>, f)
      BY <1>0, <2>1, <2>2, <2>4, <2>6, <3>2, <3>3, HandsOfAdmin DEF Rotation
    <3> QED BY <2>3, <3>4 DEF TokenStep
  <2> QED BY <1>2, <2>5, <2>6 DEF Answers
<1>3. CASE Writes(a)
  <2>1. /\ UNCHANGED <<current, grants>> /\ admin[a].pc = "write"
        /\ cred' = admin[a].doc /\ admin'[a].pc \in {"idle", "clear"}
    BY <1>3 DEF Writes
  <2>2. ~ Obtains(a)' /\ ~ Presents(a)' /\ ~ Manual(a)'
    BY <2>1 DEF Obtains, Presents, Manual
  <2>3. \A f : Awaited(f)' => Awaited(f)
    BY <1>0, <2>1, <2>2, AwaitedByAdmin
  <2>4. /\ \A h, k : Seen(h, k)' =>
             Seen(h, k) \/ (h = admin[a].doc.family /\ k = admin[a].doc.gen)
        /\ \A x, h, k : Carries(x, h, k)' => Carries(x, h, k) /\ x # <<"request", a>>
    BY <1>0, <2>1, <2>2, HandsOfAdmin
  <2>5. CASE admin[a].kind = "reauth"
    <3>f. PICK f : f = admin[a].doc.family
      OBVIOUS
    <3>1. Obtains(a)
      BY <2>1, <2>5 DEF Obtains
    <3>2. admin[a].doc.gen = 0 /\ f \in 0..grants
          /\ \A b \in Admins : Obtains(b) /\ admin[b].doc.family = f => b = a
      BY <3>f, <3>1 DEF GrantsApart
    <3>3. Awaited(f)
      BY <3>f, <3>1 DEF Awaited
    <3>4. ~ Awaited(f)'
      <4>1. f \notin (grants + 1)..MaxReauth
        BY <1>0, <3>2, BoundsAssumption
      <4>2. Awaited(f)' => \/ f \in (grants + 1)..MaxReauth
                            \/ \E b \in Admins : /\ b # a /\ Obtains(b)
                                                /\ admin[b].doc.family = f
        BY <1>0, <2>1, <2>2, AwaitedByAdmin
      <4> QED BY <3>2, <4>1, <4>2
    <3>5. Obtaining(f)
      BY <2>1, <2>4, <3>f, <3>2, <3>3, <3>4 DEF Obtaining
    <3> QED BY <2>3, <3>5 DEF TokenStep
  <2>6. CASE admin[a].kind = "edit"
    <3>1. Seen(admin[a].doc.family, admin[a].doc.gen)
      BY <2>1, <2>6 DEF Seen, Presents
    <3>2. Calm
      BY <2>1, <2>4, <3>1 DEF Calm
    <3> QED BY <2>3, <3>2 DEF TokenStep
  <2>7. CASE admin[a].kind = "manual"
    <3>1. Carries(<<"request", a>>, admin[a].doc.family, admin[a].doc.gen)
      BY <2>1, <2>7 DEF Carries, Manual
    <3>2. Handing(<<"request", a>>, admin[a].doc.family, admin[a].doc.gen)
      BY <2>1, <2>4, <3>1 DEF Handing
    <3> QED BY <2>3, <3>2 DEF TokenStep
  <2>8. admin[a].kind \in {"reauth", "edit", "manual"}
    BY DEF IInv, TypeOK, Request
  <2> QED BY <2>5, <2>6, <2>7, <2>8
<1>4. CASE Ends(a)
  <2>1. UNCHANGED <<cred, current, grants>> /\ admin'[a].pc = "idle"
    BY <1>4 DEF Ends
  <2>2. ~ Obtains(a)' /\ ~ Presents(a)' /\ ~ Manual(a)'
    BY <2>1 DEF Obtains, Presents, Manual
  <2>3. \A f : Awaited(f)' => Awaited(f)
    BY <1>0, <2>1, <2>2, AwaitedByAdmin
  <2>4. Seen(cred.family, cred.gen)
    BY DEF Seen
  <2>5. Calm
    BY <1>0, <2>1, <2>2, <2>4, HandsOfAdmin DEF Calm
  <2> QED BY <2>3, <2>5 DEF TokenStep
<1> QED BY <1>1, <1>2, <1>3, <1>4 DEF AdminStep

LEMMA NextTokens ==
    ASSUME TokenInv, [Next]_vars
    PROVE  TokenStep
<1>1. CASE Lapse
  <2>1. UNCHANGED <<cred, current, proc, admin, grants>>
    BY <1>1 DEF Lapse
  <2>2. \A a \in Admins : /\ Manual(a)' = Manual(a) /\ Presents(a)' = Presents(a)
                          /\ Obtains(a)' = Obtains(a)
    BY <2>1 DEF Manual, Presents, Obtains
  <2>3. Calm /\ \A h : Awaited(h)' => Awaited(h)
    BY <2>1, <2>2 DEF Calm, Seen, Carries, Awaited
  <2> QED BY <2>3 DEF TokenStep
<1> QED BY <1>1, StepShape, ProcessTokens, AdminTokens DEF TokenInv

LEMMA InitTokens == Init => TokenInv
<1> SUFFICES ASSUME Init PROVE TokenInv
  OBVIOUS
<1>1. /\ \A a \in Admins : admin[a].pc = "idle"
      /\ \A p \in Processes : proc[p].pc = "idle"
  BY DEF Init, AtRest, Away
<1>2. \A x, f, g : ~ Carries(x, f, g)
  BY <1>1 DEF Carries, Manual
<1>3. \A f, g : Seen(f, g) => f = 0
  BY <1>1 DEF Seen, Presents, Init
<1>4. \A f : Awaited(f) => f \in 1..MaxReauth
  BY <1>1 DEF Awaited, Obtains, Init
<1>5. AwaitedUnused
  BY <1>2, <1>3, <1>4, BoundsAssumption DEF AwaitedUnused, Init
<1>6. GrantsApart
  BY <1>1 DEF GrantsApart, Obtains
<1> QED BY <1>2, <1>5, <1>6, InitIInv DEF TokenInv, CarriedOnce

LEMMA NextGrantsApart ==
    ASSUME TokenInv, [Next]_vars
    PROVE  GrantsApart'
<1>0. GrantsApart /\ IInv /\ grants \in 0..MaxReauth
  BY DEF TokenInv, IInv, TypeOK
<1>1. CASE UNCHANGED <<admin, grants>>
  BY <1>0, <1>1 DEF GrantsApart, Obtains
<1>2. ASSUME NEW a \in Admins, AdminStep(a)
      PROVE  GrantsApart'
  <2>1. \A b \in Admins : b # a => admin'[b] = admin[b]
    BY <1>2 DEF AdminStep
  <2>2. admin'[a].pc = "call" => admin'[a].kind = "manual"
    BY <1>2 DEF AdminStep, Begins, Answers, Writes, Ends
  <2>3. CASE ~ Obtains(a)' /\ grants' = grants
    BY <1>0, <2>1, <2>2, <2>3 DEF GrantsApart, Obtains
  <2>4. CASE /\ grants' = grants + 1 /\ admin'[a].doc.family = grants + 1
             /\ admin'[a].doc.gen = 0
    <3>1. \A b \in Admins : b # a /\ Obtains(b)' =>
             /\ admin'[b].doc.family \in 0..grants /\ admin'[b].doc.gen = 0
             /\ \A c \in Admins : c # a /\ Obtains(c)'
                   /\ admin'[c].doc.family = admin'[b].doc.family => c = b
      BY <1>0, <2>1 DEF GrantsApart, Obtains
    <3>2. \A n \in 0..grants : n \in 0..grants' /\ n # grants + 1
      BY <1>0, <2>4, BoundsAssumption
    <3>3. grants + 1 \in 0..grants'
      BY <1>0, <2>4, BoundsAssumption
    <3>4. \A b \in Admins : admin'[b].pc = "call" => admin'[b].kind = "manual"
      BY <1>0, <2>1, <2>2 DEF GrantsApart
    <3>5. ASSUME NEW b \in Admins, Obtains(b)'
          PROVE  /\ admin'[b].doc.gen = 0 /\ admin'[b].doc.family \in 0..grants'
                 /\ \A c \in Admins : Obtains(c)'
                       /\ admin'[c].doc.family = admin'[b].doc.family => c = b
      <4>1. CASE b = a
        BY <2>4, <3>1, <3>2, <3>3, <4>1
      <4>2. CASE b # a
        BY <2>4, <3>1, <3>2, <3>5, <4>2
      <4> QED BY <4>1, <4>2
    <3> QED BY <3>4, <3>5 DEF GrantsApart
  <2>5. CASE Begins(a)
    BY <2>3, <2>4, <2>5 DEF Begins, Obtains
  <2>6. CASE Answers(a)
    BY <1>0, <2>3, <2>6 DEF Answers, Obtains, GrantsApart
  <2>7. CASE Writes(a) \/ Ends(a)
    BY <2>3, <2>7 DEF Writes, Ends, Obtains
  <2> QED BY <1>2, <2>5, <2>6, <2>7 DEF AdminStep
<1> QED BY <1>0, <1>1, <1>2, StepShape DEF ProcessStep, Alone, Lapse

LEMMA NextTokenInv == TokenInv /\ [Next]_vars => TokenInv'
<1> SUFFICES ASSUME TokenInv, [Next]_vars PROVE TokenInv'
  OBVIOUS
<1>1. IInv' /\ TokenStep
  BY NextKeeps, NextTokens DEF TokenInv
<1>2. CarriedOnce' /\ AwaitedUnused'
  BY <1>1, TokenStepKeeps DEF TokenInv
<1>3. GrantsApart'
  BY NextGrantsApart
<1> QED BY <1>1, <1>2, <1>3 DEF TokenInv


-----------------------------------------------------------------------------
(***************************************************************************)
(* The successor of the row's token is not lost.                           *)
(***************************************************************************)

\* Until an edit or a manual refresh writes the row of a Grok account, the row
\* moves forward under every caller, so that the store of a carrier of the
\* row's grant applies.
RowForward ==
    platform = "grok" /\ "edit" \notin mishaps =>
        /\ cred.edit = 0
        /\ \A a \in Admins : Obtains(a) => admin[a].doc.edit = 0
        /\ \A p \in Processes : proc[p].pc \in {"call", "store"} =>
             /\ proc[p].read.edit = 0
             /\ proc[p].read.family = cred.family => proc[p].read.gen <= cred.gen

Kept ==
    \/ Live(cred)
    \/ \E p \in Processes : /\ proc[p].pc = "store"
                            /\ proc[p].read.family = cred.family
    \/ \E a \in Admins : Manual(a)
    \/ mishaps \cap {"cut", "edit"} # {}

\* The documents in front of a call and of a store, and the row's.
LEMMA ReadTypes ==
    ASSUME IInv
    PROVE  /\ cred \in Doc /\ cred.gen <= current[cred.family]
           /\ cred.family \in 0..MaxReauth /\ cred.gen \in 0..MaxGen
           /\ current \in [0..MaxReauth -> 0..MaxGen]
           /\ \A p \in Processes : proc[p].pc \in {"call", "store"} =>
                /\ proc[p].read \in Doc
                /\ proc[p].read.gen \in 0..MaxGen
                /\ proc[p].read.family \in 0..MaxReauth
BY DocFields

\* A grant that is awaited is in no hands.
LEMMA AwaitedInNoHands ==
    ASSUME TokenInv, NEW f, Awaited(f), NEW p \in Processes,
           proc[p].pc \in {"call", "store"}
    PROVE  proc[p].read.family # f
<1> SUFFICES ASSUME proc[p].read.family = f PROVE FALSE
  OBVIOUS
<1>1. /\ \A g : ~ Seen(f, g)
      /\ \A x, g : ~ Carries(x, f, g)
  BY DEF TokenInv, AwaitedUnused
<1>2. CASE proc[p].pc = "call"
  <2>1. Seen(f, proc[p].read.gen)
    BY <1>2 DEF Seen
  <2> QED BY <1>1, <2>1
<1>3. CASE proc[p].pc = "store"
  <2>1. Carries(<<"process", p>>, f, proc[p].read.gen + 1)
    BY <1>3, StoredIsCarried DEF TokenInv
  <2> QED BY <1>1, <2>1
<1> QED BY <1>2, <1>3

\* A store that applies writes the token the provider accepts.
LEMMA StoredIsLive ==
    ASSUME TokenInv, NEW p \in Processes, proc[p].pc = "store"
    PROVE  /\ current[proc[p].read.family] = proc[p].read.gen + 1
           /\ ~ Seen(proc[p].read.family, proc[p].read.gen + 1)
<1>1. Carries(<<"process", p>>, proc[p].read.family, proc[p].read.gen + 1)
  BY StoredIsCarried DEF TokenInv
<1> QED BY <1>1 DEF TokenInv, CarriedOnce

LEMMA ProcessForward ==
    ASSUME TokenInv, RowForward, NEW p \in Processes, ProcessStep(p)
    PROVE  RowForward'
<1>1. /\ \A q \in Processes : q # p => proc'[q] = proc[q]
      /\ UNCHANGED <<platform, admin, grants>> /\ mishaps \subseteq mishaps'
  BY DEF ProcessStep, Alone
<1>m. \A a \in Admins : Obtains(a)' = Obtains(a)
  BY <1>1 DEF Obtains
<1> SUFFICES ASSUME platform = "grok", "edit" \notin mishaps'
             PROVE  /\ cred'.edit = 0
                    /\ \A q \in Processes : proc'[q].pc \in {"call", "store"} =>
                         /\ proc'[q].read.edit = 0
                         /\ proc'[q].read.family = cred'.family
                              => proc'[q].read.gen <= cred'.gen
  BY <1>1, <1>m DEF RowForward
<1>2. /\ cred.edit = 0
      /\ \A q \in Processes : proc[q].pc \in {"call", "store"} =>
           /\ proc[q].read.edit = 0
           /\ proc[q].read.family = cred.family => proc[q].read.gen <= cred.gen
  BY <1>1 DEF RowForward
<1>3. cred.gen \in 0..MaxGen
      /\ \A q \in Processes : proc[q].pc \in {"call", "store"} =>
           proc[q].read.gen \in 0..MaxGen
  BY ReadTypes DEF TokenInv
<1>4. CASE Quiet(p) \/ MarksRow(p)
  <2>1. cred' = cred /\ proc'[p].pc \notin {"call", "store"}
    BY <1>4 DEF Quiet, MarksRow, Away
  <2> QED BY <1>1, <1>2, <2>1
<1>5. CASE Reads(p)
  <2>1. cred' = cred /\ proc'[p].read = cred
    BY <1>5 DEF Reads
  <2> QED BY <1>1, <1>2, <1>3, <2>1, BoundsAssumption
<1>6. CASE Rotates(p)
  <2>1. cred' = cred /\ proc[p].pc = "call"
        /\ (proc'[p].pc \in {"call", "store"} => proc'[p].read = proc[p].read)
    BY <1>6 DEF Rotates
  <2> QED BY <1>1, <1>2, <2>1
<1>7. CASE Stores(p)
  <2>1. proc[p].pc = "store" /\ proc'[p].pc = "release"
        /\ cred' = IF Applies(p) THEN Rotated(proc[p].read) ELSE cred
    BY <1>7 DEF Stores
  <2>2. CASE Applies(p)
    <3>1. cred = proc[p].read /\ cred' = Rotated(proc[p].read)
      BY <2>1, <2>2 DEF Applies
    <3>2. cred'.family = cred.family /\ cred'.gen = cred.gen + 1
          /\ cred'.edit = cred.edit
      BY <2>1, <3>1, StoredIsCarried DEF TokenInv
    <3> QED BY <1>1, <1>2, <1>3, <2>1, <3>2, BoundsAssumption
  <2>3. CASE ~ Applies(p)
    BY <1>1, <1>2, <2>1, <2>3
  <2> QED BY <2>2, <2>3
<1> QED BY <1>4, <1>5, <1>6, <1>7 DEF ProcessStep

LEMMA AdminForward ==
    ASSUME TokenInv, RowForward, NEW a \in Admins, AdminStep(a)
    PROVE  RowForward'
<1>1. /\ \A b \in Admins : b # a => admin'[b] = admin[b]
      /\ UNCHANGED <<platform, proc>> /\ mishaps \subseteq mishaps'
  BY DEF AdminStep
<1> SUFFICES ASSUME platform = "grok", "edit" \notin mishaps'
             PROVE  /\ cred'.edit = 0
                    /\ \A b \in Admins : Obtains(b)' => admin'[b].doc.edit = 0
                    /\ \A p \in Processes : proc[p].pc \in {"call", "store"} =>
                         /\ proc[p].read.edit = 0
                         /\ proc[p].read.family = cred'.family
                              => proc[p].read.gen <= cred'.gen
  BY <1>1 DEF RowForward
<1>2. /\ cred.edit = 0
      /\ \A b \in Admins : Obtains(b) => admin[b].doc.edit = 0
      /\ \A p \in Processes : proc[p].pc \in {"call", "store"} =>
           /\ proc[p].read.edit = 0
           /\ proc[p].read.family = cred.family => proc[p].read.gen <= cred.gen
  BY <1>1 DEF RowForward
<1>3. \A b \in Admins : b # a => Obtains(b)' = Obtains(b)
  BY <1>1 DEF Obtains
<1>4. CASE Begins(a)
  <2>1. cred' = cred /\ (Obtains(a)' => admin'[a].doc.edit = cred.edit)
    BY <1>4 DEF Begins, Obtains
  <2> QED BY <1>1, <1>2, <1>3, <2>1
<1>5. CASE Answers(a)
  <2>1. cred' = cred /\ ~ Obtains(a)'
    BY <1>5 DEF Answers, Obtains, TokenInv, GrantsApart
  <2> QED BY <1>1, <1>2, <1>3, <2>1
<1>6. CASE Writes(a)
  <2>1. cred' = admin[a].doc /\ Obtains(a) /\ ~ Obtains(a)'
    BY <1>6 DEF Writes, Obtains
  <2>2. Awaited(admin[a].doc.family)
    BY <2>1 DEF Awaited
  <2>3. \A p \in Processes : proc[p].pc \in {"call", "store"} =>
          proc[p].read.family # cred'.family
    BY <2>1, <2>2, AwaitedInNoHands
  <2> QED BY <1>1, <1>2, <1>3, <2>1, <2>3
<1>7. CASE Ends(a)
  <2>1. cred' = cred /\ ~ Obtains(a)'
    BY <1>7 DEF Ends, Obtains
  <2> QED BY <1>1, <1>2, <1>3, <2>1
<1> QED BY <1>4, <1>5, <1>6, <1>7 DEF AdminStep

LEMMA ProcessKept ==
    ASSUME TokenInv, RowForward, Kept, NEW p \in Processes, ProcessStep(p)
    PROVE  Kept'
<1>1. /\ \A q \in Processes : q # p => proc'[q] = proc[q]
      /\ UNCHANGED <<platform, admin, grants>> /\ mishaps \subseteq mishaps'
  BY DEF ProcessStep, Alone
<1>m. \A a \in Admins : Manual(a)' = Manual(a)
  BY <1>1 DEF Manual
<1> SUFFICES ASSUME "cut" \notin mishaps', "edit" \notin mishaps',
                    \A a \in Admins : ~ Manual(a)
             PROVE  \/ Live(cred)'
                    \/ \E q \in Processes : /\ proc'[q].pc = "store"
                                            /\ proc'[q].read.family = cred'.family
  BY <1>m DEF Kept
<1>2. \/ Live(cred)
      \/ \E q \in Processes : /\ proc[q].pc = "store"
                              /\ proc[q].read.family = cred.family
  BY <1>1 DEF Kept
<1>t. cred.family \in 0..MaxReauth /\ current \in [0..MaxReauth -> 0..MaxGen]
      /\ cred \in Doc /\ cred.gen <= current[cred.family] /\ cred.gen \in 0..MaxGen
  BY ReadTypes DEF TokenInv
<1>3. CASE Quiet(p) \/ Reads(p) \/ MarksRow(p)
  <2>1. UNCHANGED <<cred, current>> /\ proc[p].pc # "store"
    BY <1>3 DEF Quiet, Reads, MarksRow
  <2> QED BY <1>1, <1>2, <2>1 DEF Live
<1>4. CASE Rotates(p)
  <2>1. /\ UNCHANGED cred /\ proc'[p].pc = "store" /\ proc'[p].read = proc[p].read
        /\ current' = [current EXCEPT ![proc[p].read.family] = @ + 1]
        /\ proc[p].pc = "call"
    BY <1>4 DEF Rotates
  <2>2. CASE proc[p].read.family = cred.family
    BY <2>1, <2>2
  <2>3. CASE proc[p].read.family # cred.family
    <3>1. current'[cred.family] = current[cred.family]
      BY <1>t, <2>1, <2>3
    <3> QED BY <1>1, <1>2, <2>1, <3>1 DEF Live
  <2> QED BY <2>2, <2>3
<1>5. CASE Stores(p)
  <2> DEFINE d == proc[p].read
  <2>1. proc[p].pc = "store" /\ current' = current
        /\ cred' = IF Applies(p) THEN Rotated(proc[p].read) ELSE cred
    BY <1>5 DEF Stores
  <2>2. current[d.family] = d.gen + 1 /\ ~ Seen(d.family, d.gen + 1)
    BY <2>1, StoredIsLive
  <2>3. CASE Applies(p)
    <3>1. cred'.family = d.family /\ cred'.gen = d.gen + 1
      BY <2>1, <2>3, StoredIsCarried DEF TokenInv
    <3> QED BY <2>1, <2>2, <3>1 DEF Live
  <2>4. CASE ~ Applies(p)
    <3>1. platform = "grok" /\ cred # d /\ cred' = cred
      BY <2>1, <2>4 DEF Applies
    <3>2. d.family # cred.family
      <4> SUFFICES ASSUME d.family = cred.family PROVE FALSE
        OBVIOUS
      <4>1. d \in Doc /\ d.gen \in 0..MaxGen
        BY <2>1, ReadTypes DEF TokenInv
      <4>2. d.edit = 0 /\ cred.edit = 0 /\ d.gen <= cred.gen
        BY <1>1, <2>1, <3>1 DEF RowForward
      <4>3. cred.gen # d.gen + 1
        BY <2>2 DEF Seen
      <4>4. cred.gen = d.gen
        BY <1>t, <2>2, <4>1, <4>2, <4>3, BoundsAssumption
      <4>5. cred = d
        BY <1>t, <4>1, <4>2, <4>4 DEF Doc
      <4> QED BY <3>1, <4>5
    <3> QED BY <1>1, <1>2, <2>1, <3>1, <3>2 DEF Live
  <2> QED BY <2>3, <2>4
<1> QED BY <1>3, <1>4, <1>5 DEF ProcessStep

LEMMA AdminKept ==
    ASSUME TokenInv, Kept, NEW a \in Admins, AdminStep(a)
    PROVE  Kept'
<1>1. /\ \A b \in Admins : b # a => admin'[b] = admin[b]
      /\ UNCHANGED proc /\ mishaps \subseteq mishaps'
  BY DEF AdminStep
<1>2. \A b \in Admins : b # a => Manual(b)' = Manual(b)
  BY <1>1 DEF Manual
<1>3. CASE UNCHANGED <<cred, current>> /\ ~ Manual(a)
  BY <1>1, <1>2, <1>3 DEF Kept, Live
<1>4. CASE Begins(a)
  BY <1>3, <1>4 DEF Begins, Manual
<1>5. CASE Answers(a)
  <2>1. CASE current' = current
    BY <1>3, <1>5, <2>1 DEF Answers, Manual
  <2>2. CASE current' # current
    <3>1. Manual(a)'
      BY <1>5, <2>2 DEF Answers, Manual, TokenInv, GrantsApart
    <3> QED BY <3>1 DEF Kept
  <2> QED BY <2>1, <2>2
<1>6. CASE Writes(a)
  <2>1. CASE admin[a].kind = "reauth"
    <3>1. current' = current /\ cred' = admin[a].doc /\ Obtains(a)
      BY <1>6, <2>1 DEF Writes, Obtains
    <3>2. Awaited(admin[a].doc.family)
      BY <3>1 DEF Awaited
    <3>3. current[admin[a].doc.family] = 0 /\ admin[a].doc.gen = 0
      BY <3>1, <3>2 DEF TokenInv, AwaitedUnused, GrantsApart
    <3> QED BY <3>1, <3>3 DEF Kept, Live
  <2>2. CASE admin[a].kind # "reauth"
    BY <1>6, <2>2 DEF Writes, Kept
  <2> QED BY <2>1, <2>2
<1>7. CASE Ends(a)
  <2>1. CASE Manual(a)
    BY <1>7, <2>1 DEF Ends, Manual, Kept
  <2>2. CASE ~ Manual(a)
    BY <1>3, <1>7, <2>2 DEF Ends
  <2> QED BY <2>1, <2>2
<1> QED BY <1>4, <1>5, <1>6, <1>7 DEF AdminStep

LEMMA NextKept ==
    TokenInv /\ RowForward /\ Kept /\ [Next]_vars => RowForward' /\ Kept'
<1> SUFFICES ASSUME TokenInv, RowForward, Kept, [Next]_vars
             PROVE  RowForward' /\ Kept'
  OBVIOUS
<1>1. CASE Lapse
  <2>1. UNCHANGED <<platform, cred, current, proc, admin>>
        /\ mishaps \subseteq mishaps'
    BY <1>1 DEF Lapse
  <2>2. \A a \in Admins : Manual(a)' = Manual(a) /\ Obtains(a)' = Obtains(a)
    BY <2>1 DEF Manual, Obtains
  <2> QED BY <2>1, <2>2 DEF RowForward, Kept, Live
<1>2. ASSUME NEW a \in Admins, AdminStep(a)
      PROVE  RowForward' /\ Kept'
  BY <1>2, AdminForward, AdminKept
<1>3. ASSUME NEW p \in Processes, ProcessStep(p)
      PROVE  RowForward' /\ Kept'
  BY <1>3, ProcessForward, ProcessKept
<1> QED BY <1>1, <1>2, <1>3, StepShape DEF TokenInv

\* The successor of the row's token is never lost by a race of refreshes, for
\* any number of processes and administrators and whatever the lock does: while
\* the row's token is not accepted, a process or a manual refresh carries its
\* successor, and on a Grok account the comparison of that process's store
\* succeeds.
THEOREM SuccessorIsNotLost == Spec => []TokenNotLost
<1>1. Init => RowForward /\ Kept
  <2> SUFFICES ASSUME Init PROVE RowForward /\ Kept
    OBVIOUS
  <2>1. /\ \A a \in Admins : admin[a].pc = "idle"
        /\ \A p \in Processes : proc[p].pc = "idle"
    BY DEF Init, AtRest, Away
  <2>2. cred.family = 0 /\ cred.gen = 0 /\ cred.edit = 0 /\ current[0] = 0
    BY BoundsAssumption DEF Init
  <2> QED BY <2>1, <2>2 DEF RowForward, Kept, Live, Obtains
<1>2. TokenInv /\ Kept => TokenNotLost
  <2> SUFFICES ASSUME TokenInv, Kept PROVE TokenNotLost
    OBVIOUS
  <2>1. ASSUME NEW a \in Admins, Manual(a)
        PROVE  TokenNotLost
    <3>1. Carries(<<"request", a>>, admin[a].doc.family, admin[a].doc.gen)
      BY <2>1 DEF Carries
    <3>2. Live(admin[a].doc)
      BY <3>1 DEF TokenInv, CarriedOnce, Live
    <3> QED BY <2>1, <3>2 DEF Manual, TokenNotLost
  <2>2. ASSUME NEW p \in Processes, proc[p].pc = "store",
               proc[p].read.family = cred.family
        PROVE  TokenNotLost
    <3>1. Live(Rotated(proc[p].read))
      BY <2>2, StoredIsLive, StoredIsCarried DEF TokenInv, Live
    <3> QED BY <2>2, <3>1 DEF TokenNotLost
  <2> QED BY <2>1, <2>2 DEF Kept, TokenNotLost
<1> QED BY <1>1, <1>2, InitTokens, NextTokenInv, NextKept, PTL DEF Spec
=============================================================================
