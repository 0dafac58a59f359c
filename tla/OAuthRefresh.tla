---------------------------- MODULE OAuthRefresh ----------------------------
(***************************************************************************)
(* The refresh of one account's OAuth credentials, whose refresh token can *)
(* be used once.                                                           *)
(*                                                                         *)
(*   - OAuthRefreshAPI.RefreshIfNeeded (service/oauth_refresh_api.go): the *)
(*     per-process mutex, the Redis lock, the re-read, the provider call,  *)
(*     the recovery after invalid_grant, the store;                        *)
(*   - TokenRefreshService.refreshWithRetry (token_refresh_service.go):    *)
(*     the retries of the background cycle, and the error status;          *)
(*   - getRequestCredential (grok_credential_failure.go): the error status *)
(*     that a permanent failure of a request writes for a Grok account;    *)
(*   - administrators' reauthorisations, edits and manual refreshes        *)
(*     (handler/admin/account_handler.go, service/admin_account.go), which *)
(*     take no lock and may overlap.                                       *)
(*                                                                         *)
(* The credentials document is reduced to the grant it belongs to (family),*)
(* the number of rotations of its refresh token (gen) and the number of    *)
(* edits of its other fields (edit).  The provider accepts, of each grant, *)
(* only the token of the last rotation.                                    *)
(*                                                                         *)
(* The per-process mutex lets one caller of a process at a time into       *)
(* RefreshIfNeeded, so a process has one record: the caller that is in, up *)
(* to the error status it may write afterwards.                            *)
(***************************************************************************)
EXTENDS Naturals, FiniteSets

CONSTANTS
    Processes,      \* the processes of the gateway
    Admins,         \* administrators' requests under way at a time
    MaxReauth,      \* bound on the reauthorisations
    MaxGen,         \* bound on the rotations of one grant
    MaxEdits,       \* bound on the edits and manual refreshes
    MaxRetries,     \* TokenRefreshConfig.MaxRetries
    MaxEvents,      \* bound on faults (failed calls, crashes, lapses of the
                    \* lock) and administrators' requests together
    None            \* no process, no document

ASSUME ProcessesAssumption == None \notin Processes
ASSUME BoundsAssumption ==
    /\ MaxReauth \in Nat /\ MaxGen \in Nat /\ MaxEdits \in Nat
    /\ MaxRetries \in Nat \ {0} /\ MaxEvents \in Nat

VARIABLES
    platform,   \* "grok", or "other": claude, openai, gemini, antigravity
    cred,       \* the row's credentials document
    status,     \* the row's: "active"; in error because the refresh token was
                \* refused, "error", or for another permanent reason, "denied"
    current,    \* at the provider: the rotation of each grant that is accepted
    aged,       \* the tokens so near their expiry that NeedsRefresh holds
    lock,       \* the holder of oauth:refresh_lock
    proc,       \* the caller each process has inside RefreshIfNeeded
    admin,      \* the requests of administrators
    grants,     \* the grants administrators have obtained after the first
    edits,      \* edits and manual refreshes so far
    faults,     \* faults so far
    mishaps     \* what has gone wrong so far: named where it is added

vars == <<platform, cred, status, current, aged, lock, proc, admin, grants,
          edits, faults, mishaps>>

Doc    == [family : 0..MaxReauth, gen : 0..MaxGen, edit : 0..MaxEdits]
Token  == (0..MaxReauth) \X (0..MaxGen)
Mishap == {"unlocked", "cut", "reauth", "edit", "clear"}

Caller == [pc : {"idle", "acquire", "read", "call", "recover", "store",
                 "release", "mark"},
           kind : {"background", "request"},
           holds : BOOLEAN,
           read : Doc \cup {None},
           tries : 0..(MaxRetries - 1),
           outcome : {"none", "done", "failed", "rejected", "denied"}]

Statuses == {"active", "error", "denied"}

\* doc is the document a request will write; a manual refresh has yet to
\* replace its token while it is at "call".
Request == [pc : {"idle", "call", "write", "clear"},
            kind : {"reauth", "edit", "manual"},
            doc : Doc \cup {None},
            status : Statuses]

Away == [pc |-> "idle", kind |-> "background", holds |-> FALSE, read |-> None,
         tries |-> 0, outcome |-> "none"]

AtRest == [pc |-> "idle", kind |-> "edit", doc |-> None, status |-> "active"]

(***************************************************************************)
(* What the code computes from a document.                                 *)
(***************************************************************************)
TokenOf(d) == <<d.family, d.gen>>

NeedsRefresh(d) == TokenOf(d) \in aged

\* The provider accepts the document's refresh token.
Live(d) == current[d.family] = d.gen

\* The document Refresh returns: the old one with the next token.
Rotated(d) == [d EXCEPT !.gen = @ + 1]

Init ==
    /\ platform \in {"grok", "other"}
    /\ cred = [family |-> 0, gen |-> 0, edit |-> 0]
    /\ status = "active"
    /\ current = [f \in 0..MaxReauth |-> 0]
    /\ aged = {}
    /\ lock = None
    /\ proc = [p \in Processes |-> Away]
    /\ admin = [a \in Admins |-> AtRest]
    /\ grants = 0
    /\ edits = 0
    /\ faults = 0
    /\ mishaps = {}

MoreEvents == faults + grants + edits < MaxEvents

Fault == MoreEvents /\ faults' = faults + 1

Moves(p, c) == proc' = [proc EXCEPT ![p] = c]

\* RefreshIfNeeded returns: the deferred release of the lock comes first.
ReturnsWith(p, outcome, d) ==
    Moves(p, [proc[p] EXCEPT !.pc = "release", !.outcome = outcome, !.read = d])

Returns(p, outcome) == ReturnsWith(p, outcome, None)

\* A permanent error comes with the document that was attempted.
Rejected(p) == ReturnsWith(p, "rejected", proc[p].read)

row      == <<platform, cred, status>>
provider == <<current, aged>>
people   == <<admin, grants, edits>>
record   == <<faults, mishaps>>

(***************************************************************************)
(* Time: the stored token comes near its expiry.                           *)
(***************************************************************************)
TokenAges ==
    /\ ~ NeedsRefresh(cred)
    /\ cred.gen < MaxGen
    /\ aged' = aged \cup {TokenOf(cred)}
    /\ UNCHANGED <<row, current, lock, proc, people, record>>

(***************************************************************************)
(* RefreshIfNeeded.  The background cycle enters for the accounts that are *)
(* active and due when it lists them; a request for one that is active and *)
(* due when it was selected.                                               *)
(***************************************************************************)
Enter(p, kind) ==
    /\ proc[p].pc = "idle"
    /\ status = "active"
    /\ NeedsRefresh(cred)
    /\ Moves(p, [Away EXCEPT !.pc = "acquire", !.kind = kind])
    /\ UNCHANGED <<row, provider, lock, people, record>>

\* Mutant: the lock is taken although another process holds it.
FreeAlways == TRUE

\* SetNX succeeds.
LockFree == lock = None

AcquireRefreshLock(p) ==
    /\ proc[p].pc = "acquire"
    /\ IF LockFree
         THEN /\ lock' = p
              /\ Moves(p, [proc[p] EXCEPT !.pc = "read", !.holds = TRUE])
         ELSE /\ Moves(p, Away)         \* LockHeld: skipped
              /\ UNCHANGED lock
    /\ UNCHANGED <<row, provider, people, record>>

\* A Redis error: the refresh goes on without the lock, and does not release
\* it, though it may have been set.
AcquireDegraded(p) ==
    /\ proc[p].pc = "acquire"
    /\ Fault
    /\ mishaps' = mishaps \cup {"unlocked"}
    /\ lock' \in {lock, IF LockFree THEN p ELSE lock}
    /\ Moves(p, [proc[p] EXCEPT !.pc = "read", !.holds = FALSE])
    /\ UNCHANGED <<row, provider, people>>

Reread(p) ==
    /\ proc[p].pc = "read"
    /\ IF status = "active" /\ NeedsRefresh(cred)
         THEN Moves(p, [proc[p] EXCEPT !.pc = "call", !.read = cred])
         ELSE Returns(p, "done")
    /\ UNCHANGED <<row, provider, lock, people, record>>

RereadFails(p) ==
    /\ proc[p].pc = "read"
    /\ Fault
    /\ Returns(p, "done")
    /\ UNCHANGED <<row, provider, lock, people, mishaps>>

\* The provider rotates the token and the answer arrives in time.
CallSucceeds(p) ==
    /\ proc[p].pc = "call"
    /\ Live(proc[p].read)
    /\ current' = [current EXCEPT ![proc[p].read.family] = @ + 1]
    /\ Moves(p, [proc[p] EXCEPT !.pc = "store"])
    /\ UNCHANGED <<row, aged, lock, people, record>>

\* The token has been used: invalid_grant, or another word for it
\* (refresh_token_reused), after which nothing is read again.
CallRejected(p) ==
    /\ proc[p].pc = "call"
    /\ ~ Live(proc[p].read)
    /\ \/ Moves(p, [proc[p] EXCEPT !.pc = "recover"])
       \/ Rejected(p)
    /\ UNCHANGED <<row, provider, lock, people, record>>

\* A passing error, or a deadline before the provider acts: retried, or, when
\* it concerns the provider as a whole, contained for this cycle.
CallFails(p) ==
    /\ proc[p].pc = "call"
    /\ Fault
    /\ \E outcome \in {"failed", "done"} : Returns(p, outcome)
    /\ UNCHANGED <<row, provider, lock, people, mishaps>>

\* A permanent failure that says nothing of the refresh token; d is the
\* document it is reported for.
Denied(p, d) ==
    /\ Fault
    /\ ReturnsWith(p, "denied", d)

\* access_denied, a missing entitlement or project (isNonRetryableRefreshError,
\* classifyGrokCredentialFailure).
CallDenied(p) ==
    /\ proc[p].pc = "call"
    /\ Denied(p, proc[p].read)
    /\ UNCHANGED <<row, provider, lock, people, mishaps>>

\* The provider rotates the token, the context ends, the answer is dropped.
CallCutOff(p) ==
    /\ proc[p].pc = "call"
    /\ Live(proc[p].read)
    /\ Fault
    /\ current' = [current EXCEPT ![proc[p].read.family] = @ + 1]
    /\ mishaps' = mishaps \cup {"cut"}
    /\ \E outcome \in {"failed", "done"} : Returns(p, outcome)
    /\ UNCHANGED <<row, aged, lock, people>>

\* tryRecoverFromRefreshRace: a changed refresh token in the row is another
\* worker's success.
TryRecover(p) ==
    /\ proc[p].pc = "recover"
    /\ IF TokenOf(cred) # TokenOf(proc[p].read)
         THEN Returns(p, "done") ELSE Rejected(p)
    /\ UNCHANGED <<row, provider, lock, people, record>>

TryRecoverFails(p) ==
    /\ proc[p].pc = "recover"
    /\ Fault
    /\ Rejected(p)
    /\ UNCHANGED <<row, provider, lock, people, mishaps>>

\* grokOAuthRequestAccountEligibilityError: the row a request of a Grok account
\* reads names a proxy that is gone.
Ineligible(p) ==
    /\ platform = "grok" /\ proc[p].kind = "request" /\ status = "active"
    /\ \/ proc[p].pc = "read"
       \/ proc[p].pc = "recover" /\ TokenOf(cred) # TokenOf(proc[p].read)
    /\ Denied(p, cred)
    /\ UNCHANGED <<row, provider, lock, people, mishaps>>

\* So does the row it has selected, before RefreshIfNeeded.
RequestDenied(p) ==
    /\ platform = "grok" /\ status = "active"
    /\ proc[p].pc = "idle"
    /\ Fault
    /\ Moves(p, [Away EXCEPT !.pc = "mark", !.read = cred, !.outcome = "denied"])
    /\ UNCHANGED <<row, provider, lock, people, mishaps>>

\* Mutant: the store compares nothing.
AppliesAlways(p) == TRUE

\* Mutant: the store leaves an account in error alone.
AppliesToActive(p) ==
    status = "active" /\ (platform = "grok" => cred = proc[p].read)

\* UpdateGrokOAuthCredentialsIfUnchanged, or persistAccountCredentials.
Applies(p) == platform = "grok" => cred = proc[p].read

Stored(p) == IF Applies(p) THEN Rotated(proc[p].read) ELSE cred

Store(p) ==
    /\ proc[p].pc = "store"
    /\ cred' = Stored(p)
    /\ Returns(p, "done")
    /\ UNCHANGED <<platform, status, provider, lock, people, record>>

\* The row that is read after the store is not eligible.
StoreDenied(p) ==
    /\ platform = "grok" /\ proc[p].kind = "request" /\ status = "active"
    /\ proc[p].pc = "store"
    /\ cred' = Stored(p)
    /\ Denied(p, Stored(p))
    /\ UNCHANGED <<platform, status, provider, lock, people, mishaps>>

\* A store that fails is contained for Grok and retried for the others.
StoreFails(p) ==
    /\ proc[p].pc = "store"
    /\ Fault
    /\ mishaps' = mishaps \cup {"cut"}
    /\ Returns(p, IF platform = "grok" THEN "done" ELSE "failed")
    /\ UNCHANGED <<row, provider, lock, people>>

(***************************************************************************)
(* The return of RefreshIfNeeded and what the caller does next.            *)
(***************************************************************************)

\* The loop of refreshWithRetry has an attempt left.
AttemptLeft(c) == c.tries + 1 < MaxRetries

\* A permanent failure is reported: by the background cycle, and by a request
\* for a Grok account (applyGrokCredentialAccountFailure).
Continues(c) ==
    CASE c.outcome \in {"rejected", "denied"} /\ (c.kind = "background" \/ platform = "grok") ->
            [Away EXCEPT !.pc = "mark", !.read = c.read, !.outcome = c.outcome]
      [] c.kind = "background" /\ c.outcome = "failed" /\ AttemptLeft(c) ->
            [Away EXCEPT !.pc = "acquire", !.tries = c.tries + 1]
      [] OTHER -> Away

\* ReleaseRefreshLock deletes the key, whoever holds it.
Release(p) ==
    /\ proc[p].pc = "release"
    /\ lock' = IF proc[p].holds THEN None ELSE lock
    /\ Moves(p, Continues(proc[p]))
    /\ UNCHANGED <<row, provider, people, record>>

ReleaseFails(p) ==
    /\ proc[p].pc = "release"
    /\ proc[p].holds
    /\ Fault
    /\ Moves(p, Continues(proc[p]))
    /\ UNCHANGED <<row, provider, lock, people, mishaps>>

\* Mutant: the error status is written whatever the row holds.
MarksAlways(p) == TRUE

\* SetGrokOAuthRefreshErrorIfCredentialsUnchanged, for a request
\* SetGrokCredentialErrorIfMatch, or SetError.
Marks(p) == platform = "grok" => status = "active" /\ cred = proc[p].read

Reason(c) == IF c.outcome = "rejected" THEN "error" ELSE "denied"

MarkError(p) ==
    /\ proc[p].pc = "mark"
    /\ status' = IF Marks(p) THEN Reason(proc[p]) ELSE status
    /\ Moves(p, Away)
    /\ UNCHANGED <<platform, cred, provider, lock, people, record>>

MarkErrorFails(p) ==
    /\ proc[p].pc = "mark"
    /\ Fault
    /\ Moves(p, Away)
    /\ UNCHANGED <<row, provider, lock, people, mishaps>>

(***************************************************************************)
(* Crashes, and the time to live of the lock.  A background attempt, and a *)
(* Grok request, ends before the lock does; the requests of the others     *)
(* have no deadline of their own, so the lock may lapse under them.        *)
(***************************************************************************)
Crash(p) ==
    /\ proc[p].pc # "idle"
    /\ Fault
    /\ mishaps' = mishaps \cup (IF proc[p].pc = "store" THEN {"cut"} ELSE {})
    /\ Moves(p, Away)
    /\ UNCHANGED <<row, provider, lock, people>>

Holding(p) == lock = p /\ proc[p].holds

\* Mutant: the lock is set without a time to live.
LapsesNever == FALSE

\* The key's time to live runs out after its holder has gone.
Lapses == lock # None /\ ~ Holding(lock)

LockLapses ==
    /\ Lapses
    /\ lock' = None
    /\ UNCHANGED <<row, provider, proc, people, record>>

LockLapsesEarly ==
    /\ platform = "other"
    /\ lock # None /\ Holding(lock)
    /\ proc[lock].kind = "request"
    /\ Fault
    /\ lock' = None
    /\ mishaps' = mishaps \cup {"unlocked"}
    /\ UNCHANGED <<row, provider, proc, people>>

(***************************************************************************)
(* The administrators.  UpdateAccount reads the row, merges, and writes the *)
(* whole row back with the status it read; it compares nothing.            *)
(***************************************************************************)
others == <<row, provider, lock, proc, record>>

AdminMoves(a, r) == admin' = [admin EXCEPT ![a] = r]

\* ApplyOAuthCredentials: the tokens of a new grant, the other fields as read.
AdminReauthorises(a) ==
    /\ admin[a].pc = "idle"
    /\ MoreEvents /\ grants < MaxReauth
    /\ grants' = grants + 1
    /\ AdminMoves(a, [pc |-> "write", kind |-> "reauth", status |-> status,
                      doc |-> [family |-> grants + 1, gen |-> 0, edit |-> cred.edit]])
    /\ UNCHANGED <<others, edits>>

\* An edit keeps the tokens it has read.
AdminEdits(a) ==
    /\ admin[a].pc = "idle"
    /\ MoreEvents /\ edits < MaxEdits
    /\ edits' = edits + 1
    /\ AdminMoves(a, [pc |-> "write", kind |-> "edit", status |-> status,
                      doc |-> [cred EXCEPT !.edit = edits + 1]])
    /\ UNCHANGED <<others, grants>>

AdminRefreshes(a) ==
    /\ admin[a].pc = "idle"
    /\ MoreEvents /\ edits < MaxEdits /\ cred.gen < MaxGen
    /\ edits' = edits + 1
    /\ AdminMoves(a, [AtRest EXCEPT !.pc = "call", !.kind = "manual",
                                    !.doc = cred])
    /\ UNCHANGED <<others, grants>>

\* refreshSingleAccount calls the provider without the lock, then UpdateAccount
\* reads the row.
AdminCalls(a) ==
    /\ admin[a].pc = "call"
    /\ mishaps' = mishaps \cup {"unlocked"}
    /\ IF Live(admin[a].doc)
         THEN /\ current' = [current EXCEPT ![admin[a].doc.family] = @ + 1]
              /\ AdminMoves(a, [admin[a] EXCEPT !.pc = "write", !.status = status,
                                                !.doc = Rotated(@)])
         ELSE /\ AdminMoves(a, AtRest)
              /\ UNCHANGED current
    /\ UNCHANGED <<row, aged, lock, proc, grants, edits, faults>>

AdminWrites(a) ==
    /\ admin[a].pc = "write"
    /\ cred' = admin[a].doc
    /\ status' = admin[a].status
    /\ mishaps' = mishaps \cup
                    {IF admin[a].kind = "reauth" THEN "reauth" ELSE "edit"}
    /\ AdminMoves(a, IF admin[a].kind = "reauth"
                        THEN [AtRest EXCEPT !.pc = "clear"]
                        ELSE AtRest)
    /\ UNCHANGED <<platform, provider, lock, proc, grants, edits, faults>>

\* The update fails: after a manual refresh the new token is lost.
AdminWriteFails(a) ==
    /\ admin[a].pc = "write"
    /\ Fault
    /\ mishaps' = mishaps \cup (IF admin[a].kind = "manual" THEN {"cut"} ELSE {})
    /\ AdminMoves(a, AtRest)
    /\ UNCHANGED <<row, provider, lock, proc, grants, edits>>

\* ApplyOAuthCredentials ends with ClearError.
AdminClears(a) ==
    /\ admin[a].pc = "clear"
    /\ status' = "active"
    /\ AdminMoves(a, AtRest)
    /\ UNCHANGED <<platform, cred, provider, lock, proc, grants, edits, record>>

\* A failing ClearError is only logged.
AdminClearFails(a) ==
    /\ admin[a].pc = "clear"
    /\ Fault
    /\ mishaps' = mishaps \cup {"clear"}
    /\ AdminMoves(a, AtRest)
    /\ UNCHANGED <<row, provider, lock, proc, grants, edits>>

-----------------------------------------------------------------------------
Step(p) ==
    \/ AcquireRefreshLock(p)
    \/ Reread(p)
    \/ CallSucceeds(p)
    \/ CallRejected(p)
    \/ TryRecover(p)
    \/ Store(p)
    \/ Release(p)
    \/ MarkError(p)

Fails(p) ==
    \/ AcquireDegraded(p)
    \/ RereadFails(p)
    \/ CallFails(p)
    \/ CallDenied(p)
    \/ CallCutOff(p)
    \/ TryRecoverFails(p)
    \/ Ineligible(p)
    \/ RequestDenied(p)
    \/ StoreFails(p)
    \/ StoreDenied(p)
    \/ ReleaseFails(p)
    \/ MarkErrorFails(p)
    \/ Crash(p)

Administers(a) ==
    \/ AdminReauthorises(a)
    \/ AdminEdits(a)
    \/ AdminRefreshes(a)
    \/ AdminCalls(a)
    \/ AdminWrites(a)
    \/ AdminWriteFails(a)
    \/ AdminClears(a)
    \/ AdminClearFails(a)

Next ==
    \/ TokenAges
    \/ \E p \in Processes :
        \/ \E kind \in {"background", "request"} : Enter(p, kind)
        \/ Step(p)
        \/ Fails(p)
    \/ LockLapses
    \/ LockLapsesEarly
    \/ \E a \in Admins : Administers(a)

Spec == Init /\ [][Next]_vars

\* A process goes on with what it has begun, an administrator's request too,
\* the background cycle comes back to an account that is due, and Redis drops
\* a key whose time has run out.
Fairness ==
    /\ \A p \in Processes : WF_vars(Step(p)) /\ WF_vars(Enter(p, "background"))
    /\ \A a \in Admins : WF_vars(AdminCalls(a) \/ AdminWrites(a) \/ AdminClears(a))
    /\ WF_vars(LockLapses)

FairSpec == Spec /\ Fairness

-----------------------------------------------------------------------------
(***************************************************************************)
(* Properties.                                                             *)
(***************************************************************************)

\* The type invariant; the attempts of a cycle stay below MaxRetries, and the
\* tokens that are due have a rotation left.
TypeOK ==
    /\ platform \in {"grok", "other"}
    /\ cred \in Doc
    /\ status \in Statuses
    /\ current \in [0..MaxReauth -> 0..MaxGen]
    /\ aged \subseteq Token
    /\ lock \in Processes \cup {None}
    /\ proc \in [Processes -> Caller]
    /\ admin \in [Admins -> Request]
    /\ grants \in 0..MaxReauth
    /\ edits \in 0..MaxEdits
    /\ faults \in 0..MaxEvents
    /\ mishaps \subseteq Mishap

\* A refresh of a Grok account never puts the credentials of an older grant
\* in place of a reauthorisation that came while the provider was called: the
\* store compares the document with the one that was read.  Only the write of
\* another administrator's request, which compares nothing, can do that.
ReauthorisationKept ==
    [][platform = "grok" /\ cred'.family < cred.family
        => \E a \in Admins : admin[a].pc = "write" /\ admin'[a] # admin[a]]_vars

\* A Grok account is put in error for its refresh token only while the token
\* in its row is one the provider no longer accepts, whatever the lock, the
\* other processes and the administrators did since the attempt that was
\* rejected.  Only an administrator's write can put back the error of a row
\* that was read before it was cleared.
MarkedIsDead ==
    [][platform = "grok" /\ status = "active" /\ status' = "error"
        => \/ ~ Live(cred)
           \/ \E a \in Admins : admin[a].pc = "write" /\ admin'[a] # admin[a]]_vars

\* An account is in error for its refresh token although the provider accepts
\* it only if somebody called the provider without the lock, an administrator's
\* write met the unconditional SetError of the platforms other than Grok, or the
\* error is cleared after a reauthorisation: that is under way, has failed, or
\* was undone by an edit that had read the row before.
HealthyErrorNeedsOverlap ==
    status = "error" /\ Live(cred) =>
        \/ "unlocked" \in mishaps
        \/ platform = "other" /\ mishaps \cap {"reauth", "edit"} # {}
        \/ {"reauth", "edit"} \subseteq mishaps
        \/ (\E a \in Admins : admin[a].pc = "clear") \/ "clear" \in mishaps

\* The token that replaces the one in the row is never lost by a race of
\* refreshes, with or without the lock: as long as the row's token is not
\* accepted, a process or a manual refresh is about to store its successor,
\* unless an answer or a store was cut off or an edit wrote the row back.
TokenNotLost ==
    \/ Live(cred)
    \/ \E p \in Processes :
          /\ proc[p].pc = "store"
          /\ proc[p].read.family = cred.family
          /\ Live(Rotated(proc[p].read))
    \/ \E a \in Admins :
          admin[a].pc = "write" /\ admin[a].kind = "manual" /\ Live(admin[a].doc)
    \/ mishaps \cap {"cut", "edit"} # {}

\* A token that is due is replaced, or its account put in error, although
\* processes crash with the lock, locks are contended and calls fail.  On the
\* platforms other than Grok an answer or a store that was cut off, or an edit
\* that wrote the row back, is excepted: a rejected request does not mark such
\* an account, and requests may keep the lock from the background attempt.
DueIsRefreshed ==
    (status = "active" /\ NeedsRefresh(cred)) ~>
        \/ ~ NeedsRefresh(cred)
        \/ status # "active"
        \/ platform = "other" /\ mishaps \cap {"cut", "edit"} # {}
=============================================================================
