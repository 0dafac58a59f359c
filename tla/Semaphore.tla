------------------------------ MODULE Semaphore ------------------------------
(***************************************************************************)
(* What the concurrency limit of a user or of an account promises: a       *)
(* session is let in only while fewer than Limit sessions are inside.      *)
(* Any number of sessions may leave at once: they end, their process dies, *)
(* or the store forgets them.                                              *)
(***************************************************************************)
EXTENDS Naturals, FiniteSets

CONSTANTS Sessions, Limit

VARIABLE holders

Init == holders = {}

\* The script that lets s in may forget others in the same step.
Enter(s) ==
    \E gone \in SUBSET holders :
        /\ s \notin holders
        /\ Cardinality(holders \ gone) < Limit
        /\ holders' = (holders \ gone) \union {s}

Leave ==
    \E gone \in SUBSET holders : holders' = holders \ gone

Next == (\E s \in Sessions : Enter(s)) \/ Leave

Spec == Init /\ [][Next]_holders
=============================================================================
