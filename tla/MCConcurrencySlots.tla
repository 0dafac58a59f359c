------------------------- MODULE MCConcurrencySlots -------------------------
(***************************************************************************)
(* Requests of an old and of a new process and a live call of the old one. *)
(***************************************************************************)
EXTENDS ConcurrencySlots, TLC

CONSTANTS r1, r2, c1, p1, p2

MCHome == (r1 :> p1) @@ (c1 :> p1) @@ (r2 :> p2)
=============================================================================
