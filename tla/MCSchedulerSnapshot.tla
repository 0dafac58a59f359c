------------------------- MODULE MCSchedulerSnapshot -------------------------
(***************************************************************************)
(* One worker of each kind, and changes of the accounts and of the group.  *)
(***************************************************************************)
EXTENDS SchedulerSnapshot

CONSTANTS p1, f1, r1
=============================================================================
