------------------------ MODULE MCSystemOperationLock ------------------------
(* Instance of SystemOperationLock for TLC. Operations and their ids are      *)
(* interchangeable.                                                           *)
EXTENDS SystemOperationLock, TLC

Symmetry == Permutations(Operations) \cup Permutations(OperationIds)

=============================================================================
