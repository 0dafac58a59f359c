-------------------------- MODULE MCBatchImageJob --------------------------
(* One job for model checking: two workers are two instances that may meet   *)
(* at the job, the cancel request is the client's.                           *)
EXTENDS BatchImageJob, TLC

WorkerSymmetry == Permutations(Workers)

=============================================================================
