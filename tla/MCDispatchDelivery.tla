------------------------- MODULE MCDispatchDelivery -------------------------
(* Instances of DispatchDelivery for TLC. *)
EXTENDS DispatchDelivery, TLC

MCJobs == 1..2

WorkerSymmetry == Permutations(Workers)
=============================================================================
