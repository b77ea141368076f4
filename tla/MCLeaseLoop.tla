----------------------------- MODULE MCLeaseLoop -----------------------------
(* Instances of LeaseLoop for TLC. *)
EXTENDS LeaseLoop
=============================================================================
