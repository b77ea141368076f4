------------------------------ MODULE MCElfRun ------------------------------
(* Instances of ElfRun for TLC. *)
EXTENDS ElfRun
=============================================================================
