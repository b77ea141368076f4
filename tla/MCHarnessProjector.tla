------------------------- MODULE MCHarnessProjector -------------------------
(* Instances of HarnessProjector for TLC. *)
EXTENDS HarnessProjector

\* Acts of every kind, with a few steps of each lifecycle.
Mixed == {"begin", "cancel", "snapshot", "propose", "grant", "checkpoint", "handoff"}
=============================================================================
