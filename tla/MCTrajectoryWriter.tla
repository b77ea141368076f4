------------------------- MODULE MCTrajectoryWriter -------------------------
(* Two keyed calls that carry the same key (a retry by another process), one *)
(* keyless call, and a coordinator's transaction with that same key.         *)
EXTENDS TrajectoryWriter

CONSTANTS a, b, n, t, k

MCKeyOf == [c \in Calls |-> IF c = n THEN NoKey ELSE k]
=============================================================================
