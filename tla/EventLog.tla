------------------------------ MODULE EventLog ------------------------------
(***************************************************************************)
(* What one goal's trajectory promises to everybody who reads it: an       *)
(* append-only table of events, numbered 1, 2, 3, ... without a gap, with  *)
(* at most one event per idempotency key and at most one event per append  *)
(* call.  Every projector of the system (goal/task, harness, cobbler) and  *)
(* every "has this already happened?" lookup rests on this promise.        *)
(* TrajectoryWriter implements it.                                         *)
(***************************************************************************)
EXTENDS Naturals, FiniteSets

CONSTANTS Calls,    \* the invocations of Trajectory.append for this goal
          Keys,     \* idempotency keys
          NoKey,    \* an event appended without an idempotency key
          KeyOf     \* the key each call carries

VARIABLE rows       \* the committed trajectory_events rows of the goal

Row == [seq : Nat \ {0}, key : Keys \cup {NoKey}, call : Calls]

LogInit == rows = {}

\* One more event, with the next free number, for a call and a key that have
\* none yet.
LogAppend(c) ==
  /\ \A r \in rows : r.call # c
  /\ KeyOf[c] # NoKey => \A r \in rows : r.key # KeyOf[c]
  /\ \E n \in {0} \cup {r.seq : r \in rows} :
        /\ {r.seq : r \in rows} = 1..n
        /\ rows' = rows \cup {[seq |-> n + 1, key |-> KeyOf[c], call |-> c]}

LogNext == \E c \in Calls : LogAppend(c)

LogSpec == LogInit /\ [][LogNext]_rows
=============================================================================
