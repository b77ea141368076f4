\* Events of every kind, rebuilds that die after their reset.
CONSTANTS
  Runs = {r1}
  Grants = {g1}
  Checkpoints = {c1}
  Snapshots = {s1, s2}
  None = None
  Acts <- Mixed
  MaxEvents = 6
  MaxResets = 2
SPECIFICATION ProjFairSpec
CHECK_DEADLOCK FALSE
INVARIANT TablesAreRight
PROPERTY CatchesUp
