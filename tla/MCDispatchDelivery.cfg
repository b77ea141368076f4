\* One ordinary dispatch, two workers, two jobs, one fault: safety.
CONSTANTS
  Workers = {w1, w2}
  Jobs <- MCJobs
  MaxAttempts = 2
  MaxFaults = 1
  Continuation = FALSE
  Interference = TRUE
SPECIFICATION Spec
SYMMETRY WorkerSymmetry
CHECK_DEADLOCK FALSE
INVARIANTS  RowsAgree
PROPERTY ImplementsGate
