\* A wakeup's dispatch, one worker, one fault of each kind: performed at most
\* once, and what is under way ends.
CONSTANTS
  Workers = {w1}
  Jobs <- MCJobs
  MaxAttempts = 2
  MaxFaults = 1
  Continuation = TRUE
  Interference = FALSE
SPECIFICATION FairSpec
CHECK_DEADLOCK FALSE
INVARIANTS AtMostOnePerform
 
