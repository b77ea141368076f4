\* Failing appends and probes, Elves that die, quota refusals, several epochs.
CONSTANTS
  Quota = TRUE
  Reuse = FALSE
  Faults = {"append", "observe", "crash"}
  MaxFaults = 2
  MaxReadings = 3
SPECIFICATION LeaseSpec
CHECK_DEADLOCK FALSE
INVARIANTS SteadyLeaseProjects LeaseIsKept
