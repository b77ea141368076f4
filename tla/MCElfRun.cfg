\* The run is started twice, directly and by the dispatch worker; one fault of any
\* kind, at any step.
CONSTANTS
  Owner = "runner"
  MaxStarts = 2
  Stubborn = FALSE
  Faults = {"append", "raise", "kill", "node"}
  MaxFaults = 1
SPECIFICATION FairSpec
CHECK_DEADLOCK FALSE
INVARIANTS RunLogIsSound KnownGroupIsAlone CancelReplyIsTrue
PROPERTY RestartResolves
