\* Two callers race for the rounds of one run; one of them may give up.
SPECIFICATION Spec
CONSTANTS
  Callers = {p1, p2}
  Runs = {r0, r1}
  Replaced = {r0}
  Decisions = {d1, d2}
  Choices = {"request", "replace", "wait"}
  None = None
  Unheard = {"request"}
  MaxOrphans = 1
SYMMETRY Alike
INVARIANTS
  RoundsOpenInTurn
  ClaimsAreOwned
  ReplaceIsClaimed
