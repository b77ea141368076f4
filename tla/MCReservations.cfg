\* Two goals on one account, and a continuation of the first.
SPECIFICATION Spec
CONSTANTS
  Owners = {o1, o2, c1}
  o1 = o1
  o2 = o2
  o3 = o3
  c1 = c1
  c2 = c2
  d1 = d1
  None = None
  Goal <- OwnGoals
  Account <- OwnAccounts
  Attempt <- OwnAttempts
  Parent <- OwnParents
  Policies <- TwoPolicies
CHECK_DEADLOCK FALSE
INVARIANTS
  LiveHoldsASlot
  OneOwnerPerAttempt
  HoldsAreSound
