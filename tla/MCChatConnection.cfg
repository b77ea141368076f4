SPECIFICATION FairSpec
CONSTANTS
  m1 = m1
  c1 = c1
  Messages <- MCMessages
  Cancels <- MCCancels
  MaxOther = 1
  MaxHandoffs = 1
  MaxLosses = 1
INVARIANTS
  NoSilentLoss
  
  CancelledOnce
  ConnectionIsSound
PROPERTY SayIsAnswered
CHECK_DEADLOCK FALSE
