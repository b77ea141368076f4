\* Two callers and a coordinator transaction on one goal, two writers in turn.
SPECIFICATION FairSpec
CONSTANTS
  a = a
  b = b
  n = n
  t = t
  k = k
  Calls = {a, n, t}
  Keys = {k}
  NoKey = NoKey
  KeyOf <- MCKeyOf
  TxnCalls = {t}
  NoCall = NoCall
  MaxRetries = 1
  MaxWriters = 2
INVARIANT TypeOK
INVARIANT AnswersAreTrue
 
PROPERTY ImplementsEventLog
PROPERTY CallsReturn
CHECK_DEADLOCK FALSE
