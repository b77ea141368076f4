SPECIFICATION Spec
CONSTANTS
  Asks = {1, 2}
  Network = {2}
  Lessons = {1, 2}
  Dispatches = {1}
  MaxLosses = 1
  MaxChanges = 3
INVARIANTS
  
  AnsweredOnce
  
PROPERTY OnlyTopActs
