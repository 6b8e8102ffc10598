\* Two tasks in schedule() while the thread swaps and the module comes and goes.
CONSTANTS
  Callers = {c1, c2}
  MaxLate = 3
SPECIFICATION FairSpec
INVARIANTS TypeOK DetachFindsTramp NoCallerLeftBehind SwapsAlternate AtMostOneLateSwap
PROPERTY ExitCompletes
