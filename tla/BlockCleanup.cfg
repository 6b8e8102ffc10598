\* Does exit clean up everything?
CONSTANTS
  Tags = {t1}
  Capacity = 1
  Limit = 1
  Values = {x}
SPECIFICATION Spec
INVARIANT CleansUpEverything
CHECK_DEADLOCK FALSE
