\* One request that may reach past the end of the device.
CONSTANTS
  Tags = {t1}
  Capacity = 3
  Limit = 5
  Values = {x, y}
SPECIFICATION Spec
INVARIANTS TypeOK InBounds BugOnlyPastTheEnd
CHECK_DEADLOCK FALSE
