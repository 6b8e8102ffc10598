\* While hello is loaded its family is not registered.
CONSTANT MaxLost = 1
SPECIFICATION Spec
INVARIANT LiveMeansRegistered
CHECK_DEADLOCK FALSE
