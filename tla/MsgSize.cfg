\* Is size_of_message the size of the string stored?
CONSTANTS
  Clients = {c1, c2}
  Texts <- MCTexts
  BufferSize = 3
  MaxOpens = 2
SPECIFICATION Spec
INVARIANT SizeOfTheStringStored
CHECK_DEADLOCK FALSE
