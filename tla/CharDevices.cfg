\* Drivers coming and going, two processes on the message device, two on the memory.
CONSTANTS
  Clients = {c1, c2}
  Texts <- MCTexts
  BufferSize = 3
  MaxOpens = 3
  PAGE_SIZE = 3
  Pages = 2
  Counts = {1, 2, 4}
SPECIFICATION MCSpec
SYMMETRY Symmetry
INVARIANTS TypesOK OwnsItsMajor AllOrNothing
INVARIANTS QuietReadExact OverrunOnlyTooLong
INVARIANTS CopyInOnePage EachByteOnce NothingOnlyAtEnd
CHECK_DEADLOCK FALSE
