\* The maple tree test, generic netlink, netlink, netmon, set_route, the PCI driver, mychardev or the red-black tree.
CONSTANTS
  ULONG_MAX = 1073741823
  HUGE = 400000000
  SEQ = 24
  POWERS = 12
  DUPS = 2
  BIG = 24
  MaxLost = 2
  Procs = {p1, p2, p3}
  QueueLength = 1
  Frac = 2
  Hdr = 2
  BufLen = 7
  Datagrams <- MCDatagrams
  MaxArgs = 4
  Devs = {d1, d2}
  Users = {u1}
  Majors = {234, 235}
  MaxLoads = 2
SPECIFICATION MCFairSpec
INVARIANTS ModulesTypesOK AssertionsHold CopyIsTheTree CursorNeverStale
INVARIANTS NothingRunsWhenGone NobodyPassedOver EachMessageOnce RequestIsTheLine BoundOwnsAll DestroyFreesAll
PROPERTY UnloadCompletes
CHECK_DEADLOCK FALSE
