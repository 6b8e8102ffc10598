\* Two requests in flight on a small device, all overlaps and segmentations.
CONSTANTS
  Tags = {t1, t2}
  Capacity = 2
  Limit = 2
  Values = {x, y}
SPECIFICATION FairSpec
INVARIANTS TransferAgrees ResourcesOutliveRequests
PROPERTIES ImplementsDisk ServedInTheEnd
CHECK_DEADLOCK FALSE
