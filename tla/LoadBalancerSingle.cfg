CONSTANTS
  Free = Free
  Stopper = Stopper
  Workers = {w1, w2}
  Producers = {p1}
  Feeders = {}
  Items = {i1, i2, i3}
  MaxWork <- MaxTwo
  RangeSizes = {1, 2}
  CanStop = TRUE
SPECIFICATION FairSpec
INVARIANT WithinMaxWork
PROPERTIES RangeNotRefused AcceptedIsProcessed CallsReturn
CHECK_DEADLOCK FALSE
