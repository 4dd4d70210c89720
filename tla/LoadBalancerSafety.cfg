CONSTANTS
  Free = Free
  Stopper = Stopper
  Workers = {w1, w2}
  Producers = {p1, p2}
  Feeders = {w1}
  Items = {i1, i2, i3}
  MaxWork <- MaxTwo
  RangeSizes = {2}
  CanStop = TRUE
SPECIFICATION Spec
SYMMETRY ItemSymmetry
INVARIANTS EachItemOnce StopDrains IInv
PROPERTY Balanced
CHECK_DEADLOCK FALSE
