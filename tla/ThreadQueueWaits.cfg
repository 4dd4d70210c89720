CONSTANTS
  Free = Free
  Threads = {t1, t2, t3}
  Items = {a}
  MaxLengths = {0, 2}
  MaxRange = 2
  SignalWaiters = {t1}
  Signallers = {t3}
  Exchangers = {}
  Bound = 3
SPECIFICATION FairSpec
INVARIANTS NoMissedPush TimedResultExact
PROPERTIES WaitsReturn
CHECK_DEADLOCK FALSE
