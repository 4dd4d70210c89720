CONSTANTS
  Free = Free
  Threads = {t1, t2, t3}
  Items = {a}
  MaxLengths = {0}
  MaxRange = 0
  SignalWaiters = {t1, t2}
  Signallers = {}
  Exchangers = {t3}
  Bound = 2
SPECIFICATION Spec
INVARIANT SignalHeard
CHECK_DEADLOCK FALSE
