CONSTANTS
  Workers = {w1, w2, w3}
  Adders = {a1}
  Tasks = {t1, t2, t3}
  NoTask = NoTask
SPECIFICATION FairSpec
INVARIANTS NoIdleWorker StopWakesAll StopDrains NoWorkerOutlivesPool IInv
PROPERTIES TasksServed StopReturns
CHECK_DEADLOCK FALSE
