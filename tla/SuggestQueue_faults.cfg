SPECIFICATION Spec
CONSTANTS
  w1 = w1
  w2 = w2
  t1 = t1
  t2 = t2
  NoWorker = NoWorker
  NoTask = NoTask
  Workers <- TwoWorkers
  Tasks <- OneTask
  Cancelable <- OneTask
  Concurrency = 2
  ReclaimBatch = 1
  MaxLive = 1
  MaxCrashes = 3
  MaxErrors = 3
  MaxLapses = 0
  MaxRequeues = 6
INVARIANTS
  TypeOK
  AtMostOneRunner
  LossesNamed
PROPERTIES
  CanceledInQueue
  ImplementsSuggestTask
\* Every task settled and every bound spent: nothing is left to do.
CHECK_DEADLOCK FALSE
