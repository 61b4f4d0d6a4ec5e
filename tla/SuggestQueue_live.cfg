SPECIFICATION FairSpec
CONSTANTS
  w1 = w1
  w2 = w2
  t1 = t1
  t2 = t2
  NoWorker = NoWorker
  NoTask = NoTask
  Workers <- OneWorker
  Tasks <- OneTask
  Cancelable <- OneTask
  Concurrency = 1
  ReclaimBatch = 1
  MaxLive = 1
  MaxCrashes = 2
  MaxErrors = 1
  MaxLapses = 1
  MaxRequeues = 4
PROPERTIES
  EverySuggestEnds
\* Every task settled and every bound spent: nothing is left to do.
CHECK_DEADLOCK FALSE
