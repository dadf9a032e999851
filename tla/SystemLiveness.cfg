SPECIFICATION FairSpec
CONSTANTS
  Schedulers = {s1}
  NumWorkers = 1
  Partitions = 1
  WorkerCapacity = 2
  CleanDB = FALSE
  MaxTry = 1
  MaxEntries = 3
  MaxRuns = 1
  AllowFailures = FALSE
  Executors = {e1, e2}
  TopK = 1
PROPERTIES RunningCompletes PendingStarts EndServingReturns SchedulerEnds
