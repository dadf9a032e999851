SPECIFICATION Spec
CONSTANTS
  Schedulers = {s1}
  NumWorkers = 2
  Partitions = 2
  WorkerCapacity = 1
  CleanDB = TRUE
  MaxTry = 2
  MaxEntries = 3
  MaxRuns = 1
  AllowFailures = FALSE
  Executors = {e1}
  TopK = 1
INVARIANTS CapacityConservation NoTaskLost NoTaskTwice GiveUpAskedAll
