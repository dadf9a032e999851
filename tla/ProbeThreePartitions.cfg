SPECIFICATION Spec
CONSTANTS
  Schedulers = {s1}
  NumWorkers = 3
  Partitions = 3
  WorkerCapacity = 1
  CleanDB = FALSE
  MaxTry = 2
  MaxEntries = 3
  MaxRuns = 1
  AllowFailures = FALSE
  Executors = {e1}
  TopK = 1
INVARIANTS GiveUpAskedAll
