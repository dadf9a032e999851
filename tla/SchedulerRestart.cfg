SPECIFICATION Spec
CONSTANTS
  Schedulers = {s1}
  NumWorkers = 1
  Partitions = 1
  WorkerCapacity = 1
  CleanDB = TRUE
  MaxTry = 1
  MaxEntries = 1
  MaxRuns = 2
  AllowFailures = FALSE
  Executors = {e1}
  TopK = 1
PROPERTIES CapacityOnlyOnCompletion
