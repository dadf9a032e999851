SPECIFICATION Spec
CONSTANTS
  Schedulers = {s1, s2}
  NumWorkers = 1
  Partitions = 1
  WorkerCapacity = 2
  CleanDB = FALSE
  MaxTry = 1
  MaxEntries = 3
  MaxRuns = 1
  AllowFailures = TRUE
  Executors = {e1, e2}
  TopK = 2
SYMMETRY Symmetry
INVARIANTS SystemInv EndedIsDrained
PROPERTIES ImplementsLifecycle CapacityOnlyOnCompletion
