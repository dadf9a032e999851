SPECIFICATION FairSpec
CONSTANTS
  Threads = {t1, t2}
  Algorithms = {"fifo", "fifo-local", "single-partitioned-fifo-task", "send", "broadcast"}
  NumWorkers = 3
  Partitions = 2
  WorkerCapacity = 2
  MaxOutstanding = 2
  Paced = FALSE
  CleanDB = TRUE
  MaxEntries = 2
  MaxCalls = 3
  AllowFailures = TRUE
INVARIANTS AsyncInv OutstandingCounted EveryRequestRecorded LoadBalanced
PROPERTIES AsyncRunEnds
