SPECIFICATION Spec
CONSTANTS
  Threads = {t1, t2}
  Algorithms = {"fifo", "fifo-local", "fifo-task", "scan-task"}
  NumTasks = {1, 5}
  NumWorkers = 4
  Partitions = 3
  WorkerCapacity = 1
  CleanDB = TRUE
  MaxEntries = 5
  AllowFailures = TRUE
SYMMETRY Symmetry
INVARIANTS PartitionedInv GivesUpOnlyWhenFull TasksCostCapacity ScanBusiest
