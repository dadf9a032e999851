SPECIFICATION LoadFairSpec
CONSTANTS
  Clients = {c1, c2}
  Programs = {"test", "load", "load-fifo"}
  CleanDB = TRUE
  NumWorkers = 2
  Partitions = 1
  WorkerCapacity = 1
  FirstTaskIDs = {5}
  MaxTasks = 3
  AllowFailures = TRUE
INVARIANTS SparkInv SparkCapacity FramesAlive
PROPERTIES ReturnsAfterExecution ServedScheduleReturns DestructorReturns
