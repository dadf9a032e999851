SPECIFICATION PushFairSpec
CONSTANTS
  Threads = {t1,t2}
  Algorithms = {"push-fifo"}
  NumTasks = {1}
  NumWorkers = 1
  Partitions = 2
  WorkerCapacity = 1
  CleanDB = TRUE
  MaxEntries = 2
  HttpCapacity = 2
  MaxDeliveries = 2
  AllowFailures = TRUE
INVARIANTS PushInv PushCapacity NoTaskForgotten
PROPERTIES PushedCompletes WorkersEnd
