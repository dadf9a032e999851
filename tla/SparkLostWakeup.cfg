SPECIFICATION FairSpec
CONSTANTS
  Clients = {c1}
  NumWorkers = 1
  Partitions = 1
  WorkerCapacity = 1
  FirstTaskIDs = {5}
  MaxTasks = 1
  AllowFailures = FALSE
PROPERTIES ScheduleReturns
