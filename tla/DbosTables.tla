------------------------------ MODULE DbosTables ------------------------------
(***************************************************************************)
(* The Worker and Task tables of the DBOS scheduler and the VoltDB stored  *)
(* procedures of sql/ that read and write them.  A stored procedure is one *)
(* serializable transaction, so each is one operator that relates the      *)
(* tables before and after it to the value it returns to the client.       *)
(*                                                                         *)
(* A table is a sequence of rows, in insertion order: neither table has a  *)
(* primary key, so the same worker may have two rows, and an UPDATE ...    *)
(* WHERE changes every row it matches.                                     *)
(***************************************************************************)
EXTENDS Integers, Sequences, FiniteSets

CONSTANTS
  NumWorkers,     \* -W of the scheduler and of the worker program
  Partitions,     \* -P of both: the number of partition keys
  AllowFailures   \* may the invocation of a procedure fail?

ASSUME TablesAssumption ==
  /\ NumWorkers \in Nat \ {0}
  /\ Partitions \in Nat \ {0}
  /\ AllowFailures \in BOOLEAN

VARIABLES
  Worker,  \* rows [WorkerID, Capacity, PKey]
  Task     \* rows [TaskID, WorkerID, State, PKey]

tables == <<Worker, Task>>

(* The values of Task.State and of the procedures' status codes.           *)
PENDING  == 1
RUNNING  == 2
COMPLETE == 3

SUCCESS  == 0
NOTASK   == -1
NOWORKER == -2

WorkerRow == [WorkerID : Nat, Capacity : Int, PKey : Nat]
TaskRow   == [TaskID : Nat, WorkerID : Nat, State : {PENDING, RUNNING, COMPLETE},
              PKey : Nat]

\* Every row of the tables has its type.
TablesTypeOK == Worker \in Seq(WorkerRow) /\ Task \in Seq(TaskRow)

Workers == 0 .. NumWorkers - 1

\* Scheduler and worker derive a worker's partition key from its id alike.
PKeyOf(workerID) == workerID % Partitions

TablesInit == Worker = <<>> /\ Task = <<>>
-----------------------------------------------------------------------------
(* Loading and clearing the tables.                                        *)

InsertWorker(workerID, capacity, pkey) ==
  /\ Worker' = Append(Worker, [WorkerID |-> workerID, Capacity |-> capacity,
                               PKey |-> pkey])
  /\ UNCHANGED Task

TruncateWorkerTable == Worker' = <<>> /\ UNCHANGED Task

TruncateTaskTable == Task' = <<>> /\ UNCHANGED Worker
-----------------------------------------------------------------------------
(* Choosing a worker.                                                      *)

\* Mutation of AvailableWorkers: Capacity >= 0.
AvailableOrExhausted(pkey) ==
  {i \in DOMAIN Worker : Worker[i].PKey = pkey /\ Worker[i].Capacity >= 0}

\* SELECT ... FROM Worker WHERE PKey=? AND Capacity > 0: the rows that the
\* LIMIT 1 picks one of.
AvailableWorkers(pkey) ==
  {i \in DOMAIN Worker : Worker[i].PKey = pkey /\ Worker[i].Capacity > 0}

\* UPDATE Worker SET Capacity=? WHERE PKey=? AND WorkerID=?
SetCapacity(pkey, workerID, capacity) ==
  Worker' = [i \in DOMAIN Worker |->
               IF Worker[i].PKey = pkey /\ Worker[i].WorkerID = workerID
               THEN [Worker[i] EXCEPT !.Capacity = capacity]
               ELSE Worker[i]]

\* The ASSUMEUNIQUE index on TaskID rejects, within a partition, a second row
\* with the same TaskID; the procedure that inserts it aborts.
ViolatesTaskIndex(pkey, taskID) ==
  \E j \in DOMAIN Task : Task[j].PKey = pkey /\ Task[j].TaskID = taskID

NewTask(taskID, workerID, state, pkey) ==
  Task' = Append(Task, [TaskID |-> taskID, WorkerID |-> workerID,
                        State |-> state, PKey |-> pkey])

\* Mutation of SelectSinglePartitionedTaskWorker: the capacity is not taken.
SelectWithoutTaking(pkey, taskID, status) ==
  \/ AvailableWorkers(pkey) = {} /\ status = NOWORKER /\ UNCHANGED tables
  \/ \E i \in AvailableWorkers(pkey) :
       /\ status = SUCCESS /\ ~ViolatesTaskIndex(pkey, taskID)
       /\ NewTask(taskID, Worker[i].WorkerID, PENDING, pkey)
       /\ UNCHANGED Worker

SelectSinglePartitionedTaskWorker(pkey, taskID, status) ==
  \/ /\ AvailableWorkers(pkey) = {}
     /\ status = NOWORKER
     /\ UNCHANGED tables
  \/ \E i \in AvailableWorkers(pkey) :
       /\ status = SUCCESS
       /\ ~ViolatesTaskIndex(pkey, taskID)
       /\ NewTask(taskID, Worker[i].WorkerID, PENDING, pkey)
       /\ SetCapacity(pkey, Worker[i].WorkerID, Worker[i].Capacity - 1)

\* Mutation of SelectWorker: the capacity is not written back.
SelectWorkerOnly(pkey, workerID) ==
  /\ UNCHANGED tables
  /\ \/ AvailableWorkers(pkey) = {} /\ workerID = -1
     \/ \E i \in AvailableWorkers(pkey) : workerID = Worker[i].WorkerID

SelectWorker(pkey, workerID) ==
  \/ AvailableWorkers(pkey) = {} /\ workerID = -1 /\ UNCHANGED tables
  \/ \E i \in AvailableWorkers(pkey) :
       /\ workerID = Worker[i].WorkerID
       /\ SetCapacity(pkey, workerID, Worker[i].Capacity - 1)
       /\ UNCHANGED Task

\* Mutation of SelectOrderedWorker: ORDER BY Capacity without DESC.
SelectLeastWorker(pkey, taskID, workerID) ==
  \/ AvailableWorkers(pkey) = {} /\ workerID = -1 /\ UNCHANGED tables
  \/ \E i \in AvailableWorkers(pkey) :
       /\ \A k \in AvailableWorkers(pkey) : Worker[k].Capacity >= Worker[i].Capacity
       /\ workerID = Worker[i].WorkerID
       /\ ~ViolatesTaskIndex(pkey, taskID)
       /\ NewTask(taskID, workerID, PENDING, pkey)
       /\ SetCapacity(pkey, workerID, Worker[i].Capacity - 1)

\* ORDER BY Capacity DESC: one of the workers with the most capacity.
SelectOrderedWorker(pkey, taskID, workerID) ==
  \/ AvailableWorkers(pkey) = {} /\ workerID = -1 /\ UNCHANGED tables
  \/ \E i \in AvailableWorkers(pkey) :
       /\ \A k \in AvailableWorkers(pkey) : Worker[k].Capacity <= Worker[i].Capacity
       /\ workerID = Worker[i].WorkerID
       /\ ~ViolatesTaskIndex(pkey, taskID)
       /\ NewTask(taskID, workerID, PENDING, pkey)
       /\ SetCapacity(pkey, workerID, Worker[i].Capacity - 1)
-----------------------------------------------------------------------------
(* Tasks that are inserted first and assigned to a worker later.           *)

InsertTask(taskID, workerID, state, pkey) ==
  /\ ~ViolatesTaskIndex(pkey, taskID)
  /\ NewTask(taskID, workerID, state, pkey)
  /\ UNCHANGED Worker

\* UPDATE Task SET WorkerID=? WHERE PKey IN pkeys AND TaskID=?
SetTaskWorker(pkeys, taskID, workerID) ==
  Task' = [j \in DOMAIN Task |->
             IF Task[j].PKey \in pkeys /\ Task[j].TaskID = taskID
             THEN [Task[j] EXCEPT !.WorkerID = workerID]
             ELSE Task[j]]

\* Any task of the partition, assigned already or not, and any worker of it.
SelectPartitionedTaskWorker(pkey, status) ==
  LET tasks == {j \in DOMAIN Task : Task[j].PKey = pkey} IN
  \/ tasks = {} /\ status = NOTASK /\ UNCHANGED tables
  \/ tasks # {} /\ AvailableWorkers(pkey) = {} /\ status = NOWORKER /\ UNCHANGED tables
  \/ \E j \in tasks, i \in AvailableWorkers(pkey) :
       /\ status = SUCCESS
       /\ SetCapacity(pkey, Worker[i].WorkerID, Worker[i].Capacity - 1)
       /\ SetTaskWorker({pkey}, Task[j].TaskID, Worker[i].WorkerID)

AllPKeys == 0 .. Partitions - 1

\* Mutation of SelectTaskWorker: the capacity is not taken.
SelectTaskOnly(status) ==
  LET available == UNION {AvailableWorkers(p) : p \in AllPKeys} IN
  \/ Task = <<>> /\ status = NOTASK /\ UNCHANGED tables
  \/ Task # <<>> /\ available = {} /\ status = NOWORKER /\ UNCHANGED tables
  \/ \E j \in DOMAIN Task, i \in available :
       /\ status = SUCCESS
       /\ SetTaskWorker(AllPKeys, Task[j].TaskID, Worker[i].WorkerID)
       /\ UNCHANGED Worker

\* The same over all partitions.  A worker's id determines its partition.
SelectTaskWorker(status) ==
  LET available == UNION {AvailableWorkers(p) : p \in AllPKeys} IN
  \/ Task = <<>> /\ status = NOTASK /\ UNCHANGED tables
  \/ Task # <<>> /\ available = {} /\ status = NOWORKER /\ UNCHANGED tables
  \/ \E j \in DOMAIN Task, i \in available :
       /\ status = SUCCESS
       /\ SetCapacity(Worker[i].PKey, Worker[i].WorkerID, Worker[i].Capacity - 1)
       /\ SetTaskWorker(AllPKeys, Task[j].TaskID, Worker[i].WorkerID)

\* SELECT WorkerID ... GROUP BY WorkerID ORDER BY COUNT(*) DESC LIMIT 1, over
\* the rows of some partitions that have a worker.
MostTasks(pkeys, workerID) ==
  LET rows     == {j \in DOMAIN Task : Task[j].PKey \in pkeys /\ Task[j].WorkerID >= 0}
      count(w) == Cardinality({j \in rows : Task[j].WorkerID = w})
  IN  \/ rows = {} /\ workerID = NOWORKER
      \/ \E j \in rows : /\ workerID = Task[j].WorkerID
                         /\ \A k \in rows : count(Task[k].WorkerID) <= count(workerID)

ScanPartitionedTaskWorker(pkey, workerID) == MostTasks({pkey}, workerID) /\ UNCHANGED tables

ScanTaskWorker(workerID) == MostTasks(AllPKeys, workerID) /\ UNCHANGED tables
-----------------------------------------------------------------------------
(* What a worker does to the tasks assigned to it.                         *)

\* UPDATE Task SET State=? WHERE PKey=? AND TaskID IN ids AND WorkerID=?
SetTaskState(pkey, workerID, ids, state) ==
  Task' = [j \in DOMAIN Task |->
             IF /\ Task[j].PKey = pkey
                /\ Task[j].TaskID \in ids
                /\ Task[j].WorkerID = workerID
             THEN [Task[j] EXCEPT !.State = state]
             ELSE Task[j]]

\* SELECT TaskID FROM Task WHERE PKey=? AND WorkerID=? AND State=1
PendingTasks(pkey, workerID) ==
  {Task[j].TaskID : j \in {k \in DOMAIN Task : /\ Task[k].PKey = pkey
                                              /\ Task[k].WorkerID = workerID
                                              /\ Task[k].State = PENDING}}

\* Mutations of WorkerSelectTask: the tasks stay PENDING; one task too few.
SelectWithoutUpdate(pkey, workerID, topk, ids) ==
  /\ ids \subseteq PendingTasks(pkey, workerID) /\ Cardinality(ids) <= topk
  /\ UNCHANGED tables

SelectOneLess(pkey, workerID, topk, ids) ==
  /\ ids \subseteq PendingTasks(pkey, workerID) /\ Cardinality(ids) < topk
  /\ SetTaskState(pkey, workerID, ids, RUNNING)
  /\ UNCHANGED Worker

\* ids are the task ids returned: as many pending tasks as LIMIT topk allows.
WorkerSelectTask(pkey, workerID, topk, ids) ==
  LET pending == PendingTasks(pkey, workerID) IN
  /\ ids \subseteq pending
  /\ \/ Cardinality(ids) = topk
     \/ Cardinality(ids) < topk /\ ids = pending
  /\ SetTaskState(pkey, workerID, ids, RUNNING)
  /\ UNCHANGED Worker

\* Mutation of WorkerUpdateTask: the capacity is not given back.
UpdateStateOnly(pkey, workerID, taskID, state) ==
  SetTaskState(pkey, workerID, {taskID}, state) /\ UNCHANGED Worker

WorkerUpdateTask(pkey, workerID, taskID, state) ==
  /\ SetTaskState(pkey, workerID, {taskID}, state)
  /\ Worker' = [i \in DOMAIN Worker |->
                  IF /\ state = COMPLETE
                     /\ Worker[i].PKey = pkey
                     /\ Worker[i].WorkerID = workerID
                  THEN [Worker[i] EXCEPT !.Capacity = @ + 1]
                  ELSE Worker[i]]
=============================================================================
