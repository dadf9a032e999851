-------------------------- MODULE PartitionedProofs --------------------------
(***************************************************************************)
(* Proofs about PartitionedSchedulers, for the algorithms that have no     *)
(* worker programs: capacity is only taken, never given back.              *)
(***************************************************************************)
EXTENDS PartitionedSchedulers, FiniteSetTheorems, NaturalsInduction, TLAPS

NoWorkerPrograms == "push-fifo" \notin Algorithms

(* The operators.                                                          *)

LEMMA MapOfSeq ==
  ASSUME NEW S, NEW s, s \in Seq(S), NEW T, NEW f, f = [i \in DOMAIN s |-> f[i]],
         \A i \in DOMAIN s : f[i] \in T
  PROVE  f \in Seq(T) /\ Len(f) = Len(s) /\ DOMAIN f = DOMAIN s
<1>1. DOMAIN s = 1 .. Len(s) /\ Len(s) \in Nat
  OBVIOUS
<1>2. f \in [1 .. Len(s) -> T]
  BY <1>1
<1> QED BY <1>1, <1>2

LEMMA DivMod ==
  ASSUME NEW a \in Nat, NEW n \in Nat \ {0}
  PROVE  a = n * (a \div n) + (a % n) /\ a \div n \in Nat
OBVIOUS

LEMMA LeastOfTwo ==
  ASSUME NEW a \in Nat, NEW b \in Nat
  PROVE  Least({a, b}) = IF a <= b THEN a ELSE b
BY DEF Least

LEMMA LeastOfThree ==
  ASSUME NEW a \in Nat, NEW b \in Nat, NEW c \in Nat
  PROVE  Least({a, b, c}) \in {a, b, c} /\ \A x \in {a, b, c} : Least({a, b, c}) <= x
<1>1. \E x \in {a, b, c} : \A y \in {a, b, c} : x <= y
  <2>1. CASE a <= b /\ a <= c
    BY <2>1
  <2>2. CASE b <= a /\ b <= c
    BY <2>2
  <2>3. CASE c <= a /\ c <= b
    BY <2>3
  <2> QED BY <2>1, <2>2, <2>3
<1> QED BY <1>1 DEF Least

LEMMA MostOfTwo ==
  ASSUME NEW a \in Nat, NEW b \in Nat
  PROVE  Most({a, b}) = IF a <= b THEN b ELSE a
BY DEF Most

LEMMA ActiveRange ==
  ASSUME scheduleAlgo \in Algorithms, numTasks \in NumTasks
  PROVE  /\ ActivePartitions \in Nat \ {0} /\ ActivePartitions <= Partitions
         /\ scheduleAlgo \in {"fifo", "fifo-local"} =>
              ActivePartitions = IF Partitions <= NumWorkers THEN Partitions ELSE NumWorkers
<1>1. /\ Partitions \in Nat \ {0} /\ NumWorkers \in Nat \ {0} /\ numTasks \in Nat \ {0}
      /\ scheduleAlgo \in {"fifo", "fifo-local", "fifo-task", "scan-task", "push-fifo"}
  BY TablesAssumption, PartitionedAssumption
<1>2. CASE scheduleAlgo \in {"fifo", "fifo-local"}
  BY <1>1, <1>2, LeastOfTwo DEF ActivePartitions
<1>3. CASE scheduleAlgo = "fifo-task"
  <2>1. Most({NumWorkers, numTasks}) \in Nat \ {0}
    BY <1>1, MostOfTwo
  <2> QED BY <1>1, <1>3, <2>1, LeastOfTwo DEF ActivePartitions
<1>4. CASE scheduleAlgo = "scan-task"
  BY <1>1, <1>4, LeastOfThree DEF ActivePartitions
<1>5. CASE scheduleAlgo = "push-fifo"
  BY <1>1, <1>5 DEF ActivePartitions
<1> QED BY <1>1, <1>2, <1>3, <1>4, <1>5

LEMMA PKeyOfRange ==
  ASSUME NEW w \in Nat
  PROVE  PKeyOf(w) \in AllPKeys
BY TablesAssumption DEF PKeyOf, AllPKeys

\* The workers lie in the partitions that the first two algorithms ask.
LEMMA PKeyActive ==
  ASSUME scheduleAlgo \in Algorithms, numTasks \in NumTasks,
         scheduleAlgo \in {"fifo", "fifo-local"}, NEW w \in Workers
  PROVE  PKeyOf(w) \in 0 .. ActivePartitions - 1
<1>1. ActivePartitions = IF Partitions <= NumWorkers THEN Partitions ELSE NumWorkers
  BY ActiveRange
<1>2. Partitions \in Nat \ {0} /\ NumWorkers \in Nat \ {0} /\ w \in Nat /\ w < NumWorkers
  BY TablesAssumption DEF Workers
<1>3. CASE Partitions <= NumWorkers
  BY <1>1, <1>2, <1>3 DEF PKeyOf
<1>4. CASE ~(Partitions <= NumWorkers)
  <2>1. w < Partitions /\ w % Partitions = w
    BY <1>2, <1>4
  <2> QED BY <1>1, <1>2, <1>4, <2>1 DEF PKeyOf
<1> QED BY <1>3, <1>4
-----------------------------------------------------------------------------
(* What an invocation does to the tables.                                  *)

PTaskRow == [TaskID : Nat, WorkerID : Workers \cup {-1}, State : {PENDING}, PKey : AllPKeys]

LEMMA TaskRows ==
  ASSUME PartitionedTypeOK
  PROVE  Task \in Seq(PTaskRow) /\ \A j \in DOMAIN Task : Task[j] \in PTaskRow
<1>1. Task \in Seq(PTaskRow)
  BY DEF PartitionedTypeOK, PTaskRow
<1> QED BY <1>1

Takes(i) ==
  /\ i \in DOMAIN Worker /\ Worker[i].Capacity > 0
  /\ Worker' \in Seq(WorkerRow) /\ Len(Worker') = Len(Worker) /\ DOMAIN Worker' = DOMAIN Worker
  /\ Worker'[i].Capacity = Worker[i].Capacity - 1
  /\ \A k \in DOMAIN Worker : /\ Worker'[k].WorkerID = Worker[k].WorkerID
                              /\ Worker'[k].PKey = Worker[k].PKey
                              /\ k # i => Worker'[k].Capacity = Worker[k].Capacity

LEMMA SetCapacityTakes ==
  ASSUME PartitionedTypeOK, RowsAsInserted, NEW i \in DOMAIN Worker, Worker[i].Capacity > 0,
         SetCapacity(Worker[i].PKey, Worker[i].WorkerID, Worker[i].Capacity - 1)
  PROVE  Takes(i)
<1>1. Worker \in Seq(WorkerRow) /\ \A k \in DOMAIN Worker : Worker[k] \in WorkerRow /\ k \in Nat
  BY DEF PartitionedTypeOK
<1>2. \A k \in DOMAIN Worker : Worker[k].WorkerID = Worker[i].WorkerID => k = i
  BY <1>1 DEF RowsAsInserted
<1>3. Worker[i].Capacity - 1 \in Int
  BY <1>1 DEF WorkerRow
<1>4. Worker' = [k \in DOMAIN Worker |-> Worker'[k]]
  BY DEF SetCapacity
<1>5. \A k \in DOMAIN Worker : Worker'[k] \in WorkerRow
  BY <1>1, <1>3 DEF SetCapacity, WorkerRow
<1>6. Worker' \in Seq(WorkerRow) /\ Len(Worker') = Len(Worker) /\ DOMAIN Worker' = DOMAIN Worker
  BY <1>1, <1>4, <1>5, MapOfSeq
<1>7. \A k \in DOMAIN Worker :
        /\ Worker'[k].WorkerID = Worker[k].WorkerID /\ Worker'[k].PKey = Worker[k].PKey
        /\ Worker'[k].Capacity = IF k = i THEN Worker[k].Capacity - 1 ELSE Worker[k].Capacity
  BY <1>1, <1>2 DEF SetCapacity, WorkerRow
<1> QED BY <1>6, <1>7 DEF Takes

\* Worker i gets a new task, or task j of those inserted before.
Places(t, i) ==
  /\ scheduleAlgo = "fifo-local"
  /\ Task' = Append(Task, [TaskID |-> taskID[t], WorkerID |-> i - 1, State |-> PENDING,
                           PKey |-> PKeyOf(i - 1)])

Assigns(i, j) ==
  /\ scheduleAlgo = "fifo-task" /\ j \in DOMAIN Task
  /\ Task' = [k \in DOMAIN Task |-> IF k = j THEN [Task[k] EXCEPT !.WorkerID = i - 1] ELSE Task[k]]

LEMMA AssignsOne ==
  ASSUME PartitionedTypeOK, RowsAsInserted, scheduleAlgo = "fifo-task", NEW pkeys,
         NEW j \in DOMAIN Task, Task[j].PKey \in pkeys, NEW i \in DOMAIN Worker,
         SetTaskWorker(pkeys, Task[j].TaskID, Worker[i].WorkerID)
  PROVE  Assigns(i, j)
<1>1. \A k \in DOMAIN Task : Task[k].TaskID = k - 1 /\ k \in Nat
  BY DEF RowsAsInserted, Prefills, PartitionedTypeOK
<1>2. \A k \in DOMAIN Task : Task[k].TaskID = Task[j].TaskID <=> k = j
  BY <1>1
<1>3. Worker[i].WorkerID = i - 1
  BY DEF RowsAsInserted
<1>4. \A k \in DOMAIN Task :
        (IF Task[k].PKey \in pkeys /\ Task[k].TaskID = Task[j].TaskID
         THEN [Task[k] EXCEPT !.WorkerID = Worker[i].WorkerID] ELSE Task[k])
        = IF k = j THEN [Task[k] EXCEPT !.WorkerID = i - 1] ELSE Task[k]
  BY <1>2, <1>3
<1> QED BY <1>4 DEF SetTaskWorker, Assigns

LEMMA InvokeCases ==
  ASSUME PartitionedTypeOK, RowsAsInserted, ThreadsOfAlgorithm, NoWorkerPrograms,
         NEW t \in Threads, Asking(t), NEW result, Invoke(t, result)
  PROVE  \/ UNCHANGED tables
         \/ \E i \in DOMAIN Worker : Takes(i) /\ (\/ Task' = Task /\ scheduleAlgo # "fifo-local"
                                                  \/ Places(t, i)
                                                  \/ \E j \in DOMAIN Task : Assigns(i, j))
<1>1. scheduleAlgo \in {"fifo", "fifo-local", "fifo-task", "scan-task"}
  BY PartitionedAssumption DEF PartitionedTypeOK, NoWorkerPrograms
<1>2. \A i \in DOMAIN Worker : Worker[i].WorkerID = i - 1 /\ Worker[i].PKey = PKeyOf(i - 1)
  BY DEF RowsAsInserted
<1>3. \A j \in DOMAIN Task : Task[j].PKey \in AllPKeys
  BY TaskRows DEF PTaskRow
<1>4. \/ pc[t] = "probe"
      \/ pc[t] = "all" /\ scheduleAlgo \in {"fifo-task", "scan-task"}
  BY DEF Asking, ThreadsOfAlgorithm, Prefills
<1>5. CASE scheduleAlgo = "fifo"
  <2>1. SelectWorker(probe[t].pkey, result)
    BY <1>4, <1>5 DEF Invoke
  <2> QED BY <1>5, <2>1, SetCapacityTakes DEF SelectWorker, AvailableWorkers
<1>6. CASE scheduleAlgo = "fifo-local"
  <2>1. SelectOrderedWorker(probe[t].pkey, taskID[t], result)
    BY <1>4, <1>6 DEF Invoke
  <2>2. \/ UNCHANGED tables
        \/ \E i \in DOMAIN Worker :
             /\ Worker[i].PKey = probe[t].pkey /\ Worker[i].Capacity > 0
             /\ NewTask(taskID[t], Worker[i].WorkerID, PENDING, Worker[i].PKey)
             /\ SetCapacity(Worker[i].PKey, Worker[i].WorkerID, Worker[i].Capacity - 1)
    BY <2>1 DEF SelectOrderedWorker, AvailableWorkers
  <2>3. ASSUME NEW i \in DOMAIN Worker, NewTask(taskID[t], Worker[i].WorkerID, PENDING, Worker[i].PKey)
        PROVE  Places(t, i)
    BY <1>2, <1>6, <2>3 DEF NewTask, Places
  <2> QED BY <2>2, <2>3, SetCapacityTakes
<1>7. CASE scheduleAlgo = "fifo-task" /\ pc[t] = "probe"
  <2>1. SelectPartitionedTaskWorker(probe[t].pkey, result)
    BY <1>7 DEF Invoke
  <2>2. \/ UNCHANGED tables
        \/ \E i \in DOMAIN Worker, j \in DOMAIN Task :
             /\ Worker[i].Capacity > 0 /\ Task[j].PKey \in {probe[t].pkey}
             /\ SetCapacity(Worker[i].PKey, Worker[i].WorkerID, Worker[i].Capacity - 1)
             /\ SetTaskWorker({probe[t].pkey}, Task[j].TaskID, Worker[i].WorkerID)
    BY <2>1 DEF SelectPartitionedTaskWorker, AvailableWorkers
  <2> QED BY <1>7, <2>2, SetCapacityTakes, AssignsOne
<1>8. CASE scheduleAlgo = "fifo-task" /\ pc[t] = "all"
  <2>1. SelectTaskWorker(result)
    BY <1>8 DEF Invoke
  <2>2. \/ UNCHANGED tables
        \/ \E i \in DOMAIN Worker, j \in DOMAIN Task :
             /\ Worker[i].Capacity > 0
             /\ SetCapacity(Worker[i].PKey, Worker[i].WorkerID, Worker[i].Capacity - 1)
             /\ SetTaskWorker(AllPKeys, Task[j].TaskID, Worker[i].WorkerID)
    BY <2>1 DEF SelectTaskWorker, AvailableWorkers
  <2> QED BY <1>3, <1>8, <2>2, SetCapacityTakes, AssignsOne
<1>9. CASE scheduleAlgo = "scan-task"
  <2>1. ScanPartitionedTaskWorker(probe[t].pkey, result) \/ ScanTaskWorker(result)
    BY <1>4, <1>9 DEF Invoke
  <2> QED BY <2>1 DEF ScanPartitionedTaskWorker, ScanTaskWorker
<1> QED BY <1>1, <1>4, <1>5, <1>6, <1>7, <1>8, <1>9

\* Capacities fall, and rows stay.
Falls ==
  /\ DOMAIN Worker' = DOMAIN Worker
  /\ \A i \in DOMAIN Worker : /\ Worker'[i].PKey = Worker[i].PKey
                              /\ Worker[i].Capacity = 0 => Worker'[i].Capacity = 0

TasksOf(v) == {j \in DOMAIN Task : Task[j].WorkerID = v}

Paid(i) ==
  /\ Cardinality(TasksOf(i - 1)) <= WorkerCapacity - Worker[i].Capacity
  /\ scheduleAlgo = "fifo-local" => Cardinality(TasksOf(i - 1)) = WorkerCapacity - Worker[i].Capacity

LEMMA PaidIs ==
  ASSUME RowsAsInserted
  PROVE  /\ mainPc # "done" => (TasksCostCapacity <=> \A i \in DOMAIN Worker : Paid(i))
         /\ (\A i \in DOMAIN Worker : Paid(i)) => TasksCostCapacity
<1>1. \A i \in DOMAIN Worker : Worker[i].WorkerID = i - 1
  BY DEF RowsAsInserted
<1> QED BY <1>1 DEF TasksCostCapacity, Paid, TasksOf

LEMMA TasksOfFinite ==
  ASSUME PartitionedTypeOK, NEW v
  PROVE  IsFiniteSet(TasksOf(v)) /\ Cardinality(TasksOf(v)) \in Nat
<1>1. DOMAIN Task = 1 .. Len(Task) /\ Len(Task) \in Nat
  BY TaskRows
<1>2. IsFiniteSet(1 .. Len(Task))
  BY <1>1, FS_Interval
<1>3. TasksOf(v) \subseteq 1 .. Len(Task)
  BY <1>1 DEF TasksOf
<1> QED BY <1>2, <1>3, FS_Subset, FS_CardinalityType

LEMMA TakesFalls ==
  ASSUME PartitionedTypeOK, RowsAsInserted, NEW i, Takes(i)
  PROVE  /\ Falls /\ Len(Worker') <= NumWorkers /\ Worker' \in Seq(WorkerRow)
         /\ \A k \in DOMAIN Worker' : /\ Worker'[k].WorkerID = k - 1 /\ Worker'[k].PKey = PKeyOf(k - 1)
                                      /\ Worker'[k].Capacity \in 0 .. WorkerCapacity
<1>1. \A k \in DOMAIN Worker : /\ Worker[k].WorkerID = k - 1 /\ Worker[k].PKey = PKeyOf(k - 1)
                               /\ Worker[k].Capacity \in 0 .. WorkerCapacity
  BY DEF RowsAsInserted
<1>2. WorkerCapacity \in Nat
  BY PartitionedAssumption
<1>3. \A k \in DOMAIN Worker' : /\ Worker'[k].WorkerID = k - 1 /\ Worker'[k].PKey = PKeyOf(k - 1)
                                /\ Worker'[k].Capacity \in 0 .. WorkerCapacity
  <2>1. TAKE k \in DOMAIN Worker'
  <2>2. k \in DOMAIN Worker /\ Worker'[k].WorkerID = k - 1 /\ Worker'[k].PKey = PKeyOf(k - 1)
    BY <1>1 DEF Takes
  <2>3. CASE k = i
    <3>1. Worker'[k].Capacity = Worker[k].Capacity - 1 /\ Worker[k].Capacity > 0
      BY <2>3 DEF Takes
    <3>2. Worker[k].Capacity \in 0 .. WorkerCapacity
      BY <1>1, <2>2
    <3> QED BY <1>2, <2>2, <3>1, <3>2
  <2>4. CASE k # i
    BY <1>1, <2>2, <2>4 DEF Takes
  <2> QED BY <2>3, <2>4
<1>4. Falls
  BY DEF Takes, Falls
<1> QED BY <1>3, <1>4 DEF Takes, RowsAsInserted

\* The worker whose capacity is taken pays for the task it gets.
LEMMA TakesPaid ==
  ASSUME PartitionedTypeOK, RowsAsInserted, \A k \in DOMAIN Worker : Paid(k),
         NEW i, Takes(i), UNCHANGED scheduleAlgo,
         \A k \in DOMAIN Worker :
           /\ Cardinality(TasksOf(k - 1)') <= Cardinality(TasksOf(k - 1)) + (IF k = i THEN 1 ELSE 0)
           /\ scheduleAlgo = "fifo-local" =>
                Cardinality(TasksOf(k - 1)') = Cardinality(TasksOf(k - 1)) + (IF k = i THEN 1 ELSE 0),
         \A k \in DOMAIN Worker : Cardinality(TasksOf(k - 1)') \in Nat
  PROVE  \A k \in DOMAIN Worker' : Paid(k)'
<1> SUFFICES ASSUME NEW k \in DOMAIN Worker PROVE Paid(k)'
  BY DEF Takes
<1>1. PICK c \in Nat, d \in Nat : c = Cardinality(TasksOf(k - 1)) /\ d = Cardinality(TasksOf(k - 1)')
  BY TasksOfFinite
<1>2. WorkerCapacity \in Nat /\ Worker[k].Capacity \in Int
  BY PartitionedAssumption DEF RowsAsInserted
<1>3. Worker'[k].Capacity = Worker[k].Capacity - (IF k = i THEN 1 ELSE 0)
  BY <1>2 DEF Takes
<1>4. /\ c <= WorkerCapacity - Worker[k].Capacity
      /\ scheduleAlgo = "fifo-local" => c = WorkerCapacity - Worker[k].Capacity
  BY <1>1 DEF Paid
<1>5. /\ d <= c + (IF k = i THEN 1 ELSE 0)
      /\ scheduleAlgo = "fifo-local" => d = c + (IF k = i THEN 1 ELSE 0)
  BY <1>1
<1>6. /\ d <= WorkerCapacity - Worker'[k].Capacity
      /\ scheduleAlgo = "fifo-local" => d = WorkerCapacity - Worker'[k].Capacity
  BY <1>2, <1>3, <1>4, <1>5
<1> QED BY <1>1, <1>6 DEF Paid

LEMMA PlacesTask ==
  ASSUME PartitionedTypeOK, RowsAsInserted, NEW t \in Threads, NEW i \in DOMAIN Worker,
         Places(t, i)
  PROVE  /\ Task' \in Seq(PTaskRow) /\ Task' # <<>>
         /\ \A v \in Nat : /\ IsFiniteSet(TasksOf(v)')
                           /\ Cardinality(TasksOf(v)') =
                                Cardinality(TasksOf(v)) + (IF v = i - 1 THEN 1 ELSE 0)
<1>1. i - 1 \in Workers
  BY TablesAssumption DEF RowsAsInserted, PartitionedTypeOK, Workers
<1>2. PICK row : /\ row = [TaskID |-> taskID[t], WorkerID |-> i - 1, State |-> PENDING,
                           PKey |-> PKeyOf(i - 1)]
                 /\ Task' = Append(Task, row)
  BY DEF Places
<1>3. row \in PTaskRow /\ row.WorkerID = i - 1
  <2>1. taskID[t] \in Nat
    BY DEF PartitionedTypeOK
  <2>2. PKeyOf(i - 1) \in AllPKeys
    BY <1>1, PKeyOfRange DEF Workers
  <2> QED BY <1>1, <1>2, <2>1, <2>2 DEF PTaskRow
<1>4. Task \in Seq(PTaskRow)
  BY TaskRows
<1>5. PICK n : n = Len(Task) + 1
  OBVIOUS
<1>6. /\ Task' \in Seq(PTaskRow) /\ Task' # <<>>
      /\ DOMAIN Task' = DOMAIN Task \cup {n} /\ n \notin DOMAIN Task
      /\ \A j \in DOMAIN Task : Task'[j] = Task[j]
      /\ Task'[n] = row
  BY <1>2, <1>3, <1>4, <1>5
<1>7. ASSUME NEW v \in Nat
      PROVE  /\ IsFiniteSet(TasksOf(v)')
             /\ Cardinality(TasksOf(v)') = Cardinality(TasksOf(v)) + (IF v = i - 1 THEN 1 ELSE 0)
  <2>1. CASE v = i - 1
    <3>1. TasksOf(v)' = TasksOf(v) \cup {n} /\ n \notin TasksOf(v)
      BY <1>3, <1>6, <2>1 DEF TasksOf
    <3> QED BY <2>1, <3>1, TasksOfFinite, FS_AddElement
  <2>2. CASE v # i - 1
    <3>1. TasksOf(v)' = TasksOf(v)
      BY <1>3, <1>6, <2>2 DEF TasksOf
    <3>2. Cardinality(TasksOf(v)) \in Nat /\ IsFiniteSet(TasksOf(v))
      BY TasksOfFinite
    <3> QED BY <2>2, <3>1, <3>2
  <2> QED BY <2>1, <2>2
<1> QED BY <1>6, <1>7

LEMMA AssignsTask ==
  ASSUME PartitionedTypeOK, RowsAsInserted, NEW i \in DOMAIN Worker, NEW j, Assigns(i, j)
  PROVE  /\ Task' \in Seq(PTaskRow) /\ Task' # <<>>
         /\ \A k \in DOMAIN Task' : k \in DOMAIN Task /\ Task'[k].TaskID = Task[k].TaskID
         /\ \A v \in Nat : /\ IsFiniteSet(TasksOf(v)')
                           /\ Cardinality(TasksOf(v)') <=
                                Cardinality(TasksOf(v)) + (IF v = i - 1 THEN 1 ELSE 0)
<1>1. i - 1 \in Workers
  BY TablesAssumption DEF RowsAsInserted, PartitionedTypeOK, Workers
<1>2. Task \in Seq(PTaskRow) /\ \A k \in DOMAIN Task : Task[k] \in PTaskRow
  BY TaskRows
<1>3. j \in DOMAIN Task /\ Task' = [k \in DOMAIN Task |-> Task'[k]]
      /\ Task'[j] = [Task[j] EXCEPT !.WorkerID = i - 1]
      /\ \A k \in DOMAIN Task : k # j => Task'[k] = Task[k]
  BY DEF Assigns
<1>4. Task'[j] \in PTaskRow /\ Task'[j].WorkerID = i - 1 /\ Task'[j].TaskID = Task[j].TaskID
  BY <1>1, <1>2, <1>3 DEF PTaskRow
<1>5. \A k \in DOMAIN Task : Task'[k] \in PTaskRow
  BY <1>2, <1>3, <1>4
<1>6. Task' \in Seq(PTaskRow) /\ DOMAIN Task' = DOMAIN Task
  BY <1>2, <1>3, <1>5, MapOfSeq
<1>7. ASSUME NEW v \in Nat
      PROVE  /\ IsFiniteSet(TasksOf(v)')
             /\ Cardinality(TasksOf(v)') <= Cardinality(TasksOf(v)) + (IF v = i - 1 THEN 1 ELSE 0)
  <2>0. IsFiniteSet(TasksOf(v)) /\ Cardinality(TasksOf(v)) \in Nat
    BY TasksOfFinite
  <2>1. CASE v = i - 1
    <3>1. TasksOf(v)' = TasksOf(v) \cup {j}
      BY <1>3, <1>4, <1>6, <2>1 DEF TasksOf
    <3>2. IsFiniteSet(TasksOf(v) \cup {j}) /\ (\/ Cardinality(TasksOf(v) \cup {j}) = Cardinality(TasksOf(v))
          \/ Cardinality(TasksOf(v) \cup {j}) = Cardinality(TasksOf(v)) + 1)
      BY <2>0, FS_AddElement
    <3>3. PICK c \in Nat : c = Cardinality(TasksOf(v))
      BY <2>0
    <3>4. Cardinality(TasksOf(v)') <= c + 1
      BY <3>1, <3>2, <3>3
    <3> QED BY <2>1, <3>1, <3>2, <3>3, <3>4
  <2>2. CASE v # i - 1
    <3>1. TasksOf(v)' \subseteq TasksOf(v)
      BY <1>3, <1>4, <1>6, <2>2 DEF TasksOf
    <3>2. IsFiniteSet(TasksOf(v)') /\ Cardinality(TasksOf(v)') <= Cardinality(TasksOf(v))
      BY <2>0, <3>1, FS_Subset
    <3>3. Cardinality(TasksOf(v)') \in Nat
      BY <3>2, FS_CardinalityType
    <3> QED BY <2>0, <2>2, <3>2, <3>3
  <2> QED BY <2>1, <2>2
<1>8. Task' # <<>>
  BY <1>3, <1>6
<1> QED BY <1>3, <1>4, <1>6, <1>7, <1>8

\* What an invocation leaves true of the tables.
TablesGood ==
  /\ Worker' \in Seq(WorkerRow) /\ Task' \in Seq(PTaskRow)
  /\ RowsAsInserted' /\ TasksCostCapacity'
  /\ Falls
  /\ Task # <<>> => Task' # <<>>
  /\ ~HasWorkers => Task' = Task

LEMMA StillTables ==
  ASSUME PartitionedInv, UNCHANGED tables, UNCHANGED options,
         mainPc' # "done" => mainPc # "done"
  PROVE  TablesGood
<1>1. PartitionedTypeOK /\ RowsAsInserted /\ TasksCostCapacity
  BY DEF PartitionedInv
<1>2. Worker' = Worker /\ Task' = Task /\ scheduleAlgo' = scheduleAlgo /\ numTasks' = numTasks
  BY DEF tables, options
<1>3. RowsAsInserted'
  BY <1>1, <1>2 DEF RowsAsInserted, Prefills, HasWorkers, HasTasks
<1>4. TasksCostCapacity'
  BY <1>1, <1>2 DEF TasksCostCapacity
<1>5. Falls
  BY <1>2 DEF Falls
<1> QED BY <1>1, <1>2, <1>3, <1>4, <1>5, TaskRows DEF TablesGood, PartitionedTypeOK

LEMMA InvokeTables ==
  ASSUME PartitionedInv, NoWorkerPrograms, NEW t \in Threads, Asking(t), NEW result,
         Invoke(t, result), UNCHANGED options, mainPc # "done"
  PROVE  TablesGood
<1>1. /\ PartitionedTypeOK /\ RowsAsInserted /\ ThreadsOfAlgorithm
      /\ \A k \in DOMAIN Worker : Paid(k)
  BY PaidIs DEF PartitionedInv
<1>2. scheduleAlgo' = scheduleAlgo
  BY DEF options
<1>3. CASE UNCHANGED tables
  BY <1>3, StillTables
<1>4. ASSUME NEW i \in DOMAIN Worker, Takes(i),
             Task' \in Seq(PTaskRow), Task # <<>> => Task' # <<>>, ~HasTasks => Task' = <<>>,
             Prefills => \A j \in DOMAIN Task' : Task'[j].TaskID = j - 1,
             \A k \in DOMAIN Worker :
               /\ Cardinality(TasksOf(k - 1)') \in Nat
               /\ Cardinality(TasksOf(k - 1)') <= Cardinality(TasksOf(k - 1)) + (IF k = i THEN 1 ELSE 0)
               /\ scheduleAlgo = "fifo-local" =>
                    Cardinality(TasksOf(k - 1)') = Cardinality(TasksOf(k - 1)) + (IF k = i THEN 1 ELSE 0)
      PROVE  TablesGood
  <2>1. HasWorkers
    BY <1>1, <1>4 DEF RowsAsInserted
  <2>2. RowsAsInserted'
    BY <1>1, <1>2, <1>4, <2>1, TakesFalls DEF RowsAsInserted, HasWorkers, HasTasks, Prefills
  <2>3. \A k \in DOMAIN Worker' : Paid(k)'
    BY <1>1, <1>2, <1>4, TakesPaid
  <2>4. TasksCostCapacity'
    <3>1. \A k \in DOMAIN Worker' : Worker'[k].WorkerID = k - 1
      BY <2>2 DEF RowsAsInserted
    <3> QED BY <2>3, <3>1 DEF TasksCostCapacity, Paid, TasksOf
  <2> QED BY <1>1, <1>4, <2>1, <2>2, <2>4, TakesFalls DEF TablesGood
<1>5. \A k \in DOMAIN Worker : k - 1 \in Nat /\ k \in Nat
  BY <1>1 DEF PartitionedTypeOK
<1>6. ASSUME NEW i \in DOMAIN Worker, Takes(i), Task' = Task, scheduleAlgo # "fifo-local" PROVE TablesGood
  <2>1. \A k \in DOMAIN Worker : TasksOf(k - 1)' = TasksOf(k - 1)
    BY <1>6 DEF TasksOf
  <2>2. \A k \in DOMAIN Worker : Cardinality(TasksOf(k - 1)) \in Nat
    BY <1>1, TasksOfFinite
  <2>3. \A k \in DOMAIN Worker :
          /\ Cardinality(TasksOf(k - 1)') \in Nat
          /\ Cardinality(TasksOf(k - 1)') <= Cardinality(TasksOf(k - 1)) + (IF k = i THEN 1 ELSE 0)
    BY <2>1, <2>2
  <2> QED BY <1>1, <1>4, <1>6, <2>3, TaskRows DEF RowsAsInserted
<1>7. ASSUME NEW i \in DOMAIN Worker, Takes(i), Places(t, i) PROVE TablesGood
  <2>1. \A k \in DOMAIN Worker : (k - 1 = i - 1) <=> (k = i)
    BY <1>5
  <2>2. \A k \in DOMAIN Worker :
          /\ IsFiniteSet(TasksOf(k - 1)')
          /\ Cardinality(TasksOf(k - 1)') = Cardinality(TasksOf(k - 1)) + (IF k = i THEN 1 ELSE 0)
    BY <1>1, <1>5, <1>7, <2>1, PlacesTask
  <2>3. \A k \in DOMAIN Worker : Cardinality(TasksOf(k - 1)') \in Nat
    BY <2>2, FS_CardinalityType
  <2>4. HasTasks /\ ~Prefills
    BY <1>7 DEF Places, HasTasks, Prefills
  <2>5. Task' \in Seq(PTaskRow) /\ Task' # <<>>
    BY <1>1, <1>7, PlacesTask
  <2>6. \A k \in DOMAIN Worker :
           Cardinality(TasksOf(k - 1)') <= Cardinality(TasksOf(k - 1)) + (IF k = i THEN 1 ELSE 0)
    BY <2>2, <2>3
  <2> QED BY <1>4, <1>7, <2>2, <2>3, <2>4, <2>5, <2>6
<1>8. ASSUME NEW i \in DOMAIN Worker, Takes(i), NEW j, Assigns(i, j) PROVE TablesGood
  <2>1. \A k \in DOMAIN Worker : (k - 1 = i - 1) <=> (k = i)
    BY <1>5
  <2>2. \A k \in DOMAIN Worker :
          /\ IsFiniteSet(TasksOf(k - 1)')
          /\ Cardinality(TasksOf(k - 1)') <= Cardinality(TasksOf(k - 1)) + (IF k = i THEN 1 ELSE 0)
    BY <1>1, <1>5, <1>8, <2>1, AssignsTask
  <2>3. \A k \in DOMAIN Worker : Cardinality(TasksOf(k - 1)') \in Nat
    BY <2>2, FS_CardinalityType
  <2>4. scheduleAlgo = "fifo-task" /\ HasTasks /\ Prefills
    BY <1>8 DEF Assigns, HasTasks, Prefills
  <2>5. /\ Task' \in Seq(PTaskRow) /\ Task' # <<>>
        /\ \A k \in DOMAIN Task' : k \in DOMAIN Task /\ Task'[k].TaskID = Task[k].TaskID
    BY <1>1, <1>8, AssignsTask
  <2>6. \A k \in DOMAIN Task' : Task'[k].TaskID = k - 1
    BY <1>1, <2>4, <2>5 DEF RowsAsInserted
  <2> QED BY <1>4, <1>8, <2>2, <2>3, <2>4, <2>5, <2>6
<1> QED BY <1>1, <1>3, <1>6, <1>7, <1>8, InvokeCases
-----------------------------------------------------------------------------
(* What each thread knows of the tables.                                   *)

Busiest(a) ==
  \A w \in Workers : PKeyOf(w) = PKeyOf(a) => Cardinality(TasksOf(w)) <= Cardinality(TasksOf(a))

ThreadOK(u) ==
  /\ pc[u] = "probe" /\ ~Prefills =>
       \A i \in DOMAIN Worker : Worker[i].PKey \in Behind(probe[u]) => Worker[i].Capacity = 0
  /\ pc[u] = "gaveUp" => \A i \in DOMAIN Worker : Worker[i].Capacity = 0
  /\ pc[u] = "all" => Prefills
  /\ HasWorkers => answer[u] = -1
  /\ Alive /\ answer[u] >= 0 => Busiest(answer[u])

LEMMA InvIs ==
  PartitionedInv <=> /\ PartitionedTypeOK /\ RowsAsInserted /\ SetupInOrder /\ TasksCostCapacity
                     /\ \A u \in Threads : ThreadOK(u)
BY DEF PartitionedInv, ThreadOK, FullBehind, GivesUpOnlyWhenFull, ThreadsOfAlgorithm, ScanBusiest,
       Busiest, TasksOf

\* A thread that stays where it is, or goes where nothing is known.
LEMMA StillThread ==
  ASSUME PartitionedInv, NEW u \in Threads, TablesGood, UNCHANGED options,
         \/ pc'[u] = pc[u]
         \/ pc'[u] \notin {"probe", "all", "gaveUp"},
         probe'[u] = probe[u], answer'[u] = answer[u], Alive' => Alive
  PROVE  ThreadOK(u)'
<1>1. ThreadOK(u)
  BY InvIs
<1>2. scheduleAlgo' = scheduleAlgo /\ numTasks' = numTasks
  BY DEF options
<1>3. Behind(probe[u])' = Behind(probe[u])
  BY <1>2 DEF Behind, ActivePartitions
<1>4. /\ Prefills' = Prefills /\ HasWorkers' = HasWorkers
  BY <1>2 DEF Prefills, HasWorkers
<1>5. DOMAIN Worker' = DOMAIN Worker
      /\ \A i \in DOMAIN Worker : /\ Worker'[i].PKey = Worker[i].PKey
                                  /\ Worker[i].Capacity = 0 => Worker'[i].Capacity = 0
  BY DEF TablesGood, Falls
<1>6. pc'[u] = "probe" /\ ~Prefills' =>
        \A i \in DOMAIN Worker' : Worker'[i].PKey \in Behind(probe[u])' => Worker'[i].Capacity = 0
  BY <1>1, <1>3, <1>4, <1>5 DEF ThreadOK
<1>7. pc'[u] = "gaveUp" => \A i \in DOMAIN Worker' : Worker'[i].Capacity = 0
  BY <1>1, <1>5 DEF ThreadOK
<1>8. /\ pc'[u] = "all" => Prefills'
      /\ HasWorkers' => answer'[u] = -1
  BY <1>1, <1>4 DEF ThreadOK
<1>9. ASSUME Alive', answer'[u] >= 0 PROVE Busiest(answer[u])'
  <2>1. Task' = Task
    BY <1>1, <1>4, <1>9 DEF ThreadOK, TablesGood
  <2>2. Busiest(answer[u])
    BY <1>1, <1>9 DEF ThreadOK
  <2> QED BY <2>1, <2>2 DEF Busiest, TasksOf
<1> QED BY <1>6, <1>7, <1>8, <1>9 DEF ThreadOK

\* Every thread step ends with this.
LEMMA ThreadsMove ==
  ASSUME PartitionedInv, PartitionedTypeOK', TablesGood, UNCHANGED options, \A u \in Threads : ThreadOK(u)',
         ~SettingUp', mainPc' \in {"run", "join"} => Alive
  PROVE  PartitionedInv'
<1>1. scheduleAlgo' = scheduleAlgo
  BY DEF options
<1>2. SetupInOrder
  BY DEF PartitionedInv
<1>3. SetupInOrder'
  BY <1>1, <1>2 DEF SetupInOrder, SettingUp, TablesGood, Alive, Prefills
<1>4. RowsAsInserted' /\ TasksCostCapacity'
  BY DEF TablesGood
<1>5. (PartitionedTypeOK /\ RowsAsInserted /\ SetupInOrder /\ TasksCostCapacity
         /\ \A u \in Threads : ThreadOK(u))'
  BY <1>3, <1>4
<1> QED BY <1>5, InvIs, PTL
-----------------------------------------------------------------------------
(* The steps of the threads.                                               *)

LEMMA ThreadTables ==
  ASSUME PartitionedInv, NoWorkerPrograms, NEW t \in Threads, Thread(t) \/ LateCommit(t)
  PROVE  TablesGood /\ UNCHANGED options
<1>1. /\ UNCHANGED options /\ mainPc # "done" /\ mainPc' # "done"
  BY DEF Thread, NotItsTurn, Schedule, ArrayFull, Hit, MissPartition, MissAll, AssertFails,
         InvokeFails, LoopTest, LateCommit, Alive, mainVars
<1>2. \/ UNCHANGED tables
      \/ Asking(t) /\ \E result : Invoke(t, result)
  BY DEF Thread, NotItsTurn, Schedule, ArrayFull, Hit, MissPartition, MissAll, AssertFails,
         InvokeFails, LoopTest, LateCommit, Asking
<1>3. CASE UNCHANGED tables
  BY <1>1, <1>3, StillTables
<1>4. ASSUME Asking(t), NEW result, Invoke(t, result) PROVE TablesGood
  BY <1>1, <1>4, InvokeTables
<1> QED BY <1>1, <1>2, <1>3, <1>4

ThreadPcs == {"notStarted", "turn", "probe", "all", "gaveUp", "loopTest", "finished", "dead"}

LEMMA ThreadType ==
  ASSUME PartitionedInv, NoWorkerPrograms, NEW t \in Threads, Thread(t) \/ LateCommit(t)
  PROVE  PartitionedTypeOK'
<1>1. TablesGood /\ UNCHANGED options
  BY ThreadTables
<1>2. PartitionedTypeOK
  BY DEF PartitionedInv
<1>3. /\ Worker' \in Seq(WorkerRow)
      /\ Task' \in Seq([TaskID : Nat, WorkerID : Workers \cup {-1}, State : {PENDING}, PKey : AllPKeys])
  BY <1>1 DEF TablesGood, PTaskRow
<1>4. scheduleAlgo' = scheduleAlgo /\ numTasks' = numTasks /\ ActivePartitions' = ActivePartitions
  BY <1>1 DEF options, ActivePartitions
<1>5. ActivePartitions \in Nat \ {0}
  BY <1>2, ActiveRange DEF PartitionedTypeOK
<1>6. /\ inserted' \in Nat /\ mainFinished' \in BOOLEAN /\ mainPc' \in {mainPc, "exited", "aborted"}
      /\ schedLatsArrayIndex' \in Nat /\ taskindex' \in Nat
  BY <1>2, SMTT(40) DEF PartitionedTypeOK, Thread, NotItsTurn, Schedule, ArrayFull, Hit, MissPartition,
         MissAll, AssertFails, InvokeFails, LoopTest, LateCommit, mainVars
<1>7. /\ pc' \in [Threads -> ThreadPcs]
  <2>1. pc \in [Threads -> ThreadPcs]
    BY <1>2 DEF PartitionedTypeOK, ThreadPcs
  <2>2. ASSUME NEW place \in ThreadPcs, Goto(t, place) PROVE pc' \in [Threads -> ThreadPcs]
    BY <2>1, <2>2 DEF Goto
  <2>3. ASSUME Die(t) PROVE pc' \in [Threads -> ThreadPcs]
    BY <2>1, <2>3 DEF Die, ThreadPcs
  <2>4. Die(t) \/ \E place \in ThreadPcs : Goto(t, place)
    BY DEF Thread, NotItsTurn, Schedule, ArrayFull, Hit, MissPartition,
         MissAll, AssertFails, InvokeFails, LoopTest, LateCommit, ThreadPcs
  <2> QED BY <2>2, <2>3, <2>4
<1>8. taskID' \in [Threads -> Nat]
  <2>1. taskID' = taskID \/ taskID' = [taskID EXCEPT ![t] = taskindex]
    BY DEF Thread, NotItsTurn, Schedule, ArrayFull, Hit, MissPartition,
         MissAll, AssertFails, InvokeFails, LoopTest, LateCommit
  <2> QED BY <1>2, <2>1 DEF PartitionedTypeOK
<1>9. probe' \in [Threads -> [pkey : 0 .. ActivePartitions - 1, count : Nat]]
  <2>1. probe \in [Threads -> [pkey : 0 .. ActivePartitions - 1, count : Nat]]
    BY <1>2 DEF PartitionedTypeOK
  <2>2. \/ probe' = probe
        \/ \E p \in 0 .. ActivePartitions - 1 : probe' = [probe EXCEPT ![t] = [pkey |-> p, count |-> 1]]
        \/ probe' = [probe EXCEPT ![t] = [pkey |-> NextPKey(@), count |-> @.count + 1]]
    BY DEF Thread, NotItsTurn, Schedule, ArrayFull, Hit, MissPartition,
         MissAll, AssertFails, InvokeFails, LoopTest, LateCommit
  <2>3. NextPKey(probe[t]) \in 0 .. ActivePartitions - 1 /\ probe[t].count + 1 \in Nat
    BY <1>5, <2>1 DEF NextPKey
  <2> QED BY <2>1, <2>2, <2>3
<1>10. answer' \in [Threads -> Workers \cup {-1}]
  <2>1. answer' = answer \/ \E a \in Workers \cup {0} : answer' = [answer EXCEPT ![t] = a]
    BY DEF Thread, NotItsTurn, Schedule, ArrayFull, Hit, MissPartition,
         MissAll, AssertFails, InvokeFails, LoopTest, LateCommit
  <2>2. 0 \in Workers
    BY TablesAssumption DEF Workers
  <2> QED BY <1>2, <2>1, <2>2 DEF PartitionedTypeOK
<1> QED BY <1>2, <1>3, <1>4, <1>6, <1>7, <1>8, <1>9, <1>10 DEF PartitionedTypeOK, ThreadPcs, Ended

LEMMA FullWhenMissed ==
  ASSUME PartitionedInv, NEW p, AvailableWorkers(p) = {}
  PROVE  \A i \in DOMAIN Worker : Worker[i].PKey = p => Worker[i].Capacity = 0
<1>1. \A i \in DOMAIN Worker : Worker[i].Capacity \in 0 .. WorkerCapacity
  BY DEF PartitionedInv, RowsAsInserted
<1>2. \A i \in DOMAIN Worker : Worker[i].PKey = p => ~(Worker[i].Capacity > 0)
  BY DEF AvailableWorkers
<1> QED BY <1>1, <1>2, PartitionedAssumption

\* Going round: the partitions behind the next one are those behind this one,
\* and this one.
LEMMA BehindNext ==
  ASSUME NEW p \in [pkey : 0 .. ActivePartitions - 1, count : Nat],
         scheduleAlgo \in {"fifo", "fifo-local"}, ActivePartitions \in Nat \ {0}
  PROVE  /\ Behind([pkey |-> NextPKey(p), count |-> p.count + 1]) \subseteq Behind(p) \cup {p.pkey}
         /\ p.count >= ActivePartitions => Behind(p) \cup {p.pkey} = 0 .. ActivePartitions - 1
<1>1. PICK k \in 0 .. ActivePartitions - 1, c \in Nat : k = p.pkey /\ c = p.count
  OBVIOUS
<1>2. PICK n \in Nat \ {0} : n = ActivePartitions
  OBVIOUS
<1>3. PICK m \in Nat : m = NextPKey(p) /\ m = IF k + 1 = n THEN 0 ELSE k + 1
  <2>1. NextPKey(p) = (k + 1) % n
    BY <1>1, <1>2 DEF NextPKey
  <2>2. (k + 1) % n = IF k + 1 = n THEN 0 ELSE k + 1
    BY <1>1, <1>2
  <2>3. (IF k + 1 = n THEN 0 ELSE k + 1) \in Nat
    BY <1>1, <1>2
  <2> QED BY <2>1, <2>2, <2>3
<1>4. Behind(p) = {q \in 0 .. n - 1 : (IF q < k THEN k - q ELSE k - q + n) < c}
  BY <1>1, <1>2 DEF Behind
<1>5. PICK r : r = [pkey |-> m, count |-> c + 1]
  OBVIOUS
<1>6. r.pkey = m /\ r.count = c + 1 /\ r = [pkey |-> NextPKey(p), count |-> p.count + 1]
  BY <1>1, <1>3, <1>5
<1>7. Behind(r) = {q \in 0 .. n - 1 : (IF q < m THEN m - q ELSE m - q + n) < c + 1}
  BY <1>2, <1>6 DEF Behind
<1>8. ASSUME NEW q \in 0 .. n - 1, (IF q < m THEN m - q ELSE m - q + n) < c + 1, q # k
      PROVE  (IF q < k THEN k - q ELSE k - q + n) < c
  BY <1>1, <1>2, <1>3, <1>8
<1>9. ASSUME NEW q \in 0 .. n - 1, q # k, c >= n
      PROVE  (IF q < k THEN k - q ELSE k - q + n) < c
  BY <1>1, <1>2, <1>9
<1>10. Behind(r) \subseteq Behind(p) \cup {k}
  BY <1>4, <1>7, <1>8
<1>11. c >= n => Behind(p) \cup {k} = 0 .. n - 1
  BY <1>1, <1>2, <1>4, <1>9
<1> QED BY <1>1, <1>2, <1>6, <1>10, <1>11

LEMMA ScheduleOK ==
  ASSUME PartitionedInv, PartitionedTypeOK', UNCHANGED options, NEW t \in Threads, Schedule(t), TablesGood
  PROVE  ThreadOK(t)'
<1>0. PartitionedTypeOK /\ ThreadOK(t)
  BY InvIs
<1>1. scheduleAlgo' = scheduleAlgo /\ ActivePartitions' = ActivePartitions
  BY DEF options, ActivePartitions
<1>2. UNCHANGED <<answer, Worker, Task, mainPc>>
  BY DEF Schedule, mainVars, tables
<1>3. answer' = answer /\ Busiest(answer[t])' = Busiest(answer[t])
  BY <1>2 DEF Busiest, TasksOf
<1>4. /\ HasWorkers' => answer'[t] = -1
      /\ Alive' /\ answer'[t] >= 0 => Busiest(answer[t])'
  BY <1>0, <1>1, <1>2, <1>3 DEF ThreadOK, HasWorkers, Alive
<1>5. CASE Prefills /\ Goto(t, "all")
  <2>1. pc'[t] = "all"
    BY <1>0, <1>5 DEF Goto, PartitionedTypeOK
  <2> QED BY <1>1, <1>4, <1>5, <2>1 DEF ThreadOK, Prefills
<1>6. ASSUME NEW p \in 0 .. ActivePartitions - 1,
             probe' = [probe EXCEPT ![t] = [pkey |-> p, count |-> 1]], Goto(t, "probe")
      PROVE  ThreadOK(t)'
  <2>1. pc'[t] = "probe" /\ probe'[t] = [pkey |-> p, count |-> 1]
    BY <1>0, <1>6 DEF Goto, PartitionedTypeOK
  <2>2. probe'[t].pkey = p /\ probe'[t].count = 1
    BY <2>1
  <2>3. ActivePartitions \in Nat \ {0}
    BY <1>0, ActiveRange DEF PartitionedTypeOK
  <2>4. \A q \in 0 .. ActivePartitions - 1 : ~((IF q < p THEN p - q ELSE p - q + ActivePartitions) < 1)
    BY <2>3
  <2>5. Behind(probe[t])' = {}
    BY <1>1, <2>2, <2>4 DEF Behind
  <2> QED BY <1>4, <2>1, <2>5 DEF ThreadOK
<1> QED BY <1>5, <1>6 DEF Schedule

LEMMA MissPartitionOK ==
  ASSUME PartitionedInv, PartitionedTypeOK', UNCHANGED options, NEW t \in Threads, MissPartition(t),
         NoWorkerPrograms
  PROVE  ThreadOK(t)'
<1>0. PartitionedTypeOK /\ ThreadOK(t) /\ RowsAsInserted
  BY InvIs
<1>1. scheduleAlgo' = scheduleAlgo /\ ActivePartitions' = ActivePartitions
  BY DEF options, ActivePartitions
<1>2. scheduleAlgo \in {"fifo", "fifo-local", "fifo-task", "scan-task"}
  BY <1>0, PartitionedAssumption DEF PartitionedTypeOK, NoWorkerPrograms
<1>3. PICK result \in {NOTASK, NOWORKER} : Invoke(t, result)
  BY DEF MissPartition
<1>4. /\ pc[t] = "probe" /\ UNCHANGED <<answer, mainPc>>
      /\ pc'[t] \in {"probe", "all", "gaveUp"}
      /\ pc'[t] = "all" => Prefills
      /\ pc'[t] = "probe" => probe[t].count < ActivePartitions
      /\ pc'[t] = "gaveUp" => ~Prefills /\ ~(probe[t].count < ActivePartitions)
      /\ probe' = [probe EXCEPT ![t] = [pkey |-> NextPKey(@), count |-> @.count + 1]]
    BY <1>0 DEF MissPartition, Goto, PartitionedTypeOK, mainVars, Prefills
<1>5. CASE Prefills
  <2>1. pc'[t] # "gaveUp" /\ Prefills'
    BY <1>1, <1>4, <1>5 DEF Prefills
  <2>2. HasWorkers' => answer'[t] = -1
    BY <1>0, <1>1, <1>4 DEF ThreadOK, HasWorkers
  <2>3. Alive' /\ answer'[t] >= 0 => Busiest(answer[t])'
    <3> SUFFICES ASSUME Alive', answer'[t] >= 0 PROVE Busiest(answer[t])'
      OBVIOUS
    <3>1. scheduleAlgo = "scan-task" /\ Busiest(answer[t])
      BY <1>0, <1>4 DEF ThreadOK, HasWorkers, Alive
    <3>2. Task' = Task
      BY <1>3, <1>4, <3>1 DEF Invoke, ScanPartitionedTaskWorker, tables
    <3> QED BY <1>4, <3>1, <3>2 DEF Busiest, TasksOf
  <2> QED BY <2>1, <2>2, <2>3 DEF ThreadOK
<1>6. CASE ~Prefills
  <2>1. scheduleAlgo \in {"fifo", "fifo-local"} /\ HasWorkers
    BY <1>2, <1>6 DEF Prefills, HasWorkers
  <2>2. AvailableWorkers(probe[t].pkey) = {} /\ UNCHANGED tables
    <3>1. result \notin Nat
      BY <1>3 DEF NOTASK, NOWORKER
    <3>2. \A i \in DOMAIN Worker : Worker[i].WorkerID \in Nat
      <4>1. \A i \in DOMAIN Worker : Worker[i] \in WorkerRow
        BY <1>0 DEF PartitionedTypeOK
      <4> QED BY <4>1 DEF WorkerRow
    <3>3. CASE scheduleAlgo = "fifo"
      <4>1. SelectWorker(probe[t].pkey, result)
        BY <1>3, <1>4, <3>3 DEF Invoke
      <4> QED BY <3>1, <3>2, <4>1 DEF SelectWorker, AvailableWorkers
    <3>4. CASE scheduleAlgo = "fifo-local"
      <4>1. SelectOrderedWorker(probe[t].pkey, taskID[t], result)
        BY <1>3, <1>4, <3>4 DEF Invoke
      <4> QED BY <3>1, <3>2, <4>1 DEF SelectOrderedWorker, AvailableWorkers
    <3> QED BY <2>1, <3>3, <3>4
  <2>3. \A i \in DOMAIN Worker : Worker[i].PKey \in Behind(probe[t]) \cup {probe[t].pkey}
                                 => Worker[i].Capacity = 0
    BY <1>0, <1>4, <1>6, <2>2, FullWhenMissed DEF ThreadOK
  <2>4. ActivePartitions \in Nat \ {0} /\ probe[t] \in [pkey : 0 .. ActivePartitions - 1, count : Nat]
    BY <1>0, ActiveRange DEF PartitionedTypeOK
  <2>5. PICK p : p = [pkey |-> NextPKey(probe[t]), count |-> probe[t].count + 1]
    OBVIOUS
  <2>6. probe'[t] = p
    BY <1>0, <1>4, <2>5 DEF PartitionedTypeOK
  <2>7. /\ Behind(p) \subseteq Behind(probe[t]) \cup {probe[t].pkey}
        /\ probe[t].count >= ActivePartitions
           => Behind(probe[t]) \cup {probe[t].pkey} = 0 .. ActivePartitions - 1
    BY <2>1, <2>4, <2>5, BehindNext
  <2>8. Behind(probe[t])' = Behind(p)
    BY <1>1, <2>6 DEF Behind
  <2>9. ASSUME pc'[t] = "gaveUp" PROVE \A i \in DOMAIN Worker : Worker[i].Capacity = 0
    <3>1. probe[t].count >= ActivePartitions
      BY <1>4, <2>4, <2>9
    <3>2. \A i \in DOMAIN Worker : Worker[i].PKey \in 0 .. ActivePartitions - 1
      <4>1. /\ Worker \in Seq(WorkerRow) /\ Len(Worker) <= NumWorkers
            /\ \A i \in DOMAIN Worker : Worker[i].PKey = PKeyOf(i - 1)
        BY <1>0 DEF PartitionedTypeOK, RowsAsInserted
      <4>2. \A i \in DOMAIN Worker : i - 1 \in Workers
        BY <4>1, TablesAssumption DEF Workers
      <4>3. scheduleAlgo \in Algorithms /\ numTasks \in NumTasks
        BY <1>0 DEF PartitionedTypeOK
      <4> QED BY <2>1, <4>1, <4>2, <4>3, PKeyActive
    <3> QED BY <2>3, <2>7, <3>1, <3>2
  <2>10. Worker' = Worker
    BY <2>2 DEF tables
  <2>11. HasWorkers' /\ answer'[t] = -1 /\ ~Prefills'
    BY <1>0, <1>1, <1>4, <1>6, <2>1 DEF ThreadOK, HasWorkers, Prefills
  <2>12. pc'[t] = "all" => Prefills'
    BY <1>4, <1>6
  <2>13. \A i \in DOMAIN Worker' : Worker'[i].PKey \in Behind(probe[t])' => Worker'[i].Capacity = 0
    BY <2>3, <2>7, <2>8, <2>10
  <2>14. ~(answer'[t] >= 0)
    BY <2>11
  <2> QED BY <2>9, <2>10, <2>11, <2>12, <2>13, <2>14 DEF ThreadOK
<1> QED BY <1>5, <1>6

LEMMA MissAllOK ==
  ASSUME PartitionedInv, PartitionedTypeOK', UNCHANGED options, NEW t \in Threads, MissAll(t),
         NoWorkerPrograms
  PROVE  ThreadOK(t)'
<1>0. PartitionedTypeOK /\ ThreadOK(t) /\ RowsAsInserted /\ SetupInOrder
  BY InvIs
<1>1. scheduleAlgo' = scheduleAlgo
  BY DEF options
<1>2. PICK result \in {NOTASK, NOWORKER} : Invoke(t, result)
  BY DEF MissAll
<1>3. Alive /\ pc[t] = "all" /\ pc'[t] = "gaveUp" /\ UNCHANGED <<answer, mainPc>>
  BY <1>0 DEF MissAll, Goto, PartitionedTypeOK, mainVars
<1>4. scheduleAlgo \in {"fifo-task", "scan-task"} /\ Task # <<>>
  BY <1>0, <1>3 DEF ThreadOK, Prefills, SetupInOrder, Alive
<1>5. UNCHANGED tables /\ \A i \in DOMAIN Worker : Worker[i].Capacity = 0
  <2>1. CASE scheduleAlgo = "fifo-task"
    <3>1. SelectTaskWorker(result)
      BY <1>2, <1>3, <2>1 DEF Invoke
    <3>2. UNCHANGED tables /\ UNION {AvailableWorkers(p) : p \in AllPKeys} = {}
      BY <1>2, <1>4, <3>1 DEF SelectTaskWorker, NOTASK, NOWORKER, SUCCESS
    <3>3. \A p \in AllPKeys : AvailableWorkers(p) = {}
      BY <3>2
    <3>4. \A i \in DOMAIN Worker : Worker[i].PKey \in AllPKeys
      <4>1. \A i \in DOMAIN Worker : i - 1 \in Nat /\ Worker[i].PKey = PKeyOf(i - 1)
        BY <1>0, SMTT(40) DEF PartitionedTypeOK, RowsAsInserted
      <4> QED BY <4>1, PKeyOfRange
    <3> QED BY <3>2, <3>3, <3>4, FullWhenMissed
  <2>2. CASE scheduleAlgo = "scan-task"
    <3>1. ScanTaskWorker(result)
      BY <1>2, <1>3, <2>2 DEF Invoke
    <3>2. Worker = <<>>
      BY <1>0, <2>2 DEF RowsAsInserted, HasWorkers
    <3> QED BY <3>1, <3>2 DEF ScanTaskWorker
  <2> QED BY <1>4, <2>1, <2>2
<1>6. Worker' = Worker /\ Task' = Task
  BY <1>5 DEF tables
<1>7. HasWorkers' => answer'[t] = -1
  BY <1>0, <1>1, <1>3 DEF ThreadOK, HasWorkers
<1>8. Alive' /\ answer'[t] >= 0 => Busiest(answer[t])'
  BY <1>0, <1>3, <1>6 DEF ThreadOK, Alive, Busiest, TasksOf
<1> QED BY <1>3, <1>5, <1>6, <1>7, <1>8 DEF ThreadOK

\* The two queries of scan-task.
LEMMA MostIsBusiest ==
  ASSUME PartitionedInv, ~HasWorkers, NEW pkeys, NEW a \in Workers, MostTasks(pkeys, a)
  PROVE  Busiest(a)
<1>0. PartitionedTypeOK /\ RowsAsInserted
  BY DEF PartitionedInv
<1>1. a # NOWORKER
  BY DEF Workers, NOWORKER
<1> DEFINE rows == {j \in DOMAIN Task : Task[j].PKey \in pkeys /\ Task[j].WorkerID >= 0}
<1>2. PICK j \in rows : a = Task[j].WorkerID
        /\ \A k \in rows : Cardinality({x \in rows : Task[x].WorkerID = Task[k].WorkerID})
                           <= Cardinality({x \in rows : Task[x].WorkerID = a})
  BY <1>1 DEF MostTasks
<1>3. \A k \in DOMAIN Task : Task[k].PKey = PKeyOf(Task[k].WorkerID)
  BY <1>0 DEF RowsAsInserted
<1>4. PKeyOf(a) \in pkeys
  BY <1>2, <1>3
<1>5. \A w \in Workers : PKeyOf(w) = PKeyOf(a) =>
        {x \in rows : Task[x].WorkerID = w} = TasksOf(w)
  <2>1. \A w \in Workers : w >= 0
    BY DEF Workers
  <2> QED BY <1>3, <1>4, <2>1 DEF TasksOf
<1> SUFFICES ASSUME NEW w \in Workers, PKeyOf(w) = PKeyOf(a)
             PROVE  Cardinality(TasksOf(w)) <= Cardinality(TasksOf(a))
  BY DEF Busiest
<1>6. CASE TasksOf(w) = {}
  <2>1. Cardinality(TasksOf(w)) = 0
    BY <1>6, FS_EmptySet
  <2>2. Cardinality(TasksOf(a)) \in Nat
    BY <1>0, TasksOfFinite
  <2> QED BY <2>1, <2>2
<1>7. CASE TasksOf(w) # {}
  <2>1. PICK k \in rows : Task[k].WorkerID = w
    BY <1>5, <1>7
  <2>2. Cardinality({x \in rows : Task[x].WorkerID = w})
          <= Cardinality({x \in rows : Task[x].WorkerID = a})
    BY <1>2, <2>1
  <2> QED BY <1>5, <2>2
<1> QED BY <1>6, <1>7

\* Tasks are dealt out beginning with worker 0: no worker has more tasks.
LEMMA ZeroIsBusiest ==
  ASSUME PartitionedInv, ~HasWorkers
  PROVE  Busiest(0)
<1>0. PartitionedTypeOK /\ RowsAsInserted
  BY DEF PartitionedInv
<1> SUFFICES ASSUME NEW w \in Workers
             PROVE  Cardinality(TasksOf(w)) <= Cardinality(TasksOf(0))
  BY DEF Busiest
<1>1. NumWorkers \in Nat \ {0} /\ w \in 0 .. NumWorkers - 1
  BY TablesAssumption DEF Workers
<1>2. /\ DOMAIN Task = 1 .. Len(Task) /\ Len(Task) \in Nat
      /\ \A j \in DOMAIN Task : Task[j].WorkerID = (j - 1) % NumWorkers
  BY <1>0, TaskRows DEF RowsAsInserted
<1>3. ASSUME NEW j \in TasksOf(w)
      PROVE  j \in Nat /\ j - w \in TasksOf(0)
  <2>1. j \in 1 .. Len(Task) /\ (j - 1) % NumWorkers = w
    BY <1>2, <1>3 DEF TasksOf
  <2>2. PICK d \in Nat : j - 1 = NumWorkers * d + w
    <3>1. j - 1 \in Nat
      BY <2>1
    <3>2. j - 1 = NumWorkers * ((j - 1) \div NumWorkers) + ((j - 1) % NumWorkers)
      BY <1>1, <3>1, DivMod
    <3>3. (j - 1) \div NumWorkers \in Nat
      BY <1>1, <3>1
    <3> QED BY <2>1, <3>2, <3>3
  <2>3. PICK e \in Nat : e = NumWorkers * d
    BY <1>1
  <2>4. j - w = e + 1 /\ j - w \in 1 .. Len(Task) /\ (j - w) - 1 = e
    BY <1>1, <1>2, <2>1, <2>2, <2>3
  <2>5. e % NumWorkers = 0
    BY <1>1, <2>3
  <2> QED BY <1>2, <2>1, <2>4, <2>5 DEF TasksOf
<1>4. PICK f : f = [j \in TasksOf(w) |-> j - w]
  OBVIOUS
<1>5. f \in [TasksOf(w) -> TasksOf(0)]
  BY <1>3, <1>4
<1>6. \A i, j \in TasksOf(w) : f[i] = f[j] => i = j
  BY <1>1, <1>3, <1>4
<1>7. f \in Injection(TasksOf(w), TasksOf(0))
  BY <1>5, <1>6 DEF Injection, IsInjective
<1>8. IsFiniteSet(TasksOf(0))
  BY <1>0, TasksOfFinite
<1> QED BY <1>7, <1>8, FS_Injection

LEMMA ThreadStepInv ==
  ASSUME PartitionedInv, NoWorkerPrograms, NEW t \in Threads, Thread(t) \/ LateCommit(t)
  PROVE  PartitionedInv'
<1>1. TablesGood /\ UNCHANGED options
  BY ThreadTables
<1>2. PartitionedTypeOK' /\ PartitionedTypeOK
  BY ThreadType DEF PartitionedInv
<1>3. /\ mainPc \in {"run", "join", "exited", "aborted"}
      /\ mainPc' \in {mainPc, "exited", "aborted"}
  BY DEF Thread, NotItsTurn, Schedule, ArrayFull, Hit, MissPartition, MissAll, AssertFails,
         InvokeFails, LoopTest, LateCommit, Alive, mainVars
<1>4. ~SettingUp' /\ (mainPc' \in {"run", "join"} => Alive) /\ (Alive' => Alive)
  BY <1>3 DEF SettingUp, Alive
<1>5. SUFFICES \A u \in Threads : ThreadOK(u)'
  BY <1>1, <1>2, <1>4, ThreadsMove
<1>6. pc \in [Threads -> ThreadPcs] /\ probe \in [Threads -> [pkey : 0 .. ActivePartitions - 1, count : Nat]]
      /\ answer \in [Threads -> Workers \cup {-1}]
  BY <1>2 DEF PartitionedTypeOK, ThreadPcs
<1>7. ASSUME NEW u \in Threads \ {t} PROVE ThreadOK(u)'
  <2>1. pc'[u] = pc[u] \/ pc'[u] = "dead"
    BY <1>6, <1>7 DEF Thread, NotItsTurn, Schedule, ArrayFull, Hit, MissPartition, MissAll, AssertFails,
           InvokeFails, LoopTest, LateCommit, Goto, Die
  <2>2. probe'[u] = probe[u]
    BY <1>6, <1>7 DEF Thread, NotItsTurn, Schedule, ArrayFull, Hit, MissPartition, MissAll, AssertFails,
           InvokeFails, LoopTest, LateCommit
  <2>3. answer'[u] = answer[u]
    BY <1>6, <1>7 DEF Thread, NotItsTurn, Schedule, ArrayFull, Hit, MissPartition, MissAll, AssertFails,
           InvokeFails, LoopTest, LateCommit
  <2> QED BY <1>1, <1>4, <1>7, <2>1, <2>2, <2>3, StillThread
<1>8. ThreadOK(t)'
  <2>1. CASE NotItsTurn(t) \/ ArrayFull(t) \/ AssertFails(t) \/ LoopTest(t) \/ LateCommit(t)
    <3>1. probe' = probe /\ answer' = answer /\ pc'[t] \in {"loopTest", "dead", "finished", "turn"}
      BY <1>6, <2>1 DEF NotItsTurn, ArrayFull, AssertFails, LoopTest, LateCommit, Goto, Die
    <3> QED BY <1>1, <1>4, <3>1, StillThread
  <2>2. CASE (Hit(t) \/ InvokeFails(t)) /\ HasWorkers
    <3>1. scheduleAlgo # "scan-task"
      BY <2>2 DEF HasWorkers
    <3>2. probe' = probe /\ answer' = answer /\ pc'[t] \in {"loopTest", "dead"}
      BY <1>6, <2>2, <3>1 DEF Hit, InvokeFails, Goto, Die
    <3> QED BY <1>1, <1>4, <3>2, StillThread
  <2>3. CASE (Hit(t) \/ InvokeFails(t)) /\ ~HasWorkers
    <3>1. scheduleAlgo = "scan-task" /\ scheduleAlgo' = scheduleAlgo /\ ~HasWorkers'
      BY <1>1, <2>3 DEF HasWorkers, options
    <3>2. pc'[t] = "loopTest" /\ Alive /\ Asking(t)
      BY <1>6, <2>3, <3>1 DEF Hit, InvokeFails, Goto
    <3>3. PICK a \in Workers : answer'[t] = a /\ (a = 0 \/ Invoke(t, a))
      <4>1. 0 \in Workers
        BY TablesAssumption DEF Workers
      <4> QED BY <1>6, <2>3, <3>1, <4>1 DEF Hit, InvokeFails
    <3>4. Task' = Task
      BY <1>1, <2>3 DEF TablesGood
    <3>5. Busiest(a)
      <4>1. CASE a = 0
        BY <2>3, <4>1, ZeroIsBusiest
      <4>2. CASE Invoke(t, a)
        <5>1. \E pkeys : MostTasks(pkeys, a)
          BY <3>1, <3>2, <4>2 DEF Invoke, Asking, ScanPartitionedTaskWorker, ScanTaskWorker
        <5> QED BY <2>3, <5>1, MostIsBusiest
      <4> QED BY <3>3, <4>1, <4>2
    <3>6. Busiest(answer[t])'
      BY <3>3, <3>4, <3>5 DEF Busiest, TasksOf
    <3> QED BY <3>1, <3>2, <3>6 DEF ThreadOK
  <2> QED BY <1>1, <1>2, <2>1, <2>2, <2>3, ScheduleOK, MissPartitionOK, MissAllOK DEF Thread
<1> QED BY <1>7, <1>8
-----------------------------------------------------------------------------
(* The steps of main().                                                    *)

LEMMA EmptyTask ==
  ASSUME Task' = <<>>
  PROVE  Task' \in Seq(PTaskRow) /\ \A v : Cardinality(TasksOf(v)') = 0
<1>1. \A v : TasksOf(v)' = {}
  BY DEF TasksOf
<1> QED BY <1>1, FS_EmptySet

\* Tables that lose rows are good as well, once the threads are over.
LEMMA MainStill ==
  ASSUME PartitionedInv, PartitionedTypeOK', RowsAsInserted', TasksCostCapacity', SetupInOrder',
         UNCHANGED options, UNCHANGED <<probe, answer>>,
         \A u \in Threads : \/ pc'[u] = pc[u]
                            \/ pc'[u] \notin {"probe", "all", "gaveUp"},
         \/ SettingUp
         \/ Worker' = Worker /\ Task' = Task /\ (Alive' => Alive)
         \/ Worker' = <<>> /\ Task' = Task /\ (Alive' => Alive)
         \/ Worker' = Worker /\ ~Alive'
  PROVE  PartitionedInv'
<1>1. scheduleAlgo' = scheduleAlgo /\ numTasks' = numTasks
  BY DEF options
<1>2. /\ Prefills' = Prefills /\ HasWorkers' = HasWorkers
  BY <1>1 DEF Prefills, HasWorkers
<1>3. ASSUME NEW u \in Threads PROVE ThreadOK(u)'
  <2>1. ThreadOK(u)
    BY InvIs
  <2>2. Behind(probe[u])' = Behind(probe[u])
    BY <1>1 DEF Behind, ActivePartitions
  <2>3. CASE SettingUp
    <3>1. pc[u] = "notStarted" /\ answer[u] = -1
      BY <2>3 DEF PartitionedInv, SetupInOrder
    <3>2. pc'[u] \notin {"probe", "all", "gaveUp"} /\ answer'[u] = -1
      BY <3>1
    <3> QED BY <3>2 DEF ThreadOK
  <2>4. CASE (Worker' = Worker \/ Worker' = <<>>) /\ (~Alive' \/ (Task' = Task /\ (Alive' => Alive)))
    <3>1. /\ pc'[u] = "probe" /\ ~Prefills' =>
               \A i \in DOMAIN Worker' : Worker'[i].PKey \in Behind(probe[u])' => Worker'[i].Capacity = 0
          /\ pc'[u] = "gaveUp" => \A i \in DOMAIN Worker' : Worker'[i].Capacity = 0
      BY <1>2, <2>1, <2>2, <2>4 DEF ThreadOK
    <3>2. /\ pc'[u] = "all" => Prefills'
          /\ HasWorkers' => answer'[u] = -1
      BY <1>2, <2>1 DEF ThreadOK
    <3>3. Alive' /\ answer'[u] >= 0 => Busiest(answer[u])'
      BY <2>1, <2>4 DEF ThreadOK, Busiest, TasksOf
    <3> QED BY <3>1, <3>2, <3>3 DEF ThreadOK
  <2> QED BY <2>3, <2>4
<1>4. (PartitionedTypeOK /\ RowsAsInserted /\ SetupInOrder /\ TasksCostCapacity
         /\ \A u \in Threads : ThreadOK(u))'
  BY <1>3
<1> QED BY <1>4, InvIs, PTL

\* The variables of the threads, and of main but for mainPc, keep their types.
LEMMA MainType ==
  ASSUME PartitionedInv, Worker' \in Seq(WorkerRow), Task' \in Seq(PTaskRow), UNCHANGED options,
         mainPc' \in {"truncateWorkers", "truncateTasks", "insertWorkers", "insertTasks", "startThreads",
                      "run", "join", "teardownWorkers", "teardownTasks", "done", "exited", "aborted"},
         inserted' \in Nat, mainFinished' \in BOOLEAN,
         UNCHANGED <<schedLatsArrayIndex, taskindex, taskID, probe, answer>>,
         pc' \in [Threads -> ThreadPcs]
  PROVE  PartitionedTypeOK'
<1>1. PartitionedTypeOK
  BY DEF PartitionedInv
<1>2. scheduleAlgo' = scheduleAlgo /\ numTasks' = numTasks /\ ActivePartitions' = ActivePartitions
  BY DEF options, ActivePartitions
<1> QED BY <1>1, <1>2 DEF PartitionedTypeOK, ThreadPcs, PTaskRow, Ended

LEMMA TypeParts ==
  ASSUME PartitionedInv
  PROVE  /\ Worker \in Seq(WorkerRow) /\ Task \in Seq(PTaskRow)
         /\ inserted \in Nat /\ mainFinished \in BOOLEAN /\ pc \in [Threads -> ThreadPcs]
BY TaskRows DEF PartitionedInv, PartitionedTypeOK, ThreadPcs

\* Nothing but mainPc, or the whole of a table, changes.
LEMMA TruncateInv ==
  ASSUME PartitionedInv, UNCHANGED <<options, inserted, mainFinished, thrVars>>,
         \/ Worker' = Worker /\ Task' = Task
         \/ Worker' = <<>> /\ Task' = Task
         \/ Worker' = Worker /\ Task' = <<>>,
         \/ mainPc = "truncateWorkers" /\ mainPc' = "truncateTasks"
         \/ mainPc = "truncateTasks" /\ mainPc' = "insertWorkers"
         \/ mainPc = "teardownWorkers" /\ mainPc' = "teardownTasks" /\ Task' = Task
         \/ mainPc = "teardownTasks" /\ mainPc' = "done"
  PROVE  PartitionedInv'
<1>0. /\ PartitionedTypeOK /\ RowsAsInserted /\ SetupInOrder /\ TasksCostCapacity
  BY DEF PartitionedInv
<1>1. UNCHANGED <<schedLatsArrayIndex, taskindex, pc, taskID, probe, answer>> /\ scheduleAlgo' = scheduleAlgo
  BY DEF thrVars, options
<1>2. PartitionedTypeOK'
  <2>0. <<>> \in Seq(WorkerRow) /\ <<>> \in Seq(PTaskRow)
    OBVIOUS
  <2>1. Worker' \in Seq(WorkerRow) /\ Task' \in Seq(PTaskRow)
    BY <2>0, TypeParts
  <2> QED BY <1>1, <2>1, TypeParts, MainType
<1>3. RowsAsInserted'
  <2>1. Len(Worker') <= NumWorkers
    BY <1>0, TablesAssumption DEF RowsAsInserted
  <2> QED BY <1>0, <1>1, <2>1 DEF RowsAsInserted, Prefills, HasWorkers, HasTasks
<1>4. TasksCostCapacity'
  <2>1. CASE Worker' = <<>>
    BY <2>1 DEF TasksCostCapacity
  <2>2. CASE Worker' = Worker /\ Task' = Task
    BY <1>0, <1>1, <2>2 DEF TasksCostCapacity
  <2>3. CASE Worker' = Worker /\ Task' = <<>>
    <3>1. CASE mainPc \in {"truncateWorkers", "truncateTasks"}
      BY <1>0, <2>1, <2>3, <3>1 DEF SetupInOrder
    <3>2. CASE mainPc' = "done"
      <4>1. \A i \in DOMAIN Worker : Worker[i].Capacity \in 0 .. WorkerCapacity
        BY <1>0 DEF RowsAsInserted
      <4>2. \A i \in DOMAIN Worker : 0 <= WorkerCapacity - Worker[i].Capacity
        BY <4>1, PartitionedAssumption
      <4>3. \A v : Cardinality({j \in DOMAIN Task' : Task'[j].WorkerID = v}) = 0
        BY <2>3, FS_EmptySet
      <4> QED BY <2>3, <3>2, <4>2, <4>3 DEF TasksCostCapacity
    <3> QED BY <2>2, <2>3, <3>1, <3>2
  <2> QED BY <2>1, <2>2, <2>3
<1>5. SetupInOrder'
  BY <1>0, <1>1 DEF SetupInOrder, SettingUp
<1>6. ~Alive'
  BY DEF Alive
<1> QED BY <1>1, <1>2, <1>3, <1>4, <1>5, <1>6, MainStill

LEMMA PassInv ==
  ASSUME PartitionedInv, UNCHANGED tables, UNCHANGED <<options, schedLatsArrayIndex, taskindex, taskID, probe, answer>>,
         inserted' \in Nat, mainFinished' \in BOOLEAN,
         \/ pc' = pc
         \/ pc' = [t \in Threads |-> "turn"] /\ ~SettingUp',
         \/ mainPc = "insertWorkers" /\ mainPc' = "insertTasks" /\ inserted' = 0
         \/ mainPc = "insertWorkers" /\ mainPc' = "exited"
         \/ mainPc = "insertTasks" /\ mainPc' = "startThreads" /\ (Prefills => inserted # 0)
         \/ mainPc = "insertTasks" /\ mainPc' = "exited"
         \/ mainPc = "startThreads" /\ mainPc' = "run"
         \/ mainPc = "run" /\ mainPc' = "join"
         \/ mainPc = "join" /\ mainPc' \in {"teardownWorkers", "done"}
  PROVE  PartitionedInv'
<1>0. /\ PartitionedTypeOK /\ RowsAsInserted /\ SetupInOrder /\ TasksCostCapacity
  BY DEF PartitionedInv
<1>1. scheduleAlgo' = scheduleAlgo /\ Worker' = Worker /\ Task' = Task
  BY DEF options, tables
<1>2. PartitionedTypeOK'
  <2>1. pc' \in [Threads -> ThreadPcs]
    BY TypeParts DEF ThreadPcs
  <2> QED BY <1>1, <2>1, TypeParts, MainType
<1>3. RowsAsInserted'
  BY <1>0, <1>1 DEF RowsAsInserted, Prefills, HasWorkers, HasTasks
<1>4. TasksCostCapacity'
  BY <1>0, <1>1 DEF TasksCostCapacity
<1>5. SetupInOrder'
  <2>1. Task \in Seq(PTaskRow)
    BY TypeParts
  <2>2. Len(<<>>) = 0
    OBVIOUS
  <2>3. Len(Task) # 0 => Task # <<>>
    BY <2>1
  <2> QED BY <1>0, <1>1, <2>2, <2>3 DEF SetupInOrder, SettingUp, Prefills
<1>6. \A u \in Threads : pc'[u] = pc[u] \/ pc'[u] \notin {"probe", "all", "gaveUp"}
  OBVIOUS
<1>7. SettingUp \/ (Alive' => Alive)
  BY DEF SettingUp, Alive
<1> QED BY <1>1, <1>2, <1>3, <1>4, <1>5, <1>6, <1>7, MainStill

LEMMA SetupWorkerInv ==
  ASSUME PartitionedInv, mainPc = "insertWorkers", HasWorkers, inserted < NumWorkers,
         SetupWorker(inserted), UNCHANGED <<options, mainFinished, thrVars>>,
         \/ mainPc' = "insertWorkers" /\ inserted' = inserted + 1
         \/ mainPc' = "exited" /\ inserted' = inserted
  PROVE  PartitionedInv'
<1>0. /\ PartitionedTypeOK /\ RowsAsInserted /\ SetupInOrder /\ inserted \in Nat
  BY TypeParts DEF PartitionedInv
<1>1. UNCHANGED <<schedLatsArrayIndex, taskindex, pc, taskID, probe, answer>> /\ scheduleAlgo' = scheduleAlgo
  BY DEF thrVars, options
<1>2. PICK row : /\ row = [WorkerID |-> inserted, Capacity |-> WorkerCapacity, PKey |-> PKeyOf(inserted)]
                 /\ Worker' = Append(Worker, row) /\ Task' = Task
  BY DEF SetupWorker, InsertWorker
<1>3. /\ row \in WorkerRow /\ row.WorkerID = inserted /\ row.PKey = PKeyOf(inserted)
      /\ row.Capacity = WorkerCapacity
  <2>1. PKeyOf(inserted) \in Nat
    BY <1>0, TablesAssumption, PKeyOfRange DEF AllPKeys
  <2> QED BY <1>0, <1>2, <2>1, PartitionedAssumption DEF WorkerRow
<1>4. /\ Worker \in Seq(WorkerRow) /\ Len(Worker) = inserted /\ Task = <<>>
  BY <1>0, TypeParts DEF SetupInOrder
<1>5. /\ Worker' \in Seq(WorkerRow) /\ Len(Worker') = inserted + 1
      /\ DOMAIN Worker' = DOMAIN Worker \cup {inserted + 1}
      /\ \A i \in DOMAIN Worker : Worker'[i] = Worker[i]
      /\ Worker'[inserted + 1] = row
  BY <1>2, <1>3, <1>4
<1>6. PartitionedTypeOK'
  BY <1>0, <1>1, <1>2, <1>5, TypeParts, MainType
<1>7. RowsAsInserted'
  <2>1. \A i \in DOMAIN Worker' : /\ Worker'[i].WorkerID = i - 1 /\ Worker'[i].PKey = PKeyOf(i - 1)
                                  /\ Worker'[i].Capacity \in 0 .. WorkerCapacity
    <3>1. (inserted + 1) - 1 = inserted /\ WorkerCapacity \in 0 .. WorkerCapacity
      BY <1>0, PartitionedAssumption
    <3> QED BY <1>0, <1>3, <1>5, <3>1 DEF RowsAsInserted
  <2>2. Len(Worker') <= NumWorkers
    BY <1>0, <1>5, TablesAssumption
  <2> QED BY <1>0, <1>1, <1>2, <2>1, <2>2 DEF RowsAsInserted, Prefills, HasWorkers, HasTasks
<1>8. \A i \in DOMAIN Worker : Paid(i)
  BY <1>0, PaidIs DEF PartitionedInv
<1>9. TasksCostCapacity'
  <2>1. \A v : TasksOf(v)' = {} /\ TasksOf(v) = {}
    BY <1>2, <1>4 DEF TasksOf
  <2>2. Cardinality({}) = 0 /\ 0 = WorkerCapacity - WorkerCapacity /\ 0 <= 0
    BY FS_EmptySet, PartitionedAssumption
  <2>3. ASSUME NEW i \in DOMAIN Worker' PROVE Paid(i)'
    <3>1. CASE i = inserted + 1
      BY <1>3, <1>5, <2>1, <2>2, <3>1 DEF Paid
    <3>2. CASE i \in DOMAIN Worker
      BY <1>1, <1>5, <1>8, <2>1, <3>2 DEF Paid
    <3> QED BY <1>5, <3>1, <3>2
  <2>4. \A i \in DOMAIN Worker' : Worker'[i].WorkerID = i - 1
    BY <1>7 DEF RowsAsInserted
  <2> QED BY <2>3, <2>4 DEF TasksCostCapacity, Paid, TasksOf
<1>10. SetupInOrder'
  BY <1>0, <1>1, <1>2, <1>4, <1>5 DEF SetupInOrder, SettingUp
<1>11. SettingUp
  BY DEF SettingUp
<1> QED BY <1>1, <1>6, <1>7, <1>9, <1>10, <1>11, MainStill

LEMMA SetupTaskInv ==
  ASSUME PartitionedInv, NoWorkerPrograms, mainPc = "insertTasks", Prefills, inserted < numTasks,
         SetupTask(inserted), UNCHANGED <<options, mainFinished, thrVars>>,
         \/ mainPc' = "insertTasks" /\ inserted' = inserted + 1
         \/ mainPc' = "exited" /\ inserted' = inserted
  PROVE  PartitionedInv'
<1>0. /\ PartitionedTypeOK /\ RowsAsInserted /\ SetupInOrder /\ inserted \in Nat
  BY TypeParts DEF PartitionedInv
<1>1. UNCHANGED <<schedLatsArrayIndex, taskindex, pc, taskID, probe, answer>> /\ scheduleAlgo' = scheduleAlgo
  BY DEF thrVars, options
<1>2. scheduleAlgo \in {"fifo-task", "scan-task"}
  BY DEF Prefills
<1>3. PICK w, p, row :
        /\ row = [TaskID |-> inserted, WorkerID |-> w, State |-> PENDING, PKey |-> p]
        /\ Task' = Append(Task, row) /\ Worker' = Worker
        /\ scheduleAlgo = "fifo-task" => w = -1 /\ p = inserted % Partitions
        /\ scheduleAlgo = "scan-task" => w = inserted % NumWorkers /\ p = w % Partitions
  <2>1. CASE scheduleAlgo = "fifo-task"
    BY <2>1 DEF SetupTask, InsertTask, NewTask
  <2>2. CASE scheduleAlgo = "scan-task"
    BY <2>2 DEF SetupTask, InsertTask, NewTask
  <2> QED BY <1>2, <2>1, <2>2
<1>4. w \in Workers \cup {-1} /\ p \in AllPKeys /\ (scheduleAlgo = "scan-task" => p = PKeyOf(w))
  <2>1. \A x \in Nat : x % NumWorkers \in Workers /\ x % Partitions \in AllPKeys
    BY TablesAssumption DEF Workers, AllPKeys
  <2>2. Workers \subseteq Nat
    BY DEF Workers
  <2> QED BY <1>0, <1>2, <1>3, <2>1, <2>2 DEF PKeyOf
<1>5. row \in PTaskRow /\ row.TaskID = inserted /\ row.WorkerID = w /\ row.PKey = p
  BY <1>0, <1>3, <1>4 DEF PTaskRow
<1>6. Task \in Seq(PTaskRow) /\ Len(Task) = inserted
  BY <1>0, TypeParts DEF SetupInOrder
<1>7. /\ Task' \in Seq(PTaskRow) /\ Len(Task') = inserted + 1
      /\ DOMAIN Task' = DOMAIN Task \cup {inserted + 1} /\ inserted + 1 \notin DOMAIN Task
      /\ \A i \in DOMAIN Task : Task'[i] = Task[i]
      /\ Task'[inserted + 1] = row
  BY <1>3, <1>5, <1>6
<1>8. PartitionedTypeOK'
  BY <1>0, <1>1, <1>3, <1>7, TypeParts, MainType
<1>9. (inserted + 1) - 1 = inserted
  BY <1>0
<1>10. RowsAsInserted'
  <2>1. \A j \in DOMAIN Task' : Task'[j].TaskID = j - 1
    BY <1>0, <1>5, <1>7, <1>9 DEF RowsAsInserted
  <2>2. ~HasWorkers => \A j \in DOMAIN Task' : /\ Task'[j].WorkerID = (j - 1) % NumWorkers
                                               /\ Task'[j].PKey = PKeyOf(Task'[j].WorkerID)
    BY <1>0, <1>3, <1>4, <1>5, <1>7, <1>9 DEF RowsAsInserted, HasWorkers
  <2> QED BY <1>0, <1>1, <1>2, <1>3, <2>1, <2>2 DEF RowsAsInserted, Prefills, HasWorkers, HasTasks
<1>11. TasksCostCapacity'
  <2>1. CASE scheduleAlgo = "scan-task"
    BY <1>0, <1>3, <2>1 DEF RowsAsInserted, HasWorkers, TasksCostCapacity
  <2>2. CASE scheduleAlgo = "fifo-task"
    <3>1. \A i \in DOMAIN Worker : Worker[i].WorkerID # -1
      <4>1. \A i \in DOMAIN Worker : Worker[i].WorkerID = i - 1 /\ i \in Nat /\ i > 0
        BY <1>0 DEF RowsAsInserted, PartitionedTypeOK
      <4> QED BY <4>1
    <3>2. \A v : v # -1 => {j \in DOMAIN Task' : Task'[j].WorkerID = v} = {j \in DOMAIN Task : Task[j].WorkerID = v}
      BY <1>3, <1>5, <1>7, <2>2
    <3>3. TasksCostCapacity
      BY DEF PartitionedInv
    <3> QED BY <1>1, <1>3, <2>2, <3>1, <3>2, <3>3 DEF TasksCostCapacity
  <2> QED BY <1>2, <2>1, <2>2
<1>12. SetupInOrder'
  BY <1>0, <1>1, <1>7 DEF SetupInOrder, SettingUp
<1>13. SettingUp
  BY DEF SettingUp
<1> QED BY <1>1, <1>8, <1>10, <1>11, <1>12, <1>13, MainStill

LEMMA MainInv ==
  ASSUME PartitionedInv, NoWorkerPrograms, Main
  PROVE  PartitionedInv'
<1>0. inserted \in Nat /\ mainFinished \in BOOLEAN /\ numTasks \in Nat \ {0}
  BY TypeParts, PartitionedAssumption DEF PartitionedInv, PartitionedTypeOK
<1>1. ASSUME NEW from, NEW to, TruncateWorkers(from, to),
             \/ from = "truncateWorkers" /\ to = "truncateTasks"
             \/ from = "teardownWorkers" /\ to = "teardownTasks"
      PROVE  PartitionedInv'
  <2>1. /\ UNCHANGED <<options, inserted, mainFinished, thrVars>> /\ mainPc = from /\ mainPc' = to
        /\ \/ Worker' = Worker /\ Task' = Task
           \/ Worker' = <<>> /\ Task' = Task
    BY <1>1 DEF TruncateWorkers, TruncateWorkerTable, tables
  <2> QED BY <1>1, <2>1, TruncateInv
<1>2. ASSUME NEW from, NEW to, TruncateTasks(from, to),
             \/ from = "truncateTasks" /\ to = "insertWorkers"
             \/ from = "teardownTasks" /\ to = "done"
      PROVE  PartitionedInv'
  <2>1. /\ UNCHANGED <<options, inserted, mainFinished, thrVars>> /\ mainPc = from /\ mainPc' = to
        /\ \/ Worker' = Worker /\ Task' = Task
           \/ Worker' = Worker /\ Task' = <<>>
    BY <1>2 DEF TruncateTasks, TruncateTaskTable, tables
  <2> QED BY <1>2, <2>1, TruncateInv
<1>3. CASE InsertLoop("insertWorkers", IF HasWorkers THEN NumWorkers ELSE 0, "insertTasks")
  <2>1. /\ mainPc = "insertWorkers" /\ UNCHANGED <<options, mainFinished, thrVars>>
        /\ \/ /\ HasWorkers /\ inserted < NumWorkers /\ SetupWorker(inserted)
              /\ \/ mainPc' = "insertWorkers" /\ inserted' = inserted + 1
                 \/ mainPc' = "exited" /\ inserted' = inserted
           \/ /\ UNCHANGED tables
              /\ \/ mainPc' = "exited" /\ inserted' = inserted
                 \/ mainPc' = "insertTasks" /\ inserted' = 0
    <3>1. ~(inserted < 0)
      BY <1>0
    <3> QED BY <1>3, <3>1 DEF InsertLoop, SetupInsert
  <2> QED BY <1>0, <2>1, SetupWorkerInv, PassInv DEF thrVars
<1>4. CASE InsertLoop("insertTasks", IF Prefills THEN numTasks ELSE 0, "startThreads")
  <2>1. /\ mainPc = "insertTasks" /\ UNCHANGED <<options, mainFinished, thrVars>>
        /\ \/ /\ Prefills /\ inserted < numTasks /\ SetupTask(inserted)
              /\ \/ mainPc' = "insertTasks" /\ inserted' = inserted + 1
                 \/ mainPc' = "exited" /\ inserted' = inserted
           \/ /\ UNCHANGED tables
              /\ \/ mainPc' = "exited" /\ inserted' = inserted
                 \/ mainPc' = "startThreads" /\ inserted' = 0 /\ (Prefills => inserted = numTasks)
    <3>1. ~(inserted < 0)
      BY <1>0
    <3> QED BY <1>4, <3>1 DEF InsertLoop, SetupInsert
  <2> QED BY <1>0, <2>1, SetupTaskInv, PassInv DEF thrVars
<1>5. CASE StartThreads
  <2>1. ~SettingUp'
    BY <1>5 DEF StartThreads, SettingUp
  <2> QED BY <1>0, <1>5, <2>1, PassInv DEF StartThreads
<1>6. CASE FinishRun
  BY <1>0, <1>6, PassInv DEF FinishRun, thrVars
<1>7. CASE JoinThreads
  <2>1. mainPc' \in {"teardownWorkers", "done"}
    BY <1>7 DEF JoinThreads
  <2> QED BY <1>0, <1>7, <2>1, PassInv DEF JoinThreads, thrVars
<1> QED BY <1>1, <1>2, <1>3, <1>4, <1>5, <1>6, <1>7 DEF Main

LEMMA LeastIn ==
  ASSUME NEW S, S \subseteq Nat, S # {}
  PROVE  Least(S) \in S
<1>1. PICK m \in S : \A y \in S : <<y, m>> \notin OpToRel(<, Nat)
  BY NatLessThanWellFounded, WFMin
<1>2. \A y \in S : m <= y
  <2>1. SUFFICES ASSUME NEW y \in S PROVE m <= y
    OBVIOUS
  <2>2. y \in Nat /\ m \in Nat
    OBVIOUS
  <2>3. y < m => <<y, m>> \in OpToRel(<, Nat)
    BY <2>2, Zenon DEF OpToRel
  <2>4. ~(y < m)
    BY <1>1, <2>3, Zenon
  <2> QED BY <2>2, <2>4
<1> QED BY <1>1, <1>2 DEF Least

LEMMA PartitionedInit == Init => PartitionedInv
<1> SUFFICES ASSUME Init PROVE PartitionedInv
  OBVIOUS
<1>1. Worker = <<>> /\ Task = <<>>
  BY DEF Init, TablesInit
<1>2. numTasks \in NumTasks /\ scheduleAlgo \in Algorithms
  BY PartitionedAssumption, LeastIn DEF Init
<1>3. ActivePartitions \in Nat \ {0}
  BY <1>2, ActiveRange
<1>4. PartitionedTypeOK
  <2>1. <<>> \in Seq(WorkerRow) /\ <<>> \in Seq([TaskID : Nat, WorkerID : Workers \cup {-1}, State : {PENDING}, PKey : AllPKeys])
    OBVIOUS
  <2>2. [pkey |-> 0, count |-> 1] \in [pkey : 0 .. ActivePartitions - 1, count : Nat]
    BY <1>3
  <2>3. probe \in [Threads -> [pkey : 0 .. ActivePartitions - 1, count : Nat]]
    BY <2>2 DEF Init
  <2> QED BY <1>1, <1>2, <2>1, <2>3 DEF Init, PartitionedTypeOK
<1>5. RowsAsInserted
  BY <1>1, TablesAssumption DEF RowsAsInserted
<1>6. SetupInOrder
  BY <1>1 DEF Init, SetupInOrder, SettingUp
<1>7. TasksCostCapacity
  BY <1>1 DEF TasksCostCapacity
<1>8. \A u \in Threads : ThreadOK(u)
  BY DEF Init, ThreadOK
<1> QED BY <1>4, <1>5, <1>6, <1>7, <1>8, InvIs

LEMMA PartitionedNext ==
  ASSUME NoWorkerPrograms, PartitionedInv, [Next]_vars
  PROVE  PartitionedInv'
<1>1. CASE UNCHANGED vars
  <2>1. UNCHANGED <<Worker, Task, scheduleAlgo, numTasks, mainPc, inserted, pc, probe, answer>>
    BY <1>1 DEF vars, tables, mainVars, thrVars, options
  <2>2. UNCHANGED <<mainFinished, schedLatsArrayIndex, taskindex, taskID>>
    BY <1>1 DEF vars, mainVars, thrVars
  <2>3. TablesGood /\ UNCHANGED options
    BY <2>1, StillTables DEF tables, options
  <2>4. PartitionedTypeOK'
    BY <2>1, <2>2 DEF PartitionedInv, PartitionedTypeOK, ActivePartitions
  <2>5. SetupInOrder'
    BY <2>1 DEF PartitionedInv, SetupInOrder, SettingUp, Prefills
  <2>6. Alive' => Alive
    BY <2>1 DEF Alive
  <2> QED BY <2>1, <2>3, <2>4, <2>5, <2>6, MainStill DEF TablesGood
<1> QED BY <1>1, MainInv, ThreadStepInv DEF Next, Over
-----------------------------------------------------------------------------
(* The results.                                                            *)

\* The inductive invariant of the four algorithms without worker programs.
THEOREM PartitionedInvariant ==
  ASSUME NoWorkerPrograms
  PROVE  Spec => []PartitionedInv
<1>1. Init => PartitionedInv
  BY PartitionedInit
<1>2. PartitionedInv /\ [Next]_vars => PartitionedInv'
  BY PartitionedNext
<1> QED BY <1>1, <1>2, PTL DEF Spec

\* Every variable of the four schedulers keeps its type: a partition key that
\* schedule() computes is always that of an active partition.
THEOREM PartitionedTypeCorrect ==
  ASSUME NoWorkerPrograms
  PROVE  Spec => []PartitionedTypeOK
<1>1. PartitionedInv => PartitionedTypeOK
  BY DEF PartitionedInv
<1> QED BY <1>1, PartitionedInvariant, PTL

\* However many threads compete for however many partitions, the assert in
\* schedule() fails only when no worker has any capacity left.
THEOREM AssertOnlyWhenFull ==
  ASSUME NoWorkerPrograms
  PROVE  Spec => []GivesUpOnlyWhenFull
<1>1. PartitionedInv => GivesUpOnlyWhenFull
  BY DEF PartitionedInv
<1> QED BY <1>1, PartitionedInvariant, PTL

\* A worker's tasks never outnumber the capacity taken from it; what fifo-local
\* inserts and takes is the same, also when the process dies in between.
THEOREM TasksArePaidFor ==
  ASSUME NoWorkerPrograms
  PROVE  Spec => []TasksCostCapacity
<1>1. PartitionedInv => TasksCostCapacity
  BY DEF PartitionedInv
<1> QED BY <1>1, PartitionedInvariant, PTL

\* The worker that PartitionedScanTask reports is the busiest of its partition,
\* whichever query found it, and also the worker 0 that a failed one stands for.
THEOREM ScanFindsBusiest ==
  ASSUME NoWorkerPrograms
  PROVE  Spec => []ScanBusiest
<1>1. PartitionedInv => ScanBusiest
  BY DEF PartitionedInv
<1> QED BY <1>1, PartitionedInvariant, PTL
=============================================================================
