------------------------ MODULE PartitionedSchedulers ------------------------
(***************************************************************************)
(* A SyntheticScheduler process running one of the algorithms              *)
(*   "fifo"        PartitionedFIFOScheduler: take capacity from a worker   *)
(*   "fifo-local"  PartitionedLocalFIFOScheduler: from the least busy one, *)
(*                 and insert a task                                       *)
(*   "fifo-task"   PartitionedFIFOTaskScheduler: tasks inserted before the *)
(*                 run are assigned to workers                             *)
(*   "scan-task"   PartitionedScanTask: ask for the worker with most tasks *)
(*                                                                         *)
(* They share the shape of schedule(): ask one partition after the other,  *)
(* and (the last two) all of them in one transaction if that did not help. *)
(* No worker program runs with them: capacity never comes back.  A fifth   *)
(* algorithm, "push-fifo", has workers; PushPipeline extends this module.  *)
(***************************************************************************)
EXTENDS DbosTables

CONSTANTS
  Threads,         \* the scheduler threads (-N)
  Algorithms,      \* the values of -A that are used
  NumTasks,        \* the values of -T that are used
  WorkerCapacity,  \* -C
  CleanDB,         \* -x
  MaxEntries       \* kMaxEntries, the size of the latency array

ASSUME PartitionedAssumption ==
  /\ Algorithms \subseteq {"fifo", "fifo-local", "fifo-task", "scan-task", "push-fifo"}
  /\ NumTasks \subseteq Nat \ {0} /\ NumTasks # {} /\ WorkerCapacity \in Nat /\ MaxEntries \in Nat
  /\ CleanDB \in BOOLEAN

VARIABLES
  scheduleAlgo, numTasks,  \* -A and -T
  mainPc,                  \* where main() is
  inserted,                \* workers or tasks setup() has inserted in this loop
  mainFinished,            \* the run is over: threads leave their loop
  schedLatsArrayIndex,     \* next free entry of the latency array (atomic)
  taskindex,               \* next task id of "fifo-local" (atomic)
  pc,                      \* where each thread is
  taskID,                  \* the task id it is placing
  probe,                   \* its partition, and how many it has asked with this one
  answer                   \* the worker that scan-task told it last

options  == <<scheduleAlgo, numTasks>>
mainVars == <<options, mainPc, inserted, mainFinished>>
thrVars  == <<schedLatsArrayIndex, taskindex, pc, taskID, probe, answer>>
vars     == <<tables, mainVars, thrVars>>

Ended == {"done", "exited", "aborted"}
Alive == mainPc \in {"run", "join"}

Least(S) == CHOOSE x \in S : \A y \in S : x <= y
Most(S)  == CHOOSE x \in S : \A y \in S : y <= x

ActivePartitions ==
  CASE scheduleAlgo \in {"fifo", "fifo-local"} -> Least({Partitions, NumWorkers})
    [] scheduleAlgo = "fifo-task" -> Least({Partitions, Most({NumWorkers, numTasks})})
    [] scheduleAlgo = "scan-task" -> Least({Partitions, numTasks, NumWorkers})
    [] scheduleAlgo = "push-fifo" -> Partitions

\* What an algorithm keeps in the tables.
HasWorkers == scheduleAlgo # "scan-task"
HasTasks   == scheduleAlgo # "fifo"
Prefills   == scheduleAlgo \in {"fifo-task", "scan-task"}

\* -T is of no use to the first two algorithms.
Init ==
  /\ TablesInit
  /\ scheduleAlgo \in Algorithms
  /\ IF Prefills THEN numTasks \in NumTasks ELSE numTasks = Least(NumTasks)
  /\ mainPc = "truncateWorkers" /\ inserted = 0 /\ mainFinished = FALSE
  /\ schedLatsArrayIndex = 0 /\ taskindex = 0
  /\ pc = [t \in Threads |-> "notStarted"]
  /\ taskID = [t \in Threads |-> 0]
  /\ probe = [t \in Threads |-> [pkey |-> 0, count |-> 1]]
  /\ answer = [t \in Threads |-> -1]
-----------------------------------------------------------------------------
(* main(): setup, runBenchmark, teardown.                                  *)

\* A truncation that fails is only reported.
TruncateWorkers(from, to) ==
  /\ mainPc = from
  /\ \/ HasWorkers /\ TruncateWorkerTable
     \/ (~HasWorkers \/ AllowFailures) /\ UNCHANGED tables
  /\ mainPc' = to
  /\ UNCHANGED <<options, inserted, mainFinished, thrVars>>

\* PartitionedScanTask's teardown leaves the tasks.
TruncateTasks(from, to) ==
  /\ mainPc = from
  /\ LET skipped == ~HasTasks \/ (from = "teardownTasks" /\ scheduleAlgo = "scan-task") IN
     \/ ~skipped /\ TruncateTaskTable
     \/ (skipped \/ AllowFailures) /\ UNCHANGED tables
  /\ mainPc' = to
  /\ UNCHANGED <<options, inserted, mainFinished, thrVars>>

SetupWorker(i) == InsertWorker(i, WorkerCapacity, PKeyOf(i))

\* Mutation of SetupTask: the partition follows from the task's id throughout.
SetupTaskById(i) ==
  IF scheduleAlgo = "fifo-task" THEN InsertTask(i, -1, PENDING, i % Partitions)
  ELSE InsertTask(i, i % NumWorkers, PENDING, i % Partitions)

SetupTask(i) ==
  IF scheduleAlgo = "fifo-task" THEN InsertTask(i, -1, PENDING, i % Partitions)
  ELSE InsertTask(i, i % NumWorkers, PENDING, (i % NumWorkers) % Partitions)

\* The insertion that the loop setup is in makes next.
SetupInsert == IF mainPc = "insertWorkers" THEN SetupWorker(inserted) ELSE SetupTask(inserted)

\* One of setup's loops, of limit insertions.  A failure makes setup return
\* false, and main exits.
InsertLoop(place, limit, next) ==
  /\ mainPc = place
  /\ \/ /\ inserted < limit /\ SetupInsert
        /\ inserted' = inserted + 1 /\ UNCHANGED mainPc
     \/ /\ inserted < limit /\ AllowFailures /\ (SetupInsert \/ UNCHANGED tables)
        /\ mainPc' = "exited" /\ UNCHANGED inserted
     \/ /\ inserted = limit /\ UNCHANGED tables
        /\ mainPc' = next /\ inserted' = 0
  /\ UNCHANGED <<options, mainFinished, thrVars>>

StartThreads ==
  /\ mainPc = "startThreads"
  /\ mainPc' = "run"
  /\ pc' = [t \in Threads |-> "turn"]
  /\ UNCHANGED <<tables, options, inserted, mainFinished, schedLatsArrayIndex, taskindex,
                 taskID, probe, answer>>

FinishRun ==
  /\ mainPc = "run"
  /\ mainPc' = "join" /\ mainFinished' = TRUE
  /\ UNCHANGED <<tables, options, inserted, thrVars>>

JoinThreads ==
  /\ mainPc = "join" /\ \A t \in Threads : pc[t] = "finished"
  /\ mainPc' = IF CleanDB THEN "teardownWorkers" ELSE "done"
  /\ UNCHANGED <<tables, options, inserted, mainFinished, thrVars>>

Main ==
  \/ TruncateWorkers("truncateWorkers", "truncateTasks")
  \/ TruncateTasks("truncateTasks", "insertWorkers")
  \/ InsertLoop("insertWorkers", IF HasWorkers THEN NumWorkers ELSE 0, "insertTasks")
  \/ InsertLoop("insertTasks", IF Prefills THEN numTasks ELSE 0, "startThreads")
  \/ StartThreads \/ FinishRun \/ JoinThreads
  \/ TruncateWorkers("teardownWorkers", "teardownTasks")
  \/ TruncateTasks("teardownTasks", "done")
-----------------------------------------------------------------------------
(* SchedulerThread, and the schedule() it calls.                           *)

Goto(t, place) == pc' = [pc EXCEPT ![t] = place]

Asking(t) == pc[t] \in {"probe", "all"}

\* A thread ends the process: what the others have invoked is still on its way.
Die(t) == pc' = [u \in Threads |-> IF u # t /\ Asking(u) THEN pc[u] ELSE "dead"]

NotItsTurn(t) ==
  /\ Alive /\ pc[t] = "turn"
  /\ Goto(t, "loopTest")
  /\ UNCHANGED <<tables, mainVars, schedLatsArrayIndex, taskindex, taskID, probe, answer>>

\* Claim an entry, take a task id, and begin at a random partition, or (on a
\* coin's toss) at once with the transaction on all of them.
Schedule(t) ==
  /\ Alive /\ pc[t] = "turn" /\ schedLatsArrayIndex < MaxEntries
  /\ schedLatsArrayIndex' = schedLatsArrayIndex + 1
  /\ taskID' = [taskID EXCEPT ![t] = taskindex]
  /\ taskindex' = IF scheduleAlgo = "fifo-local" THEN taskindex + 1 ELSE taskindex
  /\ \/ \E p \in 0 .. ActivePartitions - 1 :
          probe' = [probe EXCEPT ![t] = [pkey |-> p, count |-> 1]] /\ Goto(t, "probe")
     \/ Prefills /\ Goto(t, "all") /\ UNCHANGED probe
  /\ UNCHANGED <<tables, mainVars, answer>>

\* The array is full: exit(1).
\* The claim and the exit are one step: a thread that claims between them finds the array
\* full as well, and only exits.
ArrayFull(t) ==
  /\ Alive /\ pc[t] = "turn" /\ schedLatsArrayIndex >= MaxEntries
  /\ schedLatsArrayIndex' = schedLatsArrayIndex + 1
  /\ mainPc' = "exited" /\ Die(t)
  /\ UNCHANGED <<tables, options, inserted, mainFinished, taskindex, taskID, probe, answer>>

\* The procedure invoked by a thread that asks one partition, or all.
Invoke(t, result) ==
  CASE pc[t] = "probe" /\ scheduleAlgo = "fifo" -> SelectWorker(probe[t].pkey, result)
    [] pc[t] = "probe" /\ scheduleAlgo = "fifo-local" ->
         SelectOrderedWorker(probe[t].pkey, taskID[t], result)
    [] pc[t] = "probe" /\ scheduleAlgo = "fifo-task" ->
         SelectPartitionedTaskWorker(probe[t].pkey, result)
    [] pc[t] = "probe" /\ scheduleAlgo = "scan-task" ->
         ScanPartitionedTaskWorker(probe[t].pkey, result)
    [] pc[t] = "all" /\ scheduleAlgo = "fifo-task" -> SelectTaskWorker(result)
    [] pc[t] = "all" /\ scheduleAlgo = "scan-task" -> ScanTaskWorker(result)

\* Mutation of NextPKey: it does not go round.
NextPKeyNotRound(p) ==
  p.pkey + (IF scheduleAlgo \in {"fifo", "fifo-local"} THEN 1 ELSE p.count)

\* The partition asked next: the first two algorithms go round, the others take
\* a longer step each time.
NextPKey(p) ==
  (p.pkey + (IF scheduleAlgo \in {"fifo", "fifo-local"} THEN 1 ELSE p.count))
  % ActivePartitions

\* A worker was found: schedule returns.
Hit(t) ==
  /\ Alive /\ Asking(t)
  /\ \E result \in Workers :
       /\ Invoke(t, result)
       /\ answer' = IF scheduleAlgo = "scan-task" THEN [answer EXCEPT ![t] = result]
                    ELSE answer
  /\ Goto(t, "loopTest")
  /\ UNCHANGED <<mainVars, schedLatsArrayIndex, taskindex, taskID, probe>>

\* Mutation of MissPartition: the last partition is left out.
MissBeforeLast(t) ==
  /\ Alive /\ pc[t] = "probe"
  /\ \E result \in {NOTASK, NOWORKER} :
       /\ Invoke(t, result)
       /\ Goto(t, IF probe[t].count + 1 < ActivePartitions THEN "probe"
                  ELSE IF Prefills THEN "all" ELSE "gaveUp")
  /\ probe' = [probe EXCEPT ![t] = [pkey |-> NextPKey(@), count |-> @.count + 1]]
  /\ UNCHANGED <<mainVars, schedLatsArrayIndex, taskindex, taskID, answer>>

\* None in this partition: try the next one.  After the last, or when fifo-task
\* has a task there but no worker, ask all of them, or give up.
MissPartition(t) ==
  /\ Alive /\ pc[t] = "probe"
  /\ \E result \in {NOTASK, NOWORKER} :
       /\ Invoke(t, result)
       /\ Goto(t, IF /\ probe[t].count < ActivePartitions
                     /\ ~(scheduleAlgo = "fifo-task" /\ result = NOWORKER)
                  THEN "probe" ELSE IF Prefills THEN "all" ELSE "gaveUp")
  /\ probe' = [probe EXCEPT ![t] = [pkey |-> NextPKey(@), count |-> @.count + 1]]
  /\ UNCHANGED <<mainVars, schedLatsArrayIndex, taskindex, taskID, answer>>

MissAll(t) ==
  /\ Alive /\ pc[t] = "all"
  /\ \E result \in {NOTASK, NOWORKER} : Invoke(t, result)
  /\ Goto(t, "gaveUp")
  /\ UNCHANGED <<mainVars, schedLatsArrayIndex, taskindex, taskID, probe, answer>>

\* The assert in schedule fails.
AssertFails(t) ==
  /\ Alive /\ pc[t] = "gaveUp"
  /\ mainPc' = "aborted" /\ Die(t)
  /\ UNCHANGED <<tables, options, inserted, mainFinished, schedLatsArrayIndex, taskindex,
                 taskID, probe, answer>>

\* The invocation fails, executed or not, and so does the assert; but for
\* scan-task false counts as worker 0.
InvokeFails(t) ==
  /\ AllowFailures /\ Alive /\ Asking(t)
  /\ (\E result \in Workers \cup {NOTASK, NOWORKER} : Invoke(t, result)) \/ UNCHANGED tables
  /\ IF scheduleAlgo = "scan-task"
     THEN Goto(t, "loopTest") /\ answer' = [answer EXCEPT ![t] = 0] /\ UNCHANGED mainPc
     ELSE Die(t) /\ mainPc' = "aborted" /\ UNCHANGED answer
  /\ UNCHANGED <<options, inserted, mainFinished, schedLatsArrayIndex, taskindex, taskID,
                 probe>>

LoopTest(t) ==
  /\ Alive /\ pc[t] = "loopTest"
  /\ Goto(t, IF mainFinished THEN "finished" ELSE "turn")
  /\ UNCHANGED <<tables, mainVars, schedLatsArrayIndex, taskindex, taskID, probe, answer>>

\* The process died while the thread waited; the database may still execute.
LateCommit(t) ==
  /\ mainPc \in {"exited", "aborted"} /\ Asking(t)
  /\ \E result \in Workers : Invoke(t, result)
  /\ Goto(t, "dead")
  /\ UNCHANGED <<mainVars, schedLatsArrayIndex, taskindex, taskID, probe, answer>>

Thread(t) ==
  \/ NotItsTurn(t) \/ Schedule(t) \/ ArrayFull(t) \/ Hit(t) \/ MissPartition(t)
  \/ MissAll(t) \/ AssertFails(t) \/ InvokeFails(t) \/ LoopTest(t)

Over == mainPc \in Ended /\ UNCHANGED vars

Next == Main \/ (\E t \in Threads : Thread(t) \/ LateCommit(t)) \/ Over

Spec == Init /\ [][Next]_vars
-----------------------------------------------------------------------------
\* Every variable and every row has its type; a task may have no worker yet.
PartitionedTypeOK ==
  /\ Worker \in Seq(WorkerRow)
  /\ Task \in Seq([TaskID : Nat, WorkerID : Workers \cup {-1}, State : {PENDING},
                   PKey : AllPKeys])
  /\ scheduleAlgo \in Algorithms /\ numTasks \in NumTasks
  /\ mainPc \in {"truncateWorkers", "truncateTasks", "insertWorkers", "insertTasks",
                 "startThreads", "run", "join", "teardownWorkers", "teardownTasks"} \cup Ended
  /\ inserted \in Nat /\ mainFinished \in BOOLEAN
  /\ schedLatsArrayIndex \in Nat /\ taskindex \in Nat
  /\ pc \in [Threads -> {"notStarted", "turn", "probe", "all", "gaveUp", "loopTest",
                         "finished", "dead"}]
  /\ taskID \in [Threads -> Nat]
  /\ probe \in [Threads -> [pkey : 0 .. ActivePartitions - 1, count : Nat]]
  /\ answer \in [Threads -> Workers \cup {-1}]

\* selectWorker and selectTaskWorker give up, and abort the program, only when
\* there is no capacity left in any partition, although they look at the
\* partitions one at a time while other threads take from them.
GivesUpOnlyWhenFull ==
  \A t \in Threads : pc[t] = "gaveUp" => \A i \in DOMAIN Worker : Worker[i].Capacity = 0

\* The tables agree: a worker with tasks has given capacity for each of them
\* (exactly as much when scheduling inserts the task, until teardown), also after
\* failures and what is executed when the process is dead.
TasksCostCapacity ==
  \A i \in DOMAIN Worker :
    LET taken == WorkerCapacity - Worker[i].Capacity
        tasks == {j \in DOMAIN Task : Task[j].WorkerID = Worker[i].WorkerID}
    IN  /\ Cardinality(tasks) <= taken
        /\ scheduleAlgo = "fifo-local" /\ mainPc # "done" => Cardinality(tasks) = taken

\* The worker that scan-task reports has, in the whole table, at least as many
\* tasks as any worker of its partition, whichever of the two queries found it:
\* a worker's tasks are never spread over partitions.
ScanBusiest ==
  \A t \in Threads : Alive /\ answer[t] >= 0 =>
    \A w \in Workers : PKeyOf(w) = PKeyOf(answer[t]) =>
      Cardinality({j \in DOMAIN Task : Task[j].WorkerID = w})
      <= Cardinality({j \in DOMAIN Task : Task[j].WorkerID = answer[t]})
-----------------------------------------------------------------------------
(* The inductive invariant behind these properties.                        *)

SettingUp == mainPc \in {"truncateWorkers", "truncateTasks", "insertWorkers", "insertTasks",
                         "startThreads"}

\* Row i is worker i - 1 or, if setup inserts the tasks, task i - 1.
RowsAsInserted ==
  /\ Len(Worker) <= NumWorkers
  /\ \A i \in DOMAIN Worker : /\ Worker[i].WorkerID = i - 1 /\ Worker[i].PKey = PKeyOf(i - 1)
                              /\ Worker[i].Capacity \in 0 .. WorkerCapacity
  /\ Prefills => \A j \in DOMAIN Task : Task[j].TaskID = j - 1
  /\ ~HasWorkers => /\ Worker = <<>>
                    /\ \A j \in DOMAIN Task : /\ Task[j].WorkerID = (j - 1) % NumWorkers
                                              /\ Task[j].PKey = PKeyOf(Task[j].WorkerID)
  /\ ~HasTasks => Task = <<>>

\* What setup has done so far, with no thread started; threads find tasks.
SetupInOrder ==
  /\ mainPc \in {"truncateWorkers", "truncateTasks"} => Worker = <<>> /\ Task = <<>> /\ inserted = 0
  /\ mainPc = "insertWorkers" => Task = <<>> /\ Len(Worker) = inserted
  /\ mainPc = "insertTasks" => Len(Task) = inserted
  /\ SettingUp => \A t \in Threads : pc[t] = "notStarted" /\ answer[t] = -1
  /\ Prefills /\ mainPc \in {"startThreads", "run", "join"} => Task # <<>>

\* The partitions less than count steps behind: thread t has found them full.
Behind(p) ==
  {q \in 0 .. ActivePartitions - 1 :
     (IF q < p.pkey THEN p.pkey - q ELSE p.pkey - q + ActivePartitions) < p.count}

FullBehind ==
  \A t \in Threads : pc[t] = "probe" /\ ~Prefills =>
    \A i \in DOMAIN Worker : Worker[i].PKey \in Behind(probe[t]) => Worker[i].Capacity = 0

\* Only the algorithms with tasks inserted before the run ask all partitions at
\* once, and only scan-task is told a worker.
ThreadsOfAlgorithm ==
  \A t \in Threads : (pc[t] = "all" => Prefills) /\ (HasWorkers => answer[t] = -1)

\* What every step preserves: what setup puts in the tables, what a thread has
\* found on its way round the partitions, and the properties themselves.
PartitionedInv ==
  /\ PartitionedTypeOK
  /\ RowsAsInserted
  /\ SetupInOrder
  /\ FullBehind
  /\ GivesUpOnlyWhenFull
  /\ TasksCostCapacity
  /\ ThreadsOfAlgorithm
  /\ ScanBusiest
=============================================================================
