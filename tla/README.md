# DBOS scheduler: TLA+ specifications and proofs

This directory specifies the scheduler prototypes of DBOS: programs that keep
the state of a cluster scheduler in a distributed database (VoltDB) and make
every scheduling decision in a stored procedure.  The modules are written from
the sources in `src/` (below, paths are relative to the repository's root
except where they start with `src/sql` and the like, which are the repository's
own directories).  TLC checks small instances; TLAPS proves the central results
for all values of the constants.

## 1. The system

| part | state it keeps | operations | interacts with |
|---|---|---|---|
| Tables and stored procedures (`sql/`) | `Worker` (id, capacity, partition key), `Task` (id, worker, state, partition key), `DataLocation`, `Message`, the export stream | one transaction per procedure | every program, by `invoke` (synchronous) or with a callback |
| Schedulers (`src/libs/lib_scheduler`) | a task counter, parameters | `setup`, `teardown`, `schedule`, `asyncSchedule` | called by the benchmark threads; call procedures |
| SparkScheduler and SchedulerServer | task queue, completion set, two threads, gRPC calls in flight | `schedule`, `processTaskQueue`, `finishRequests`, destructor | clients block in `schedule`; workers answer RPCs |
| MockPollWorker (`src/libs/lib_worker`) | task queue, stop flags, a dispatcher and executors | `startServing`, `dispatch`, `execute`, `endServing` | polls and updates the tables |
| MockGRPCWorker, MockHTTPWorker | a server thread | `startServing`, `SubmitTask`, `endServing` | called by SparkScheduler, by the exporter |
| HttpTaskExporter (`exporter/`) | none between rows | `processRow` | takes rows from VoltDB's export stream, posts to workers |
| SyntheticScheduler, AsyncSyntheticScheduler, SyntheticWorker, LoadGenerator, the communication benchmarks (`src/simulation`) | latency array and its atomic index, `mainFinished`, threads | `main`, `runBenchmark`, one loop per thread | start, stop and drive the parts above |
| Utilities (`src/libs/lib_util`) | none | percentiles, random generators | benchmarks |

Scheduler and worker programs share nothing but the tables.  What makes the
system hard to test:

* several scheduler threads and worker threads interleave on a few rows, with
  one or no unit of capacity left;
* an invocation may fail after the database has executed it, and processes end
  abruptly (`assert`, `abort`, `exit(1)`) while other threads have invocations
  under way that are still executed;
* probing runs over partitions one transaction at a time, so each answer is old
  when the next one is asked for;
* condition variables are notified with the lock released, once without a
  predicate, and the worker's shutdown reads a queue's size without its lock;
* callbacks run only inside an event loop that other callbacks break;
* the queue of `SparkScheduler` holds pointers to the stack frames of callers;
  the worker program deletes an HTTP worker whose thread may still be handling a
  request;
* a pushed task is delivered by an exporter that may repeat a row or give it up;
* sockets tear messages apart, and their buffers fill;
* a program may be started again on what an earlier run left in the tables.

`PROJECT.json` lists these as hazards, each at its line, with the properties
that cover it or the reason why none does yet.

What makes each part correct:

* tables and task schedulers: capacity is never lost nor made up; a task is
  given to one worker, starts once, completes once; a scheduler gives up only
  after it has asked everywhere;
* poll worker: a task fetched is executed once and reported; none is left in the
  queue with everybody asleep; `endServing` drains and returns;
* SparkScheduler: `schedule` returns after its own task was executed, and does
  return; no dangling pointer is followed; the destructor returns;
* the other synchronous schedulers: a thread gives up only when there is no
  capacity left in any partition; the two tables agree;
* asynchronous scheduler: the count of outstanding requests is right whenever a
  callback decides on it; every request is accounted for; the program ends;
* database messaging: a round is over when exactly its own messages have been
  received; nobody waits for ever;
* push pipeline: a task placed on a worker is on its way there until it is
  complete; capacity and running tasks add up; the worker program ends;
* gRPC and TCP messaging: rounds do not run into each other whatever a read
  returns, no two sides block each other, and the client ends.

## 2. Modules

| module | stands for | extends |
|---|---|---|
| `DbosTables` | the Worker and Task tables; the procedures InsertWorker, TruncateWorkerTable, TruncateTaskTable, SelectSinglePartitionedTaskWorker, SelectWorker, SelectOrderedWorker, InsertTask, SelectPartitionedTaskWorker, SelectTaskWorker, ScanPartitionedTaskWorker, ScanTaskWorker, WorkerSelectTask, WorkerUpdateTask | |
| `SinglePartitionedFIFO` | a SyntheticScheduler process running `single-partitioned-fifo-task`: `main`, its threads, SinglePartitionedFIFOTaskScheduler | `DbosTables` |
| `PollWorker` | a SyntheticWorker process with MockPollWorkers | `DbosTables` |
| `SchedulerWorkerSystem` | both programs on the same tables; the properties; the refinement mapping | both |
| `TaskLifecycle` | the abstract specification: what happens to a task | |
| `SparkScheduler` | a program with one SparkScheduler, its MockGRPCWorkers and its clients; the Spark procedures | |
| `LoadGenerator` | the programs that use a SparkScheduler: TestSparkScheduler, and LoadGenerator with a SchedulerServer | `SparkScheduler` |
| `PartitionedSchedulers` | a SyntheticScheduler process running `fifo`, `fifo-local`, `fifo-task` or `scan-task` | `DbosTables` |
| `PushPipeline` | the same process running `push-fifo`, the export stream with HttpTaskExporter, and a SyntheticWorker process with MockHTTPWorkers | `PartitionedSchedulers` |
| `AsyncScheduler` | an AsyncSyntheticScheduler process with one of its three schedulers, or a CommunicationBench process, and the database executing its requests | `DbosTables`, `Totals` |
| `DBComm` | DBCommBenchClient and DBCommBenchServer on the Message table | `Totals` |
| `MessagingBench` | GrpcBenchClient with GrpcBenchServer, TCPBenchClient with TCPBenchServer | `Totals` |
| `Totals` | sums over finite sets, used by the three modules above | |
| `MCSystem`, `MCPartitioned` | `SchedulerWorkerSystem` and `PartitionedSchedulers` with a symmetry set for TLC | |
| `SystemProofs` | theorems on scheduler and workers: types, `SystemInv`, capacity, giving up, the shutdown of the workers, the refinement of `TaskLifecycle` | `SchedulerWorkerSystem` |
| `PartitionedProofs` | theorems on `fifo`, `fifo-local`, `fifo-task`, `scan-task` | `PartitionedSchedulers` |
| `PushProofs` | theorems on the push pipeline | `PushPipeline`, `PartitionedProofs` |
| `SparkProofs` | theorems on SparkScheduler and LoadGenerator | `LoadGenerator` |
| `TotalsProofs` | lemmas on sums: what changing one or more summands does | `Totals` |
| `AsyncProofs` | theorems on the asynchronous scheduler and CommunicationBench | `AsyncScheduler`, `TotalsProofs` |
| `DBCommProofs` | theorems on the database messaging benchmark | `DBComm`, `TotalsProofs` |
| `MessagingProofs` | theorems on the gRPC and TCP benchmarks | `MessagingBench`, `TotalsProofs` |

### How state and actions correspond to the code

A stored procedure is a serializable transaction: one operator relates the
tables before and after it to the value the client gets.  Tables are sequences
of rows, because neither has a primary key and an UPDATE changes every row it
matches.  `SELECT ... LIMIT 1` without ORDER BY is a choice among the matching
rows.  The `ASSUMEUNIQUE` index on TaskID is enforced per partition key.

A call of `invoke` is the step in which the database commits.  With
`AllowFailures` it may also come back as a failure, executed or not; and when a
process dies with an invocation under way the database may execute it later
(`LateCommit`, `LatePoll`, `LateComplete`).  Exceptions of the VoltDB client
are not told apart from failures that end the process.

*Scheduler program.*  `schedMain` is the place of `main`: truncate both tables,
insert the workers, start the threads, end the run, join, clear the tables if
`-x` was given.  A truncation that fails is only reported, as in the code.
Each thread claims an entry of the latency array (`ClaimEntry`, or `ArrayFull`:
`exit(1)`; the claim and the exit are one step, since once the array is full a
thread that claims between them can only exit too), takes a task id (`Schedule`) and runs the two loops of
`selectTaskWorker`: `ProbeHit`, `ProbeMiss` with `NextPKey`, `NextRound`, and
`AssertFails` after `MaxTry` rounds.  `asked` is a history variable: the partitions asked in
the round the thread is in.
`StartAgain` starts the program anew with all statics reset.

*Worker program.*  For each worker: the dispatcher polls, pushes the rows one by
one under `lock_` and notifies with the lock released; an executor that finds
the predicate of `cv_.wait` false holds `lock_` until it is asleep
(`goingToSleep`), takes a task, executes it, reports it; `endServing` is one
action per statement.  Wakeups may be spurious.

*The other synchronous schedulers.*  They are used without a worker program, so
their capacity is never given back.  Which of the four runs (`-A`) is chosen in
the initial state.  They share the shape of `schedule`: ask one partition, and
on a miss the next (`MissPartition`; `fifo` and `fifo-local` go round, the other
two take longer steps), then, for the two that know `probMultiTx`, all of them
in one transaction (`MissAll`), with which they may also begin.  `Invoke` names
the procedure.  A failure ends the program, except that `scan-task` returns
`false` where a worker id is expected, which passes its assert as worker 0.

*SparkScheduler.*  The queue thread holds `taskProcessMutex` from when it is
woken until it waits again, during all of its calls, so `Enqueue` and the
destructor's notification wait for it.  Its wait has no predicate.  `schedule`
pushes a pointer to its own stack frame: the queue holds client names, and
`FrontTask` follows the pointer.  `finishTask` completes the task first and
gives the capacity back second.  `taskIDs` is never initialised, so it starts
anywhere in `FirstTaskIDs`.  A failing assert ends the process: its threads and
memory are gone, the tables stay.

*Load generator.*  `program` is chosen in the initial state.  `"test"` is the
main of `SparkScheduler`.  `"load"` lets a first scheduler object do the setup
and destroys it (`LoadSetup`), then makes a second one that it serves
(`StartScheduler`) and never destroys; a ClientThread and the server thread that
calls `schedule` for it are one.  `"load-fifo"` is the same with the default
algorithm, whose setup writes worker rows without data locations: the first task
finds no partition, and the process dies in `NoTargetPartition`.  The reply
thread of the leaked scheduler goes on after `JoinClients`, with a database
client of its own.  The object that `teardown` makes is not modelled
beyond its calls: it lives like the first one.

*Push pipeline.*  `PushTask` inserts the task as RUNNING and a row into the
stream `TaskAssign`.  VoltDB's own part is external: it hands each row to
`processRow` at least once, in any order, and is done with it when that returns;
when it returns false the row may not come again (`ProcessRowFails`).  The HTTP
worker answers before it reports (`ProcessRow`, then `HandleRequest`).
`endServing` only sets a flag and the object is deleted: from then on
(`freed`) the dispatch thread may go on, read the flag as anything, send wrong
ids, or crash.  `LookAtFlag` and `FallAsleep` are the two halves of
`mainCv.wait`; `FinishWorkers` and `NotifyAll` run without `mainLock`.  `lost`
and `updates` are history variables, used to state what the properties except.

*Asynchronous scheduler.*  Each thread has a VoltDB client.  `sent` holds the
requests the database has not executed, `replies` the answers the thread has not
looked at: a callback runs only while its thread is in `runOnce` or `drain`
(`InEventLoop`).  `Callback` is the whole of `SchedulerCallback::callback` when a
worker was found; a failure or a full array is `exit(1)`, no worker a failing
assert.  The callback's result breaks `runOnce`; it also makes `drain` return
false, but then `drain` is called again, so it ends only when nothing is left.
Requests are executed in any order, also after the process has died.  Which
scheduler is used (`-A`) is chosen in the initial state.  CommunicationBench is
the same program with two more ways to send: `broadcast` invokes
BroadcastMessage, `send` invokes SendMessage once per partition but counts one
request, and gives it one parameter of four, so that it always fails.

*Database messaging.*  Sender i is endpoint i, receiver i endpoint i + 100; the table is
the number of rows per receiver and sender, as no program looks at the contents.
One set of actions covers the threads of both programs, whose `dbos_send`,
`dbos_recv` and `SendCallback` are the same: a batch is issued, the event loop
runs until the callback's counter meets zero, then the thread polls.  Each
program has a barrier its threads pass once, after the first exchange.  Whether
the client broadcasts (`-b`) is chosen in the initial state; the server is
started with the numbers that fit, so that every receiver has one sender, as the
comment in its `dbos_recv` assumes.

*gRPC and TCP messaging.*  The benchmark (`mode`) is chosen in the initial
state.  A message is `MsgSize` units over TCP, which `read` and `write` move one
at a time (any split of a message is a sequence of such steps), and one unit over
gRPC.  A connection is the number of units on their way in each direction, at
most `Buffer` for a stream or a socket.  One set of actions covers the three
kinds of sender threads, which all send a round, receive as much and record.
The server may die: gRPC reports it, a socket may also read as empty for ever
(`ReadsNothing`).

*Life cycle.*  A row of `Task` maps to a record of `TaskLifecycle` with its
stage.  The abstract specification has no capacity counter: it says that a
worker never has more than `Capacity` tasks to do.

Operators whose comment begins with "Mutation of" are variants of the operator
they precede, with a plausible mistake; `PROJECT.json` names the property that
detects each.  No specification uses them.

## 3. Runs

| run | instance | shows |
|---|---|---|
| `system_failures` | 2 scheduler threads, 1 worker with 2 executors, capacity 2, 3 tasks, lost answers and dying processes | the inductive invariant `SystemInv`, `EndedIsDrained`, that the system implements `TaskLifecycle`, and that capacity comes back only with a completion (tables kept at the end) |
| `system_partitions` | 2 workers in 2 partitions, no failures | `CapacityConservation`, `NoTaskLost`, `NoTaskTwice`, and `GiveUpAskedAll`: a thread that gives up asked both partitions in its last round |
| `system_liveness` | 1 thread, 1 worker, 2 executors | tasks start and complete, `endServing` returns, the scheduler program ends |
| `probe_three_partitions` | 3 workers in 3 partitions | **violation** of `GiveUpAskedAll` |
| `scheduler_restart` | the scheduler is started twice | **violation** of `CapacityOnlyOnCompletion` |
| `spark` | 2 clients, 2 workers, 3 calls, failures, TestSparkScheduler and LoadGenerator with both algorithms | the inductive invariant `SparkInv`; `SparkCapacity`, `FramesAlive`, `ReturnsAfterExecution`; `schedule` returns once the queue thread waits; destructors return |
| `spark_lost_wakeup` | 1 client, 1 call | **violation** of `ScheduleReturns` |
| `partitioned_failures` | 2 threads, 4 workers in 3 partitions, 1 or 5 tasks, each of four schedulers, failures | the inductive invariant `PartitionedInv`; `GivesUpOnlyWhenFull`, `TasksCostCapacity`, `ScanBusiest` |
| `push_pipeline` | 2 threads, 1 worker, 2 tasks, 2 partitions, each row exported at most twice, failures | the inductive invariant `PushInv`; `PushCapacity`, `NoTaskForgotten`; pushed tasks complete, control threads end |
| `async_failures` | 2 threads, 3 requests, 3 workers in 2 partitions, each of three schedulers and both kinds of messages, failures | the inductive invariant `AsyncInv`; `OutstandingCounted`, `EveryRequestRecorded`, `LoadBalanced`, and that the program ends |
| `dbcomm_failures` | 2 pairs, or 1 sender broadcasting to 2 receivers; batches of 2; failures | the inductive invariant `CommInv`; `BatchExact`, `RoundsDoNotOverlap`, and that the client ends unless an invocation failed |
| `messaging` | 2 senders, batches of 2, 2 receivers, messages of 3 units, buffers of 2, all five modes, failures | the inductive invariant `MessagingInv`; `RoundsInStep`, `AnswersFollowBatch`, and that the client ends |

The three violations are places where the code does not do what its own comment
says:

* `selectTaskWorker` steps by `pkey + count` with a growing `count`, so its
  probe sequence is triangular.  It visits every partition only when their
  number is a power of two; with three, a round is p, p+1, p and the next one
  starts at p again.  The thread gives up ("went through 3 partitions") and its
  assert ends the program while the worker of the third partition is free.
* `WorkerUpdateTask` gives one unit of capacity back whether or not it found
  the task it is to complete.  If the tables are set up anew while a worker
  executes a task of the previous run, that worker ends up with more capacity
  than it was given.
* the queue thread of SparkScheduler waits before it looks at the queue.  A
  `schedule` that comes before its first wait is not noticed, and never returns
  unless another call follows.

Some more of what the code does is written into the models and excepted, case by
case, from the properties that would otherwise exclude it:

* the worker program sets `mainFinished` and notifies `mainCv` without
  `mainLock`.  A control thread that stands between its look at the flag and its
  sleep misses both, and main joins it for ever.  `WorkersEnd`, which holds,
  excepts exactly this thread.
* SelectPartitionedTaskWorker and SelectTaskWorker "Select an available Task."
  (`sql/SelectPartitionedTaskWorker.java:28`) but take any row: a task is
  assigned again, to another worker, and both workers have given capacity for
  it.  `TasksCostCapacity` is therefore an inequality for `fifo-task`.
* LoadGenerator's `-A` chooses the scheduler that does the setup; the one it
  serves is always a SparkScheduler.  With the default, `fifo`, no data location
  is written, and the first task takes a remainder by zero
  (`NoTargetPartition`); `ServedScheduleReturns` excepts a process that died.
* a row that VoltDB exports twice gives its worker's capacity back twice;
  `PushCapacity` excepts the worker whose task was updated twice.
* a TCP sender whose server died may read nothing for ever;
  `MessagingClientEnds` excepts it.
* a poll whose answer is lost leaves its tasks RUNNING for ever; `NoTaskLost` is
  stated without failures, `SystemInv` with them.
* a FinishWorkerTask that fails loses a unit of capacity: `SparkCapacity` is an
  inequality once something has failed.
* `asyncSendMessage` counts one request for several: with `send`,
  `OutstandingCounted` only says that the count is not too high.

### Bounds

`MaxEntries` (the code's 2^26) bounds the number of requests and so the task
ids; with 3, threads compete for the last unit of capacity, a worker frees
capacity behind a probe, and the array-full exit happens.  Two executors are
needed for a notification to reach the wrong one, two scheduler threads for two
probes of one partition, capacity 2 for a worker with a pending and a running
task, two rounds (`MaxTry`, 1000 in the code) for a second round to differ from the
first.  `MaxRuns` bounds restarts of the scheduler program.  In the Spark
module `MaxTasks` = 3 calls let a client call again, with the capacity of its
first task not yet given back.  For the synchronous schedulers, 4 workers of
capacity 1 and 5 entries let a thread find nothing left; with 3 partitions one
of them has two workers; 1 task leaves partitions without a task, 5 give worker
0 more than the others.  In the asynchronous module `MaxCalls` bounds the
requests sent: with 3, and one worker of capacity 2 in a partition, an answer
"no worker" exists, both threads have requests under way at once, and `MaxEntries`
= 2 lets one answer find the array full; once the bound is reached a thread goes
on testing for the end of the run without sending.  In `PushPipeline`, 2 tasks
and a capacity (`HttpCapacity`, 999999999 in the code) of 2 put one task on its
way while another is handled; 2 partitions and one worker leave a partition
empty, so a probe goes on; `MaxDeliveries` = 2 repeats a row once.  In
`MessagingBench` a buffer of 2 is smaller than a message of 3, so a sender blocks
within a message, and `MaxEntries` = 4 gives each sender two rounds.  In `DBComm`, batches of 2 are
the smallest that can be received in two polls, and `MaxEntries` = 2 bounds the
rounds.

### Fairness

Weak fairness for every thread: a thread that can go on does so, and the
database answers.  Strong fairness for steps that need a mutex which others take
and release in between (`Push`, `TakeTask`, `ExecutorReturns`, `StopExecutors`;
`Enqueue`, `NotifyQueueThread`): the pthread mutexes of the platform do not
guarantee it formally, but a waiter is starved only if it loses every one of
infinitely many races.  The end of the scheduler's run is bound to come
(`totalExecTimeMsec`); the worker's end, failures, spurious wakeups, restarts
and calls of clients are not required.  The asynchronous scheduler and the
messaging benchmarks need weak fairness only.  In the push pipeline the exporter,
the dispatch threads, the control threads and the notification are fair; the
scheduler, the end of the run and failures are not.  Liveness of the system is checked without failures.  Where failures are allowed
the properties name the ones they except, because the code does not retry:
`ServedScheduleReturns` a process that died and a worker whose capacity was lost,
the database messaging client a failed invocation, `PushedCompletes` a failed
request or report.  The asynchronous program ends with failures too.

## 4. Proofs

The constants are assumed to be what the programs accept (`TablesAssumption`,
`SchedulerAssumption`, `WorkerAssumption`, `PartitionedAssumption`,
`PushAssumption`, `SparkAssumption`, `LoadAssumption`, `AsyncAssumption`,
`CommAssumption`, `MessagingAssumption`): parameters are naturals; the numbers
of workers, partitions, rounds and runs, the batch size, the choices for the
number of tasks and, for the push pipeline, the size of the latency array (2^26
in the code) are not zero, nor are, for the messaging benchmarks, the numbers of
senders, receivers and messages and the sizes of a message and a buffer.
`DBComm` has at most 100 senders: sender i and receiver i are the endpoints i
and i + 100, which would be the same endpoint for two threads if there were
more. Threads may be any sets; where requests are counted over threads
(`AsyncScheduler`) they are finite. Everything below holds for all such values,
with `AllowFailures` as it may be, unless a hypothesis is named.

| theorem | says | hypothesis |
|---|---|---|
| `TypeCorrect` | `Spec => []TypeOK` of the deployed system, any number of restarts | |
| `SystemInvariant`, `CapacityIsConserved`, `TasksAreExecutedOnce` | `SystemInv`, `CapacityConservation`, `NoTaskTwice` | `MaxRuns = 1` |
| `GivingUpAsksAll` | `GiveUpAskedAll` | `ActivePartitions <= 2` |
| `CapacityComesWithCompletion` | `CapacityOnlyOnCompletion` | `MaxRuns = 1`, `CleanDB = FALSE` |
| `LifecycleImplemented` | `Spec => ImplementsLifecycle` | `MaxRuns = 1` |
| `DrainInvariant`, `NoRunningTaskIsLost`, `EndServingDrains` | `DrainInv`, `NoTaskLost`, `EndedIsDrained` | |
| `PartitionedInvariant`, `PartitionedTypeCorrect`, `AssertOnlyWhenFull`, `TasksArePaidFor`, `ScanFindsBusiest` | `PartitionedInv`, `PartitionedTypeOK`, `GivesUpOnlyWhenFull`, `TasksCostCapacity`, `ScanBusiest` | `NoWorkerPrograms` |
| `PushInvariant`, `PushTypeCorrect`, `PushedTasksArePaid`, `PushedTasksAreTracked` | `PushInv`, `PushTypeOK`, `PushCapacity`, `NoTaskForgotten` | |
| `SparkInvariant`, `SparkTypeCorrect`, `PointersStayValid`, `SparkCapacityBalances`, `ScheduleWaitsForExecution` | `SparkInv`, `SparkTypeOK`, `FramesAlive`, `SparkCapacity`, `ReturnsAfterExecution` | |
| `AsyncInvariant`, `AsyncTypeCorrect`, `OutstandingIsExact`, `NoRequestIsLost`, `PartitionsStayLevel` | `AsyncInv`, `AsyncTypeOK`, `OutstandingCounted`, `EveryRequestRecorded`, `LoadBalanced` | |
| `CommInvariant`, `BatchesAreExact`, `RoundsAreSeparate` | `CommInv`, `BatchExact`, `RoundsDoNotOverlap` | |
| `MessagingInvariant`, `RoundsStayInStep`, `AnswersComeAfter` | `MessagingInv`, `RoundsInStep`, `AnswersFollowBatch` | |

The hypotheses are needed.  `scheduler_restart` refutes what is said under
`MaxRuns = 1` for two runs; clearing the tables while workers still execute
makes their updates find no task; `probe_three_partitions` refutes
`GiveUpAskedAll` for three partitions.  `NoWorkerPrograms` (`push-fifo` is not
among the algorithms) says that `PartitionedSchedulers` by itself is the four
schedulers that run without workers; the fifth is run by `PushPipeline`, with
theorems of its own.

The inductive invariants are conjunctions of named parts, the type invariant of
the module first.  Those of whole programs are invariants of a run as well
(section 3).  `DrainInv` and `RoundAsksAll`, used for one result each, are in no
run; TLC confirms them when they are added to `SystemFailures.cfg` and
`SystemPartitions.cfg`.

**Scheduler and workers (`SystemInv`).**  `CapacityConservation` is not
inductive.  A probe preserves it only if it inserts one row and lowers one row's
capacity, so worker rows must be unique (`WorkersAsInserted`); a completion only
if the task has one row (`TaskIdsUnique`), which is RUNNING and belongs to the
worker that completes it (`HeldIsRunning`).  `HeldIsRunning` in turn needs that
no two threads hold one task (`NoTaskTwice`), and a poll or a late commit must
not bring in a task somebody has already (`FreshTasks`: the id a thread is
placing is in no row and in no worker, and no other thread places it).
`TasksAsAssigned` links a row's partition to its worker, and its id to the
counter.  `NextInv` proves that every action preserves the conjunction, one
lemma per group of actions.  The lemmas on sequences of rows say what
`SetCapacity`, `SetTaskState` and `NewTask` leave as it was, and how the set of
active tasks grows or shrinks by one.

For the refinement, a probe that hits is `Assign` (`CapacityConservation` gives
that the worker has fewer than `WorkerCapacity` active tasks), a poll is
`Start`, a completion is `Finish`, a truncation of the Task table is `Clear`,
and every other step leaves the mapped state unchanged.

**Giving up (`RoundAsksAll`).**  A round of at most two partitions leaves
something to ask only while `count` is 1; after that the partition asked next
and those already asked are all.

**Worker program (`DrainInv`).**  `endServing` looks at the queue once, without
the lock.  That this is enough rests on the order of the shutdown
(`ShutdownInOrder`): the dispatcher has returned, with nothing left of its last
batch, before the queue is looked at, and only the dispatcher pushes; executors
return only when the queue is empty.  For the counters, tasks counted as
dispatched, plus one where a dispatcher is between push and count, are those
finished, queued or in an executor's hands (`TasksCounted`).  `NoTaskLost` needs
that a poll and a completion touch only rows of the worker's own partition
(`RowsInPartition`).  None of this needs `MaxRuns = 1`.

**Synchronous schedulers (`PartitionedInv`).**  `GivesUpOnlyWhenFull` says
something about all partitions when the last of them is asked.  `FullBehind`
carries it there: the partitions that lie fewer than `count` steps behind the
probe, modulo their number, have no capacity left, which stays so because
capacity never comes back.  `TasksCostCapacity` needs that row i is worker i - 1
(`RowsAsInserted`), so that the update of a capacity hits one row; for
`fifo-task` an assignment moves a task from one worker to another, which only
lowers the number of tasks of the first.  `ScanBusiest` needs that a worker's
tasks are all in its partition.

**Push pipeline (`PushInv`).**  A report changes a worker's capacity by one and
the tasks RUNNING by as many rows as have the id, so a task must have one row
(`PushTaskRows`), go to one worker, that of its row (`OneWorker`), and a thread
must place an id nobody knows yet (`UnusedNowhere`).  That `updates` keeps its
bound, a part of `PushTypeOK`, needs that a task is not reported more often than
it was delivered (`DeliveriesCounted`).

**SparkScheduler (`SparkInv`).**  That the pointers in the queue are alive needs
that nobody completes a task that is still queued: ids are distinct among the
clients inside `schedule`, the calls in flight and the completed tasks
(`IdsDistinct`), a queued task is in flight only while the queue thread is about
to pop it, and a client is queued once (`QueuedOnce`).  `ExecutedFirst`, from a
worker's reply through the completion set to the client, gives
`ReturnsAfterExecution`, an action property.  `SparkCapacity` also uses
`SetupQuiet`: while a scheduler object does the setup, its threads find nothing
to do.

**Asynchronous scheduler (`AsyncInv`).**  `RequestsCounted` says that the calls
made are the latencies recorded plus what is with the database or with the
client; `EveryRequestRecorded` the same for the units of capacity taken.  Both
sum over threads and rows.

**Sums.**  `Total` is the cardinality of a disjoint union, `SumOf` the case of
numbers.  Stated so, and not as a fold, facts about sums follow from those about
finite sets and need no induction over data: `TotalsProofs` has what one more or
one fewer element in one place does, that a sum is at least each of its
summands, and that it is zero when they are.
`LoadBalanced` is inductive once capacities are in range: SelectOrderedWorker
takes from a row that has most.

**Database messaging (`CommInv`).**  `BatchExact` is about the moment a poll
takes all rows of a thread; what may be there depends on what everybody else has
sent and has still to send.  `SenderInStep` is the account: in a round, what the
sender has received, what the table holds for it and what is still due to it
make at most its batch.  Due from a receiver are its SendMessages not executed
yet and, as long as it owes an answer (something of the round is on its way to
it, collected by it, or it is about to answer), a whole batch of answers.  This
is preserved only if no receiver answers twice in a round, which is
`ReceiverInStep`: at most one batch lies before it, none of its answers are under
way while it owes more, and the sender it has noted is its own.  `OnlyLinks`
keeps other endpoints out of the sums.  `BatchCounted` says that `m_count` is
exactly the number of callbacks to come, so that the event loop ends when, and
only when, all of a batch is answered.  Invocations that fail make the account
an inequality.  `RoundsDoNotOverlap` follows from `SenderInStep` outside a round.

**gRPC and TCP messaging (`MessagingInv`).**  `RoundCounted` says, for each
sender, that what is under way on all of its connections (sent and not read, read
and not written back, written and not received) and what it has received is no
more than it sent in this round.  When it has received as much as it sent,
nothing can be under way: that is `RoundsInStep`.  `SocketFlow` says in which
order a connection works: a receiver that reads has nothing on its way back, or
has answered its whole batch; one that writes has read all of it.  It gives
`AnswersFollowBatch`.  `EntriesClaimed` is about the latency array: a thread
claims an entry first (`Record`) and looks at the index after, so with several
senders the index may pass the array by one for each thread that is about to
exit (`"full"`, then `ArrayFull`), and by no more.  A broadcaster serves its receivers one after the other, so
how much went to one of them (`SentTo`) is what its total exceeds the units
for those before it.  The products of message size and number of messages are
kept out of the provers' way: each is named once, and the lemmas use only that it
is positive.

Two attempts corrected the specification.  `AsyncTypeOK` had the partition of a
request below the number of active partitions, which is false of `send`, that
loops over all partitions also when there are fewer workers; the instance TLC
checks has more workers than partitions.  `PushTypeOK` is false of a latency
array without entries, which the code does not have.

Every safety property that a run checks and expects to hold is thereby proved.
Only model-checked are the liveness properties (`RunningCompletes`,
`PendingStarts`, `EndServingReturns`, `SchedulerEnds`, `ServedScheduleReturns`,
`DestructorReturns`, `AsyncRunEnds`, `PushedCompletes`, `WorkersEnd`,
`ClientEnds`, `MessagingClientEnds`): they rest on fairness, and fairness and
ENABLED are out of the prover's reach.

## 5. Not modelled

* `computeStats` and the random generators: sequential floating-point code over
  an array nobody writes any more.
* `finishTask` of PartitionedFIFOScheduler and PartitionedLocalFIFOScheduler,
  which nobody calls: it gives FinishWorkerTask two parameters of three, so every
  call would fail.
* AsyncSyntheticScheduler and CommunicationBench without setup (`-X`), and an
  AsyncSyntheticScheduler next to a second process, whose task ids are the same.
* Several broadcasting senders; a messaging client started again on what an
  earlier one left in the table (its `teardown` is a stub).  Several senders that
  broadcast over TCP: a receiver accepts one connection.
* The handler Broadcast of GrpcBenchServer, which no client calls.
* `taskQueue_.size()` in `endServing` is read without the lock; the model reads
  it in one step, where the real read of several pointers could be torn.
* Two SparkScheduler objects alive at once (LoadGenerator with several
  SchedulerServers, a SyntheticScheduler's threads), which share the static
  vector of workers.
* Latency figures, output, command lines, gRPC and HTTP themselves, the VoltDB
  client, build files.

## 6. Plan

Done: `DbosTables`, `SinglePartitionedFIFO`, `PollWorker`, their composition and
its refinement; `PartitionedSchedulers`; `PushPipeline`; `SparkScheduler` and
`LoadGenerator`; `AsyncScheduler`; `DBComm`; `MessagingBench`; inductive
invariants and proofs of the safety properties of all of them.  What would come
next, in this order:

1. An abstract specification for pushed tasks: `TaskLifecycle` with repeated
   delivery.
2. A client of `DBComm` that is started again on what an earlier one left.
3. Several SchedulerServers (LoadGenerator with `-S`), which share the static
   vector of workers.
