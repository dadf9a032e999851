------------------------ MODULE SchedulerWorkerSystem ------------------------
(***************************************************************************)
(* The deployment: one scheduler program and one worker program, sharing   *)
(* nothing but the tables.                                                 *)
(***************************************************************************)
EXTENDS SinglePartitionedFIFO, PollWorker

vars == <<tables, schedVars, workerVars>>

Init == TablesInit /\ SchedInit /\ WorkerInit

\* Both programs are over.
Over == SchedOver /\ WorkersOver /\ UNCHANGED vars

Next ==
  \/ SchedNext /\ UNCHANGED workerVars
  \/ WorkerNext /\ UNCHANGED schedVars
  \/ Over

Spec == Init /\ [][Next]_vars
-----------------------------------------------------------------------------
(* Fairness.  A thread that can run, runs; a thread waiting for lock_      *)
(* eventually gets it (strong fairness: others may take it in between).    *)
(* Failing invocations, spurious wakeups, a program being started again    *)
(* and the end of the worker's run are never required.                     *)

SchedFairness ==
  /\ WF_vars((Main /\ ~StartAgain) /\ UNCHANGED workerVars)
  /\ \A s \in Schedulers : WF_vars(Thread(s) /\ UNCHANGED workerVars)

WorkerFairness ==
  \A w \in Workers :
    /\ WF_vars((Poll(w) \/ NotifyOne(w) \/ DispatchLoopTest(w)) /\ UNCHANGED schedVars)
    /\ SF_vars(Push(w) /\ UNCHANGED schedVars)
    /\ WF_vars((EndServing(w) /\ ~BeginEndServing(w)) /\ UNCHANGED schedVars)
    /\ SF_vars(StopExecutors(w) /\ UNCHANGED schedVars)
    /\ \A e \in Executors :
         /\ WF_vars((FallAsleep(w, e) \/ Complete(w, e)) /\ UNCHANGED schedVars)
         /\ SF_vars((TakeTask(w, e) \/ ExecutorReturns(w, e)) /\ UNCHANGED schedVars)

FairSpec == Spec /\ SchedFairness /\ WorkerFairness
-----------------------------------------------------------------------------
\* Every variable of both programs and every table row has its type.
TypeOK == TablesTypeOK /\ SchedTypeOK /\ WorkerTypeOK

\* The rows of the tasks that take up capacity of worker w.
ActiveTasks(w) ==
  {j \in DOMAIN Task : Task[j].WorkerID = w /\ Task[j].State \in {PENDING, RUNNING}}

\* The run is over and teardown has begun to clear the Task table.
TornDown == schedMain = "done" /\ CleanDB

\* No capacity is lost or made up: what a worker has left and the tasks it has
\* been given and not completed add up to the capacity it was inserted with.
\* SelectSinglePartitionedTaskWorker takes one unit per task it inserts and
\* WorkerUpdateTask gives one back per task it completes, in processes that run
\* concurrently, may lose answers and may die in between.
CapacityConservation ==
  ~TornDown => \A i \in DOMAIN Worker :
    Worker[i].Capacity + Cardinality(ActiveTasks(Worker[i].WorkerID)) = WorkerCapacity

\* Task ids come from an atomic counter and a task is inserted by at most one
\* probe: no two rows are the same task, also when answers get lost.
TaskIdsUnique ==
  \A i, j \in DOMAIN Task : Task[i].TaskID = Task[j].TaskID => i = j

\* Capacity is given back only for a task that becomes complete in that very
\* step: WorkerUpdateTask is never called for a task that is gone or complete.
CapacityOnlyOnCompletion ==
  [][(\E i \in DOMAIN Worker \cap DOMAIN Worker' : Worker'[i].Capacity > Worker[i].Capacity)
     => \E j \in DOMAIN Task \cap DOMAIN Task' :
          Task[j].State = RUNNING /\ Task'[j].State = COMPLETE]_vars

\* selectTaskWorker reports failure ("went through N partitions") only when it
\* has asked every partition that has workers in its last round.
GiveUpAskedAll ==
  \A s \in Schedulers : schedPc[s] = "gaveUp"
                        => probe[s].asked = 0 .. ActivePartitions - 1
-----------------------------------------------------------------------------
(* The tasks inside worker w: fetched, queued or being executed.           *)
Queued(w)    == {taskQueue_[w][i] : i \in DOMAIN taskQueue_[w]}
Executing(w) == {execTask[w][e] : e \in {x \in Executors : execPc[w][x] = "execute"}}
Held(w)      == batch[w] \cup Queued(w) \cup Executing(w)

\* No task is in two places: the dispatcher does not fetch again what it or
\* another worker has fetched, and no two executors have the same task.
NoTaskTwice ==
  \A w \in Workers :
    /\ batch[w] \cap Queued(w) = {}
    /\ (batch[w] \cup Queued(w)) \cap Executing(w) = {}
    /\ \A i, j \in DOMAIN taskQueue_[w] : taskQueue_[w][i] = taskQueue_[w][j] => i = j
    /\ \A d, e \in Executors :
         execPc[w][d] = "execute" /\ execPc[w][e] = "execute"
         /\ execTask[w][d] = execTask[w][e] => d = e
    /\ \A v \in Workers \ {w} : Held(v) \cap Held(w) = {}

\* As long as no invocation fails, a RUNNING task is inside its worker: polling,
\* queueing and shutting down lose none.
NoTaskLost ==
  ~AllowFailures => \A j \in DOMAIN Task :
    Task[j].State = RUNNING => Task[j].TaskID \in Held(Task[j].WorkerID)

\* endServing returns only when every task the worker had fetched is complete;
\* when all workers have ended, every task dispatched was counted as finished.
EndedIsDrained ==
  /\ \A w \in Workers : endPc[w] = "ended" => Held(w) = {}
  /\ (\A w \in Workers : endPc[w] = "ended") => totalTasks_ = totalFinishedTasks_
-----------------------------------------------------------------------------
(* The inductive invariant behind the safety properties, for a scheduler   *)
(* program that is started once (MaxRuns = 1).                             *)

SettingUp == schedMain \in {"truncateWorkers", "truncateTasks", "insertWorkers"}

\* Row i of the Worker table is worker i - 1, and setup works on empty tables.
WorkersAsInserted ==
  /\ Len(Worker) <= NumWorkers
  /\ \A i \in DOMAIN Worker : Worker[i].WorkerID = i - 1 /\ Worker[i].PKey = PKeyOf(i - 1)
  /\ SettingUp => Task = <<>> /\ Len(Worker) = inserted
  /\ schedMain \in {"truncateWorkers", "truncateTasks"} => inserted = 0
  /\ schedMain \in {"teardownWorkers", "teardownTasks"} => CleanDB

\* A task row lies in its worker's partition and its id has been given out.
TasksAsAssigned ==
  \A j \in DOMAIN Task :
    /\ Task[j].WorkerID \in Workers
    /\ Task[j].PKey = PKeyOf(Task[j].WorkerID)
    /\ Task[j].TaskID < taskindex

\* A thread that is still probing has a task that nobody else knows of.
Probing(s) == schedPc[s] \in {"probe", "roundOver"}

FreshTasks ==
  \A s \in Schedulers : Probing(s) =>
    /\ schedTask[s] < taskindex
    /\ \A j \in DOMAIN Task : Task[j].TaskID # schedTask[s]
    /\ \A w \in Workers : schedTask[s] \notin Held(w)
    /\ \A r \in Schedulers \ {s} : Probing(r) => schedTask[r] # schedTask[s]

\* A task inside worker w is a RUNNING task of w, while the table has it.
HeldIsRunning ==
  \A w \in Workers : \A t \in Held(w) :
    /\ t < taskindex
    /\ \A j \in DOMAIN Task : Task[j].TaskID = t => /\ Task[j].WorkerID = w
                                                    /\ Task[j].State = RUNNING
    /\ ~TornDown => \E j \in DOMAIN Task : Task[j].TaskID = t

\* The conjunction that every step preserves: the types, what setup and the
\* probes put in the tables, and what the workers have taken out of them.
SystemInv ==
  /\ TypeOK
  /\ WorkersAsInserted
  /\ TasksAsAssigned
  /\ TaskIdsUnique
  /\ FreshTasks
  /\ HeldIsRunning
  /\ NoTaskTwice
  /\ CapacityConservation
-----------------------------------------------------------------------------
(* The inductive invariant behind EndedIsDrained and NoTaskLost, however   *)
(* often the scheduler program is started.                                 *)

\* How far endServing has come tells what the other threads have left.
ShutdownInOrder ==
  \A w \in Workers :
    /\ dispatchPc[w] \in {"poll", "returned"} => batch[w] = {}
    /\ endPc[w] \notin {"serving", "joinDispatch"} => dispatchPc[w] = "returned"
    /\ endPc[w] \in {"stop", "notifyAll", "joinExecutors", "ended"} => taskQueue_[w] = <<>>
    /\ endPc[w] = "ended" => \A e \in Executors : execPc[w][e] = "returned"

\* A task that has been dispatched is in a queue, in an executor's hands or
\* finished; one that was just pushed is not counted before the notification.
InQueues  == UNION {{w} \X DOMAIN taskQueue_[w] : w \in Workers}
InHands   == {c \in Workers \X Executors : execPc[c[1]][c[2]] = "execute"}
Notifying == {w \in Workers : dispatchPc[w] = "notify"}

TasksCounted ==
  IF workerUp
  THEN /\ IsFiniteSet(InQueues) /\ IsFiniteSet(InHands)
       /\ totalTasks_ + Cardinality(Notifying)
            = totalFinishedTasks_ + Cardinality(InQueues) + Cardinality(InHands)
  ELSE AllowFailures /\ \E w \in Workers, e \in Executors : execPc[w][e] = "dead"

\* Scheduler and worker programs derive a row's partition from its worker.
RowsInPartition ==
  /\ \A i \in DOMAIN Worker : /\ Worker[i].WorkerID \in Workers
                              /\ Worker[i].PKey = PKeyOf(Worker[i].WorkerID)
  /\ \A j \in DOMAIN Task : /\ Task[j].WorkerID \in Workers
                            /\ Task[j].PKey = PKeyOf(Task[j].WorkerID)

\* What every step preserves: the order of the shutdown, the two counters
\* against what is under way, and that no RUNNING task is outside its worker.
DrainInv == TypeOK /\ ShutdownInOrder /\ TasksCounted /\ RowsInPartition /\ NoTaskLost
-----------------------------------------------------------------------------
(* The inductive invariant behind GiveUpAskedAll, which takes at most two  *)
(* active partitions.                                                      *)

\* Only the first partition of a round may leave another one to be asked.
RoundAsksAll ==
  \A s \in Schedulers :
    /\ probe[s].asked \subseteq 0 .. ActivePartitions - 1
    /\ schedPc[s] = "probe" =>
         probe[s].count = 1 \/ 0 .. ActivePartitions - 1 \subseteq probe[s].asked \cup {probe[s].pkey}
    /\ schedPc[s] \in {"roundOver", "gaveUp"} => probe[s].asked = 0 .. ActivePartitions - 1
-----------------------------------------------------------------------------
(* Each task of the tables as a task of the abstract specification.        *)
StageOf(state) ==
  CASE state = PENDING -> "pending" [] state = RUNNING -> "running"
    [] state = COMPLETE -> "complete"

LifeOf(row) == [task |-> row.TaskID, worker |-> row.WorkerID, stage |-> StageOf(row.State)]

Life == {LifeOf(Task[j]) : j \in DOMAIN Task}

Lifecycle == INSTANCE TaskLifecycle WITH Capacity <- WorkerCapacity, life <- Life

\* Scheduler and workers together implement the life cycle of tasks.
ImplementsLifecycle == Lifecycle!Spec
-----------------------------------------------------------------------------
Rows(t, state) == {j \in DOMAIN Task : Task[j].TaskID = t /\ Task[j].State = state}

\* A task a worker has fetched is completed, unless the table is cleared: no
\* wakeup of an executor gets lost, and endServing waits for the task.
RunningCompletes ==
  \A t \in 0 .. MaxEntries - 1 : Rows(t, RUNNING) # {} ~> Rows(t, RUNNING) = {}

\* A task waiting for worker w is fetched, unless the worker is told to stop.
PendingStarts ==
  \A t \in 0 .. MaxEntries - 1, w \in Workers :
    (\E j \in Rows(t, PENDING) : Task[j].WorkerID = w)
      ~> (Rows(t, PENDING) = {} \/ endPc[w] # "serving")

\* Once begun, endServing returns: no thread it joins waits for ever.
EndServingReturns ==
  \A w \in Workers : endPc[w] = "joinDispatch" ~> endPc[w] = "ended"

\* The scheduler program comes to an end, at the latest when its threads have
\* tried MaxTry rounds in vain.
SchedulerEnds == <>(schedMain \in Ended)
=============================================================================
