--------------------------- MODULE SparkScheduler ---------------------------
(***************************************************************************)
(* A program with one SparkScheduler: main sets up the database and the    *)
(* MockGRPCWorkers, clients call schedule (from one thread of a benchmark, *)
(* or from the handler threads of a SchedulerServer), and in the end main  *)
(* tears down and destroys the scheduler.  The scheduler has two threads   *)
(* of its own: one places queued tasks on workers (processTaskQueue), one  *)
(* receives the workers' replies (finishRequests).                         *)
(*                                                                         *)
(* taskProcessMutex is held by the queue thread from when it wakes up      *)
(* until it waits again, across all its calls; the other critical sections *)
(* are one step each.                                                      *)
(***************************************************************************)
EXTENDS Integers, Sequences, FiniteSets

CONSTANTS
  Clients,         \* threads that call schedule
  NumWorkers, Partitions, WorkerCapacity,
  FirstTaskIDs,    \* what the uninitialised counter taskIDs may hold
  MaxTasks,        \* bound: calls of schedule
  AllowFailures    \* may a procedure or an RPC fail?

ASSUME SparkAssumption ==
  /\ NumWorkers \in Nat \ {0} /\ Partitions \in Nat \ {0} /\ WorkerCapacity \in Nat \ {0}
  /\ FirstTaskIDs # {} /\ FirstTaskIDs \subseteq Int
  /\ MaxTasks \in Nat /\ AllowFailures \in BOOLEAN

VARIABLES
  Worker,             \* rows [WorkerID, Capacity, DataShards, PKey]
  DataLocation,       \* rows [DataShard, PKey]
  mainPc,             \* where main is
  servers,            \* number of workers whose gRPC server was started
  taskIDs,            \* next task id (atomic)
  calls,              \* calls of schedule so far
  clientPc,           \* where each client is
  clientTask,         \* the TaskData on its stack: [taskID, targetData]
  taskQueue,          \* the clients whose TaskData is queued (pointers to it)
  queuePc,            \* where processTaskQueue is
  chosen,             \* the worker it has selected
  rpcs,               \* calls in flight: [taskID, workerID, replied]
  finishPc,           \* where finishRequests is
  finishing,          \* the call it has received
  taskCompletionSet,
  runTaskQueueThread,
  executed            \* history: the tasks some worker has executed

tables     == <<Worker, DataLocation>>
mainVars   == <<mainPc, servers, runTaskQueueThread>>
clientVars == <<taskIDs, calls, clientPc, clientTask>>
queueVars  == <<queuePc, chosen>>
finishVars == <<finishPc, finishing, taskCompletionSet>>
vars == <<tables, mainVars, clientVars, taskQueue, queueVars, rpcs, finishVars, executed>>

Workers == 0 .. NumWorkers - 1
NoTask  == [taskID |-> 0, targetData |-> 0]
NoCall  == [taskID |-> 0, workerID |-> 0, replied |-> FALSE]

\* The two threads of the scheduler object are at these places.
InitWith(queueAt, finishAt) ==
  /\ Worker = <<>> /\ DataLocation = {}
  /\ mainPc = "truncate" /\ servers = 0 /\ runTaskQueueThread = TRUE
  /\ taskIDs \in FirstTaskIDs /\ calls = 0
  /\ clientPc = [c \in Clients |-> "idle"]
  /\ clientTask = [c \in Clients |-> NoTask]
  /\ taskQueue = <<>>
  /\ queuePc = queueAt /\ chosen = 0
  /\ rpcs = {}
  /\ finishPc = finishAt /\ finishing = NoCall /\ taskCompletionSet = {}
  /\ executed = {}

\* The constructor starts them.
Init == InitWith("start", "next")

Dead  == mainPc \in {"exited", "aborted"}
Alive == ~Dead

\* The process ends, and its threads and its memory with it.
Die(how) ==
  /\ mainPc' = how /\ servers' = 0 /\ UNCHANGED <<runTaskQueueThread, taskIDs, calls>>
  /\ clientPc' = [c \in Clients |-> "dead"] /\ clientTask' = [c \in Clients |-> NoTask]
  /\ taskQueue' = <<>> /\ queuePc' = "returned" /\ chosen' = 0
  /\ rpcs' = {} /\ finishPc' = "returned" /\ finishing' = NoCall
  /\ taskCompletionSet' = {} /\ executed' = {}

\* An assert fails.
Abort == Die("aborted")

\* taskProcessMutex is free.
ProcessMutexFree == queuePc \in {"start", "waiting", "woken", "returned"}
-----------------------------------------------------------------------------
(* The stored procedures.                                                  *)

TruncateWorkerTable == Worker' = <<>> /\ DataLocation' = {}

InsertSparkWorker(workerID, capacity, workerData, pkey) ==
  /\ Worker' = Append(Worker, [WorkerID |-> workerID, Capacity |-> capacity,
                               DataShards |-> workerData, PKey |-> pkey])
  /\ DataLocation' = DataLocation \cup {[DataShard |-> workerData, PKey |-> pkey]}

\* SELECT DISTINCT PKey FROM DataLocation WHERE DataShard=?
SelectDataShardPartition(shard) ==
  {r.PKey : r \in {q \in DataLocation : q.DataShard = shard}}

SetCapacity(pkey, workerID, capacity) ==
  Worker' = [i \in DOMAIN Worker |->
               IF Worker[i].PKey = pkey /\ Worker[i].WorkerID = workerID
               THEN [Worker[i] EXCEPT !.Capacity = capacity]
               ELSE Worker[i]]

\* Mutation of SelectSparkWorker: the capacity is not taken.
SelectWithoutTaking(pkey, targetData, workerID) ==
  /\ \E i \in DOMAIN Worker : /\ Worker[i].PKey = pkey /\ Worker[i].Capacity > 0
                              /\ Worker[i].DataShards = targetData
                              /\ workerID = Worker[i].WorkerID
  /\ UNCHANGED tables

SelectSparkWorker(pkey, targetData, workerID) ==
  LET fit == {i \in DOMAIN Worker : /\ Worker[i].PKey = pkey /\ Worker[i].Capacity > 0
                                    /\ Worker[i].DataShards = targetData}
  IN \/ fit = {} /\ workerID = -1 /\ UNCHANGED tables
     \/ \E i \in fit : /\ workerID = Worker[i].WorkerID
                       /\ SetCapacity(pkey, workerID, Worker[i].Capacity - 1)
                       /\ UNCHANGED DataLocation

\* Its second UPDATE is on the Task table, which has no row of a Spark task.
FinishWorkerTask(workerID, pkey) ==
  LET rows == {i \in DOMAIN Worker : Worker[i].PKey = pkey /\ Worker[i].WorkerID = workerID}
  IN /\ \/ rows = {} /\ UNCHANGED Worker
        \/ \E i \in rows : SetCapacity(pkey, workerID, Worker[i].Capacity + 1)
     /\ UNCHANGED DataLocation
-----------------------------------------------------------------------------
(* main: setup, teardown, the destructor.                                  *)

\* setup and teardown begin by clearing the tables; a failure is only reported.
Truncate(from, to) ==
  /\ mainPc = from
  /\ TruncateWorkerTable \/ (AllowFailures /\ UNCHANGED tables)
  /\ mainPc' = to
  /\ UNCHANGED <<servers, runTaskQueueThread, clientVars, taskQueue, queueVars, rpcs,
                 finishVars, executed>>

\* insertWorker: one worker per data shard, its row first, then its server.
InsertWorker ==
  /\ mainPc = "insert" /\ servers < NumWorkers
  /\ InsertSparkWorker(servers, WorkerCapacity, servers, servers % Partitions)
  /\ servers' = servers + 1
  /\ UNCHANGED <<mainPc, runTaskQueueThread, clientVars, taskQueue, queueVars, rpcs,
                 finishVars, executed>>

InsertWorkerFails ==
  /\ AllowFailures
  /\ mainPc = "insert" /\ servers < NumWorkers
  /\ \/ InsertSparkWorker(servers, WorkerCapacity, servers, servers % Partitions)
     \/ UNCHANGED tables
  /\ Die("exited")

SetupDone(to) ==
  /\ mainPc = "insert" /\ servers = NumWorkers
  /\ mainPc' = to
  /\ UNCHANGED <<tables, servers, runTaskQueueThread, clientVars, taskQueue, queueVars,
                 rpcs, finishVars, executed>>

\* Every client is back from schedule, and calls it no more.
RunDone ==
  /\ mainPc = "run" /\ \A c \in Clients : clientPc[c] = "idle"
  /\ mainPc' = "teardown"
  /\ UNCHANGED <<tables, servers, runTaskQueueThread, clientVars, taskQueue, queueVars,
                 rpcs, finishVars, executed>>

EndServing(to) ==
  /\ mainPc = "endServing"
  /\ servers' = 0
  /\ mainPc' = to
  /\ UNCHANGED <<tables, runTaskQueueThread, clientVars, taskQueue, queueVars, rpcs,
                 finishVars, executed>>

\* ~SparkScheduler: cq_.Shutdown(), then the flag ...
Shutdown ==
  /\ mainPc = "shutdown"
  /\ runTaskQueueThread' = FALSE
  /\ mainPc' = "notify"
  /\ UNCHANGED <<tables, servers, clientVars, taskQueue, queueVars, rpcs, finishVars,
                 executed>>

\* Mutation of NotifyQueueThread: no notification.
NotifyForgotten ==
  /\ mainPc = "notify" /\ ProcessMutexFree
  /\ mainPc' = "join"
  /\ UNCHANGED <<tables, servers, runTaskQueueThread, clientVars, taskQueue, queueVars,
                 rpcs, finishVars, executed>>

\* ... then, under taskProcessMutex, the notification.
NotifyQueueThread ==
  /\ mainPc = "notify" /\ ProcessMutexFree
  /\ queuePc' = IF queuePc = "waiting" THEN "woken" ELSE queuePc
  /\ mainPc' = "join"
  /\ UNCHANGED <<tables, servers, runTaskQueueThread, clientVars, taskQueue, chosen, rpcs,
                 finishVars, executed>>

Join ==
  /\ mainPc = "join" /\ queuePc = "returned" /\ finishPc = "returned"
  /\ mainPc' = "done"
  /\ UNCHANGED <<tables, servers, runTaskQueueThread, clientVars, taskQueue, queueVars,
                 rpcs, finishVars, executed>>

Main ==
  \/ Truncate("truncate", "insert") \/ InsertWorker \/ SetupDone("run")
  \/ Truncate("teardown", "endServing") \/ EndServing("shutdown")
  \/ Shutdown \/ NotifyQueueThread \/ Join
-----------------------------------------------------------------------------
(* schedule(), called by client c.                                         *)

\* Mutation of Schedule: data shards counted from 1.
ScheduleFromOne(c) ==
  /\ mainPc = "run" /\ clientPc[c] = "idle" /\ calls < MaxTasks
  /\ \E d \in 1 .. NumWorkers :
       clientTask' = [clientTask EXCEPT ![c] = [taskID |-> taskIDs, targetData |-> d]]
  /\ taskIDs' = taskIDs + 1 /\ calls' = calls + 1
  /\ clientPc' = [clientPc EXCEPT ![c] = "enqueue"]
  /\ UNCHANGED <<tables, mainVars, taskQueue, queueVars, rpcs, finishVars, executed>>

Schedule(c) ==
  /\ mainPc = "run" /\ clientPc[c] = "idle" /\ calls < MaxTasks
  /\ \E d \in Workers :
       clientTask' = [clientTask EXCEPT ![c] = [taskID |-> taskIDs, targetData |-> d]]
  /\ taskIDs' = taskIDs + 1 /\ calls' = calls + 1
  /\ clientPc' = [clientPc EXCEPT ![c] = "enqueue"]
  /\ UNCHANGED <<tables, mainVars, taskQueue, queueVars, rpcs, finishVars, executed>>

\* Under taskProcessMutex: push a pointer to the TaskData, wake the queue thread.
Enqueue(c) ==
  /\ Alive /\ clientPc[c] = "enqueue" /\ ProcessMutexFree
  /\ taskQueue' = Append(taskQueue, c)
  /\ queuePc' = IF queuePc = "waiting" THEN "woken" ELSE queuePc
  /\ clientPc' = [clientPc EXCEPT ![c] = "check"]
  /\ UNCHANGED <<tables, mainVars, taskIDs, calls, clientTask, chosen, rpcs, finishVars,
                 executed>>

\* Mutation of CheckCompletion: if instead of while.
CheckOnce(c) ==
  /\ Alive /\ clientPc[c] \in {"check", "recheck"}
  /\ clientPc' = [clientPc EXCEPT ![c] =
       IF clientTask[c].taskID \in taskCompletionSet \/ clientPc[c] = "recheck"
       THEN "idle" ELSE "asleep"]
  /\ UNCHANGED <<tables, mainVars, taskIDs, calls, clientTask, taskQueue, queueVars, rpcs,
                 finishVars, executed>>

\* Under taskCompletionMutex, which only a sleeping client gives up: return if
\* the task is complete, else wait.
CheckCompletion(c) ==
  /\ Alive /\ clientPc[c] \in {"check", "recheck"}
  /\ clientPc' = [clientPc EXCEPT ![c] =
                    IF clientTask[c].taskID \in taskCompletionSet THEN "idle" ELSE "asleep"]
  /\ UNCHANGED <<tables, mainVars, taskIDs, calls, clientTask, taskQueue, queueVars, rpcs,
                 finishVars, executed>>

\* taskCompletionCV.wait returns on its own.
ClientWakes(c) ==
  /\ Alive /\ clientPc[c] = "asleep"
  /\ clientPc' = [clientPc EXCEPT ![c] = "recheck"]
  /\ UNCHANGED <<tables, mainVars, taskIDs, calls, clientTask, taskQueue, queueVars, rpcs,
                 finishVars, executed>>
-----------------------------------------------------------------------------
(* processTaskQueue().                                                     *)

\* The loop's condition, with taskProcessMutex held.  The wait has no predicate:
\* what was queued before it is not looked at.
LoopTest ==
  /\ Alive
  /\ queuePc = "start" \/ (queuePc = "drain" /\ taskQueue = <<>>)
  /\ queuePc' = IF runTaskQueueThread THEN "waiting" ELSE "returned"
  /\ UNCHANGED <<tables, mainVars, clientVars, taskQueue, chosen, rpcs, finishVars, executed>>

\* taskProcessCV.wait returns on its own.
QueueThreadWakes ==
  /\ Alive /\ queuePc = "waiting"
  /\ queuePc' = "woken"
  /\ UNCHANGED <<tables, mainVars, clientVars, taskQueue, chosen, rpcs, finishVars, executed>>

\* Woken up, it gets the mutex again.
Drain ==
  /\ Alive /\ queuePc = "woken"
  /\ queuePc' = "drain"
  /\ UNCHANGED <<tables, mainVars, clientVars, taskQueue, chosen, rpcs, finishVars, executed>>

FrontTask == clientTask[Head(taskQueue)]

\* One turn of selectWorker's loop: ask a partition that has the task's data
\* for a worker, and ask again if there is none.
SelectWorker ==
  /\ Alive /\ queuePc = "drain" /\ taskQueue # <<>>
  /\ \E p \in SelectDataShardPartition(FrontTask.targetData) :
     \E w \in Workers \cup {-1} :
       /\ SelectSparkWorker(p, FrontTask.targetData, w)
       /\ IF w = -1 THEN UNCHANGED queueVars ELSE queuePc' = "assign" /\ chosen' = w
  /\ UNCHANGED <<mainVars, clientVars, taskQueue, rpcs, finishVars, executed>>

\* The procedure fails, executed or not: -1, on which the caller asserts.
SelectWorkerFails ==
  /\ AllowFailures
  /\ Alive /\ queuePc = "drain" /\ taskQueue # <<>>
  /\ \/ \E p \in SelectDataShardPartition(FrontTask.targetData), w \in Workers :
          SelectSparkWorker(p, FrontTask.targetData, w)
     \/ UNCHANGED tables
  /\ Abort

\* No partition is known to have the data: the choice among none divides by 0.
NoTargetPartition ==
  /\ Alive /\ queuePc = "drain" /\ taskQueue # <<>>
  /\ SelectDataShardPartition(FrontTask.targetData) = {}
  /\ Abort
  /\ UNCHANGED tables

\* assignTaskToWorker: start the RPC.
AssignTaskToWorker ==
  /\ Alive /\ queuePc = "assign"
  /\ rpcs' = rpcs \cup {[taskID |-> FrontTask.taskID, workerID |-> chosen, replied |-> FALSE]}
  /\ queuePc' = "pop"
  /\ UNCHANGED <<tables, mainVars, clientVars, taskQueue, chosen, finishVars, executed>>

\* Mutation of Pop: the task stays at the front.
PopForgotten ==
  /\ Alive /\ queuePc = "pop"
  /\ queuePc' = "drain"
  /\ UNCHANGED <<tables, mainVars, clientVars, taskQueue, chosen, rpcs, finishVars, executed>>

Pop ==
  /\ Alive /\ queuePc = "pop"
  /\ taskQueue' = Tail(taskQueue)
  /\ queuePc' = "drain"
  /\ UNCHANGED <<tables, mainVars, clientVars, chosen, rpcs, finishVars, executed>>

ProcessTaskQueue ==
  LoopTest \/ Drain \/ SelectWorker \/ NoTargetPartition \/ AssignTaskToWorker \/ Pop
-----------------------------------------------------------------------------
(* The workers, and finishRequests().                                      *)

\* A handler thread of the worker's server has executed the task and replies.
SubmitTask(r) ==
  /\ Alive /\ ~r.replied
  /\ rpcs' = (rpcs \ {r}) \cup {[r EXCEPT !.replied = TRUE]}
  /\ executed' = executed \cup {r.taskID}
  /\ UNCHANGED <<tables, mainVars, clientVars, taskQueue, queueVars, finishVars>>

\* The RPC fails: finishRequests asserts on its status.
RpcFails(r) ==
  /\ AllowFailures
  /\ Alive /\ ~r.replied /\ finishPc = "next"
  /\ Abort
  /\ UNCHANGED tables

\* Mutation of CompleteTask: notify_all forgotten.
CompleteSilently(r) ==
  /\ Alive /\ finishPc = "next" /\ r.replied
  /\ rpcs' = rpcs \ {r} /\ finishing' = r
  /\ taskCompletionSet' = taskCompletionSet \cup {r.taskID}
  /\ finishPc' = "update"
  /\ UNCHANGED <<tables, mainVars, clientVars, taskQueue, queueVars, executed>>

\* finishTask, first half: tell the clients, under taskCompletionMutex.
CompleteTask(r) ==
  /\ Alive /\ finishPc = "next" /\ r.replied
  /\ rpcs' = rpcs \ {r} /\ finishing' = r
  /\ taskCompletionSet' = taskCompletionSet \cup {r.taskID}
  /\ clientPc' = [c \in Clients |-> IF clientPc[c] = "asleep" THEN "recheck" ELSE clientPc[c]]
  /\ finishPc' = "update"
  /\ UNCHANGED <<tables, mainVars, taskIDs, calls, clientTask, taskQueue, queueVars, executed>>

\* Second half: give the worker its capacity back.
UpdateWorker ==
  /\ Alive /\ finishPc = "update"
  /\ FinishWorkerTask(finishing.workerID, finishing.workerID % Partitions)
  /\ finishPc' = "next"
  /\ UNCHANGED <<mainVars, clientVars, taskQueue, queueVars, rpcs, finishing,
                 taskCompletionSet, executed>>

\* That fails without having been executed: reported, and forgotten.
UpdateWorkerFails ==
  /\ AllowFailures
  /\ Alive /\ finishPc = "update"
  /\ finishPc' = "next"
  /\ UNCHANGED <<tables, mainVars, clientVars, taskQueue, queueVars, rpcs, finishing,
                 taskCompletionSet, executed>>

\* The completion queue is shut down and empty.
FinishRequestsReturns ==
  /\ Alive /\ finishPc = "next" /\ ~runTaskQueueThread /\ rpcs = {}
  /\ finishPc' = "returned"
  /\ UNCHANGED <<tables, mainVars, clientVars, taskQueue, queueVars, rpcs, finishing,
                 taskCompletionSet, executed>>

FinishRequests ==
  (\E r \in rpcs : CompleteTask(r)) \/ UpdateWorker \/ FinishRequestsReturns

\* What is up to the condition variables, and what may fail.
Unasked ==
  \/ QueueThreadWakes \/ SelectWorkerFails \/ UpdateWorkerFails
  \/ \E r \in rpcs : RpcFails(r)

Client(c) == Schedule(c) \/ Enqueue(c) \/ CheckCompletion(c) \/ ClientWakes(c)

Over == (Dead \/ mainPc = "done") /\ UNCHANGED vars

\* The threads of the scheduler, and those of the workers.
Threads == ProcessTaskQueue \/ FinishRequests \/ Unasked \/ \E r \in rpcs : SubmitTask(r)

Next ==
  \/ Main \/ InsertWorkerFails \/ RunDone
  \/ \E c \in Clients : Client(c)
  \/ Threads
  \/ Over

Spec == Init /\ [][Next]_vars

(* Every thread runs when it can, a mutex that is free again and again is  *)
(* got in the end, and workers reply.  Nobody is obliged to call schedule, *)
(* to wake up unnotified, to fail, or to end the run.                      *)
Fairness ==
  /\ WF_vars(Main)
  /\ SF_vars(NotifyQueueThread)
  /\ \A c \in Clients : SF_vars(Enqueue(c)) /\ WF_vars(CheckCompletion(c))
  /\ WF_vars(ProcessTaskQueue)
  /\ WF_vars(FinishRequests)
  /\ WF_vars(\E r \in rpcs : SubmitTask(r))

FairSpec == Spec /\ Fairness
-----------------------------------------------------------------------------
TaskData == [taskID : Int, targetData : Workers]
Rpc      == [taskID : Int, workerID : Workers, replied : BOOLEAN]

\* Every variable of the program and every table row has its type.
SparkTypeOK ==
  /\ Worker \in Seq([WorkerID : Workers, Capacity : Int, DataShards : Workers, PKey : Nat])
  /\ DataLocation \subseteq [DataShard : Workers, PKey : Nat]
  /\ mainPc \in {"truncate", "insert", "run", "teardown", "endServing", "shutdown",
                 "notify", "join", "done", "exited", "aborted"}
  /\ servers \in 0 .. NumWorkers /\ runTaskQueueThread \in BOOLEAN
  /\ taskIDs \in Int /\ calls \in Nat
  /\ clientPc \in [Clients -> {"idle", "enqueue", "check", "recheck", "asleep", "dead"}]
  /\ clientTask \in [Clients -> TaskData]
  /\ taskQueue \in Seq(Clients)
  /\ queuePc \in {"start", "waiting", "woken", "drain", "assign", "pop", "returned"}
  /\ chosen \in Workers
  /\ rpcs \subseteq Rpc
  /\ finishPc \in {"next", "update", "returned"} /\ finishing \in Rpc
  /\ taskCompletionSet \subseteq Int /\ executed \subseteq Int

\* The tasks that hold a unit of worker w's capacity.
Assigned(w) ==
  {r.taskID : r \in {q \in rpcs : q.workerID = w}}
    \cup (IF queuePc = "assign" /\ chosen = w THEN {FrontTask.taskID} ELSE {})
    \cup (IF finishPc = "update" /\ finishing.workerID = w THEN {finishing.taskID} ELSE {})

\* A worker's capacity and the tasks that hold some of it never exceed what it
\* was inserted with, and add up to it if no invocation fails: the queue thread
\* takes a unit and the reply thread gives it back, after the client has already
\* been told.
SparkCapacity ==
  mainPc = "run" => \A i \in DOMAIN Worker :
    LET total == Worker[i].Capacity + Cardinality(Assigned(Worker[i].WorkerID))
    IN /\ Worker[i].Capacity >= 0
       /\ total <= WorkerCapacity
       /\ ~AllowFailures => total = WorkerCapacity

\* The queue holds pointers into the stacks of clients: as long as it may be
\* followed, the client is still inside the schedule that made it.
FramesAlive ==
  \A i \in DOMAIN taskQueue :
    \/ clientPc[taskQueue[i]] \in {"check", "recheck", "asleep"}
       /\ clientTask[taskQueue[i]].taskID \notin taskCompletionSet
    \/ i = 1 /\ queuePc = "pop"

\* schedule returns only when a worker has executed the caller's own task.
ReturnsAfterExecution ==
  [][\A c \in Clients : clientPc[c] # "idle" /\ clientPc'[c] = "idle"
                        => clientTask[c].taskID \in executed]_vars

\* "Create and schedule a task, return when task complete": schedule returns.
ScheduleReturns ==
  \A c \in Clients : clientPc[c] = "enqueue" ~> clientPc[c] = "idle"

\* An invocation has failed that would have given a worker its capacity back.
CapacityLost ==
  \E i \in DOMAIN Worker :
    Worker[i].Capacity + Cardinality(Assigned(Worker[i].WorkerID)) < WorkerCapacity

\* It does for every task queued when the queue thread has reached its wait,
\* unless the process dies or a worker is left without its capacity.
ServedScheduleReturns ==
  \A c \in Clients :
    clientPc[c] = "enqueue" /\ queuePc # "start" ~> clientPc[c] = "idle" \/ Dead \/ CapacityLost

\* The destructor returns: both threads it joins end, whatever they are doing
\* when it sets the flag.
DestructorReturns == mainPc = "shutdown" ~> mainPc \notin {"shutdown", "notify", "join"}
=============================================================================
