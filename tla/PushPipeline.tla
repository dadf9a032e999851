----------------------------- MODULE PushPipeline -----------------------------
(***************************************************************************)
(* Tasks pushed to workers: a SyntheticScheduler with -A push-fifo places  *)
(* a task with the procedure PushTask, which also writes it to the stream  *)
(* TaskAssign; VoltDB's HttpTaskExporter sends each row of the stream to   *)
(* the worker's url; the MockHTTPWorkers of a SyntheticWorker answer the   *)
(* request and then report the task complete.                              *)
(*                                                                         *)
(* The scheduler's program is that of PartitionedSchedulers.  How VoltDB   *)
(* runs its exporter is not part of the repository: a row is exported at   *)
(* least once, in no particular order, unless processRow returns false.    *)
(***************************************************************************)
EXTENDS PartitionedSchedulers

CONSTANTS
  HttpCapacity,   \* the capacity a MockHTTPWorker registers with (999999999)
  MaxDeliveries   \* bound: how often a row is exported

ASSUME PushAssumption ==
  HttpCapacity \in Nat \ {0} /\ MaxDeliveries \in Nat \ {0} /\ MaxEntries # 0

VARIABLES
  TaskAssign,       \* rows still to be exported: [TaskID, Url, sent], a worker for its
                    \* url, and how often its worker has received it
  updates,          \* history: per task, updates the database has executed
  lost,             \* history: tasks of which a request or an update has failed
  workerMain,       \* where the main() of the worker program is
  workersFinished,  \* its mainFinished
  control,          \* where the WorkerThread of each worker is
  dispatch,         \* where the dispatch thread of each worker is
  stopDispatch,     \* stopDispatch_
  freed,            \* the MockHTTPWorker has been deleted
  handling          \* the task that handle_request is about

stream     == <<TaskAssign, lost>>
workerProg == <<workerMain, workersFinished, control>>
server     == <<dispatch, stopDispatch, freed, handling>>
pipeVars   == <<stream, updates, workerProg, server>>
allVars    == <<vars, pipeVars>>

TaskIds  == 0 .. MaxEntries - 1
WorkerUp == workerMain \in {"run", "notify", "join"}

PushInit ==
  /\ Init /\ scheduleAlgo = "push-fifo"
  /\ TaskAssign = {} /\ lost = {}
  /\ updates = [i \in TaskIds |-> 0]
  /\ workerMain = "run" /\ workersFinished = FALSE
  /\ control = [w \in Workers |-> "insert"]
  /\ dispatch = [w \in Workers |-> "none"]
  /\ stopDispatch = [w \in Workers |-> FALSE] /\ freed = [w \in Workers |-> FALSE]
  /\ handling = [w \in Workers |-> 0]
-----------------------------------------------------------------------------
(* PushFIFOScheduler.                                                      *)

\* Mutation of PushTask: the row for the exporter is forgotten.
PushWithoutStream(pkey, taskId, status) ==
  /\ UNCHANGED TaskAssign
  /\ \/ AvailableWorkers(pkey) = {} /\ status = NOWORKER /\ UNCHANGED tables
     \/ \E i \in AvailableWorkers(pkey) :
          /\ status = SUCCESS
          /\ ~ViolatesTaskIndex(pkey, taskId)
          /\ NewTask(taskId, Worker[i].WorkerID, RUNNING, pkey)
          /\ SetCapacity(pkey, Worker[i].WorkerID, Worker[i].Capacity - 1)

\* The task is RUNNING as soon as it has a worker, and on its way there.
PushTask(pkey, taskId, status) ==
  \/ AvailableWorkers(pkey) = {} /\ status = NOWORKER /\ UNCHANGED <<tables, TaskAssign>>
  \/ \E i \in AvailableWorkers(pkey) :
       /\ status = SUCCESS
       /\ ~ViolatesTaskIndex(pkey, taskId)
       /\ NewTask(taskId, Worker[i].WorkerID, RUNNING, pkey)
       /\ SetCapacity(pkey, Worker[i].WorkerID, Worker[i].Capacity - 1)
       /\ TaskAssign' = TaskAssign \cup {[TaskID |-> taskId, Url |-> Worker[i].WorkerID,
                                        sent |-> 0]}

\* setup and teardown clear the Task table, and leave the workers alone.
PushMain ==
  /\ \/ TruncateTasks("truncateWorkers", "startThreads") \/ StartThreads
     \/ FinishRun \/ JoinThreads
     \/ TruncateTasks("teardownWorkers", "done")
  /\ UNCHANGED pipeVars

\* schedule: take a task id and begin at a random partition.
PushSchedule(t) ==
  /\ Alive /\ pc[t] = "turn" /\ schedLatsArrayIndex < MaxEntries
  /\ schedLatsArrayIndex' = schedLatsArrayIndex + 1
  /\ taskID' = [taskID EXCEPT ![t] = taskindex] /\ taskindex' = taskindex + 1
  /\ \E p \in AllPKeys : probe' = [probe EXCEPT ![t] = [pkey |-> p, count |-> 1]]
  /\ Goto(t, "probe")
  /\ UNCHANGED <<tables, mainVars, answer, pipeVars>>

\* Ask the partition; without a worker there, go on to the next or give up.
PushProbe(t) ==
  /\ Alive /\ pc[t] = "probe"
  /\ \E status \in {SUCCESS, NOWORKER} :
       /\ PushTask(probe[t].pkey, taskID[t], status)
       /\ \/ /\ status = NOWORKER /\ probe[t].count < Partitions
             /\ probe' = [probe EXCEPT ![t] = [pkey |-> NextPKey(@), count |-> @.count + 1]]
             /\ UNCHANGED pc
          \/ /\ status = SUCCESS \/ probe[t].count = Partitions
             /\ Goto(t, IF status = SUCCESS THEN "loopTest" ELSE "gaveUp")
             /\ probe' = [probe EXCEPT ![t] = [pkey |-> 0, count |-> 1]]
  /\ UNCHANGED <<mainVars, schedLatsArrayIndex, taskindex, taskID, answer, lost,
                 updates, workerProg, server>>

\* The invocation fails, executed or not: schedule asserts.
PushProbeFails(t) ==
  /\ AllowFailures /\ Alive /\ pc[t] = "probe"
  /\ \/ \E status \in {SUCCESS, NOWORKER} : PushTask(probe[t].pkey, taskID[t], status)
     \/ UNCHANGED <<tables, TaskAssign>>
  /\ mainPc' = "aborted" /\ Die(t)
  /\ UNCHANGED <<options, inserted, mainFinished, schedLatsArrayIndex, taskindex, taskID,
                 probe, answer, lost, updates, workerProg, server>>

\* The process died meanwhile; the database may still execute.
PushLateCommit(t) ==
  /\ mainPc \in {"exited", "aborted"} /\ pc[t] = "probe"
  /\ PushTask(probe[t].pkey, taskID[t], SUCCESS)
  /\ Goto(t, "dead")
  /\ UNCHANGED <<mainVars, schedLatsArrayIndex, taskindex, taskID, probe, answer, lost,
                 updates, workerProg, server>>

PushThread(t) ==
  \/ PushSchedule(t) \/ PushProbe(t) \/ PushProbeFails(t)
  \/ (NotItsTurn(t) \/ ArrayFull(t) \/ AssertFails(t) \/ LoopTest(t)) /\ UNCHANGED pipeVars
-----------------------------------------------------------------------------
(* HttpTaskExporter, and handle_request of the worker it calls.            *)

\* What VoltDB does with a row that was processed: it is done with it, or, after
\* a restart of its block, comes back to it.
Exported(row) ==
  \/ TaskAssign' = TaskAssign \ {row}
  \/ /\ AllowFailures /\ row.sent + 1 < MaxDeliveries
     /\ TaskAssign' = (TaskAssign \ {row}) \cup {[row EXCEPT !.sent = @ + 1]}

\* The request reaches a listening worker, which answers 200 before anything else.
ProcessRow(row) ==
  /\ WorkerUp /\ dispatch[row.Url] = "poll"
  /\ Exported(row)
  /\ dispatch' = [dispatch EXCEPT ![row.Url] = "update"]
  /\ handling' = [handling EXCEPT ![row.Url] = row.TaskID]
  /\ UNCHANGED <<vars, lost, updates, workerProg, stopDispatch, freed>>

Listens(w) == WorkerUp /\ dispatch[w] \in {"poll", "update"}

\* The worker does not listen (yet, or any more), or answers with an error:
\* processRow returns false, and the row may not come again.
ProcessRowFails(row) ==
  /\ AllowFailures \/ ~Listens(row.Url)
  /\ TaskAssign' = TaskAssign \ {row}
  /\ lost' = lost \cup {row.TaskID}
  /\ UNCHANGED <<vars, updates, workerProg, server>>

Handled(w) == /\ dispatch' = [dispatch EXCEPT ![w] = "poll"]
              /\ handling' = [handling EXCEPT ![w] = 0]

Counted(i) == updates' = [updates EXCEPT ![i] = @ + 1]

\* Mutation of HandleRequest: the report is left out.
HandleWithoutReport(w) ==
  /\ WorkerUp /\ dispatch[w] = "update"
  /\ Handled(w)
  /\ UNCHANGED <<vars, stream, updates, workerProg, stopDispatch, freed>>

\* The rest of handle_request: report the task complete.
HandleRequest(w) ==
  /\ WorkerUp /\ dispatch[w] = "update"
  /\ WorkerUpdateTask(PKeyOf(w), w, handling[w], COMPLETE) /\ Counted(handling[w])
  /\ Handled(w)
  /\ UNCHANGED <<mainVars, thrVars, stream, workerProg, stopDispatch, freed>>

\* That fails, executed or not, and the failure is only printed; or the worker
\* whose ids are sent has been deleted, and they are no longer its ids.
HandleRequestFails(w) ==
  /\ AllowFailures \/ freed[w]
  /\ WorkerUp /\ dispatch[w] = "update"
  /\ \/ WorkerUpdateTask(PKeyOf(w), w, handling[w], COMPLETE) /\ Counted(handling[w])
     \/ UNCHANGED <<tables, updates>>
  /\ lost' = lost \cup {handling[w]}
  /\ Handled(w)
  /\ UNCHANGED <<mainVars, thrVars, TaskAssign, workerProg, stopDispatch, freed>>

\* The worker program ends, and its threads with it, wherever they are.
ThreadsGone == /\ control' = [w \in Workers |-> "returned"]
               /\ dispatch' = [w \in Workers |-> "returned"]
               /\ handling' = [w \in Workers |-> 0]

\* The worker it uses has been deleted: that may work, as above, or crash.
HandleRequestCrashes(w) ==
  /\ WorkerUp /\ dispatch[w] = "update" /\ freed[w]
  /\ workerMain' = "crashed" /\ ThreadsGone
  /\ UNCHANGED <<vars, stream, updates, workersFinished, stopDispatch, freed>>

\* The server socket listens, some time after the worker's row was inserted.
Listen(w) ==
  /\ WorkerUp /\ dispatch[w] = "init"
  /\ dispatch' = [dispatch EXCEPT ![w] = "poll"]
  /\ UNCHANGED <<vars, stream, updates, workerProg, stopDispatch, freed, handling>>

\* The flag is read between two polls; once it is freed it may read as anything.
StopPolling(w) ==
  /\ WorkerUp /\ dispatch[w] = "poll" /\ (stopDispatch[w] \/ freed[w])
  /\ dispatch' = [dispatch EXCEPT ![w] = "returned"]
  /\ UNCHANGED <<vars, stream, updates, workerProg, stopDispatch, freed, handling>>
-----------------------------------------------------------------------------
(* WorkerThread and runBenchmark of SyntheticWorker.                       *)

Control(w, from, to) == /\ WorkerUp /\ control[w] = from
                        /\ control' = [control EXCEPT ![w] = to]

\* Mutation of StartServing: an insertion that seems to have failed is tried again.
StartServingRetries(w) ==
  /\ \/ /\ Control(w, "insert", "look") /\ InsertWorker(w, HttpCapacity, PKeyOf(w))
        /\ dispatch' = [dispatch EXCEPT ![w] = "init"]
     \/ /\ AllowFailures /\ Control(w, "insert", "insert") /\ UNCHANGED dispatch
        /\ InsertWorker(w, HttpCapacity, PKeyOf(w)) \/ UNCHANGED tables
  /\ UNCHANGED <<mainVars, thrVars, stream, updates, workerMain, workersFinished,
                 stopDispatch, freed, handling>>

\* startServing: the row first, then the thread that will listen.  If inserting
\* fails, executed or not, there is no thread, and nobody notices.
StartServing(w) ==
  /\ Control(w, "insert", "look")
  /\ \/ /\ InsertWorker(w, HttpCapacity, PKeyOf(w))
        /\ dispatch' = [dispatch EXCEPT ![w] = "init"]
     \/ /\ AllowFailures /\ UNCHANGED dispatch
        /\ InsertWorker(w, HttpCapacity, PKeyOf(w)) \/ UNCHANGED tables
  /\ UNCHANGED <<mainVars, thrVars, stream, updates, workerMain, workersFinished,
                 stopDispatch, freed, handling>>

\* Mutation of LookAtFlag: it waits without looking.
LookSkipped(w) ==
  /\ Control(w, "look", "sleepy")
  /\ UNCHANGED <<vars, stream, updates, workerMain, workersFinished, server>>

\* mainCv.wait, with mainLock, which the main thread does not take: the look at
\* the flag ...
LookAtFlag(w) ==
  /\ Control(w, "look", IF workersFinished THEN "end" ELSE "sleepy")
  /\ UNCHANGED <<vars, stream, updates, workerMain, workersFinished, server>>

\* ... and the sleep, until a notification or without one.
FallAsleep(w) ==
  /\ Control(w, "sleepy", "asleep")
  /\ UNCHANGED <<vars, stream, updates, workerMain, workersFinished, server>>

WakeSpuriously(w) ==
  /\ Control(w, "asleep", "look")
  /\ UNCHANGED <<vars, stream, updates, workerMain, workersFinished, server>>

\* endServing sets the flag and waits for nobody ...
EndServing(w) ==
  /\ Control(w, "end", "delete")
  /\ stopDispatch' = [stopDispatch EXCEPT ![w] = TRUE]
  /\ UNCHANGED <<vars, stream, updates, workerMain, workersFinished, dispatch, freed, handling>>

\* ... and the worker is deleted.
DeleteWorker(w) ==
  /\ Control(w, "delete", "returned")
  /\ freed' = [freed EXCEPT ![w] = TRUE]
  /\ UNCHANGED <<vars, stream, updates, workerMain, workersFinished, dispatch, stopDispatch,
                 handling>>

FinishWorkers ==
  /\ workerMain = "run"
  /\ workerMain' = "notify" /\ workersFinished' = TRUE
  /\ UNCHANGED <<vars, stream, updates, control, server>>

NotifyAll ==
  /\ workerMain = "notify"
  /\ workerMain' = "join"
  /\ control' = [w \in Workers |-> IF control[w] = "asleep" THEN "look" ELSE control[w]]
  /\ UNCHANGED <<vars, stream, updates, workersFinished, server>>

\* main returns, which ends the dispatch threads wherever they are.
JoinWorkers ==
  /\ workerMain = "join" /\ \A w \in Workers : control[w] = "returned"
  /\ workerMain' = "done" /\ ThreadsGone
  /\ UNCHANGED <<vars, stream, updates, workersFinished, stopDispatch, freed>>

WorkerThread(w) ==
  StartServing(w) \/ LookAtFlag(w) \/ FallAsleep(w) \/ EndServing(w) \/ DeleteWorker(w)

WorkerRun == FinishWorkers \/ NotifyAll \/ JoinWorkers
-----------------------------------------------------------------------------
PushOver == mainPc \in Ended /\ ~WorkerUp /\ UNCHANGED allVars

PushNext ==
  \/ PushMain
  \/ \E t \in Threads : PushThread(t) \/ PushLateCommit(t)
  \/ \E row \in TaskAssign : ProcessRow(row) \/ ProcessRowFails(row)
  \/ \E w \in Workers : \/ HandleRequest(w) \/ HandleRequestFails(w)
                        \/ HandleRequestCrashes(w) \/ Listen(w) \/ StopPolling(w)
                        \/ WorkerThread(w) \/ WakeSpuriously(w)
  \/ WorkerRun \/ PushOver

PushSpec == PushInit /\ [][PushNext]_allVars

\* The exporter exports, and the threads of the worker program run.  Nothing
\* need fail, be repeated, wake up unnotified, or be scheduled in the first place.
PushFairSpec ==
  /\ PushSpec
  /\ WF_allVars(\E row \in TaskAssign :
                  ProcessRow(row) \/ (~Listens(row.Url) /\ ProcessRowFails(row)))
  /\ \A w \in Workers : WF_allVars(HandleRequest(w)) /\ WF_allVars(WorkerThread(w))
  /\ WF_allVars(NotifyAll)
-----------------------------------------------------------------------------
\* Every variable has its type, and the stream holds tasks of the scheduler.
PushTypeOK ==
  /\ Worker \in Seq(WorkerRow) /\ Task \in Seq(TaskRow)
  /\ TaskAssign \subseteq [TaskID : TaskIds, Url : Workers, sent : 0 .. MaxDeliveries - 1]
  /\ lost \subseteq TaskIds
  /\ updates \in [TaskIds -> 0 .. MaxDeliveries]
  /\ workerMain \in {"run", "notify", "join", "done", "crashed"} /\ workersFinished \in BOOLEAN
  /\ control \in [Workers -> {"insert", "look", "sleepy", "asleep", "end", "delete", "returned"}]
  /\ dispatch \in [Workers -> {"none", "init", "poll", "update", "returned"}]
  /\ stopDispatch \in [Workers -> BOOLEAN] /\ freed \in [Workers -> BOOLEAN]
  /\ handling \in [Workers -> TaskIds]

InState(i, state) == \E j \in DOMAIN Task : Task[j].TaskID = i /\ Task[j].State = state

\* A worker has given capacity for exactly the tasks of it that still run (until
\* teardown clears them), whatever fails, in the database or on the way there;
\* only a task delivered more than once gives its capacity back too often.
PushCapacity ==
  \A k \in DOMAIN Worker :
    LET tasks == {j \in DOMAIN Task : Task[j].WorkerID = Worker[k].WorkerID} IN
    /\ mainPc # "done"
    /\ \A j \in tasks : updates[Task[j].TaskID] <= 1
    => Worker[k].Capacity + Cardinality({j \in tasks : Task[j].State = RUNNING}) = HttpCapacity

\* A task that is RUNNING has not been forgotten: it waits for the exporter, or
\* its worker has answered the request for it and not yet reported it, unless a
\* request or a report failed or the worker program is over.
NoTaskForgotten ==
  WorkerUp => \A i \in TaskIds : InState(i, RUNNING) =>
    \/ i \in lost
    \/ \E row \in TaskAssign : row.TaskID = i
    \/ \E w \in Workers : dispatch[w] = "update" /\ handling[w] = i

\* So it completes, also if its worker was not listening yet when it was placed
\* or is deleted while it handles it, with the same exceptions, and unless
\* teardown clears the table first.
PushedCompletes ==
  \A i \in TaskIds :
    InState(i, RUNNING) ~> InState(i, COMPLETE) \/ i \in lost \/ Task = <<>> \/ ~WorkerUp

\* When the run is over every WorkerThread ends its worker and returns, but one
\* that stood between its look at mainFinished and its sleep: mainCv is notified
\* without mainLock, and it misses that.
WorkersEnd ==
  \A w \in Workers :
    /\ workersFinished
    /\ control[w] # "sleepy" /\ (control[w] = "asleep" => workerMain = "notify")
    ~> control[w] = "returned" \/ ~WorkerUp
-----------------------------------------------------------------------------
(* The inductive invariant of PushProofs, in parts.                        *)

\* The scheduler: a task id is taken from the counter, and at most one thread is
\* placing the task.
PushThreadsOK ==
  /\ scheduleAlgo = "push-fifo"
  /\ mainPc \in {"truncateWorkers", "startThreads", "run", "join", "teardownWorkers"} \cup Ended
  /\ mainFinished \in BOOLEAN /\ schedLatsArrayIndex \in Nat /\ taskindex \in Nat
  /\ pc \in [Threads -> {"notStarted", "turn", "probe", "gaveUp", "loopTest", "finished", "dead"}]
  /\ taskID \in [Threads -> Nat] /\ probe \in [Threads -> [pkey : AllPKeys, count : Nat]]
  /\ taskindex <= schedLatsArrayIndex
  /\ \A t \in Threads : pc[t] = "probe" => taskID[t] \in TaskIds /\ taskID[t] < taskindex
  /\ \A t, u \in Threads : pc[t] = "probe" /\ pc[u] = "probe" /\ taskID[t] = taskID[u] => t = u
  /\ mainPc \in {"truncateWorkers", "startThreads"} =>
       taskindex = 0 /\ \A t \in Threads : pc[t] = "notStarted"
  /\ mainPc \in {"teardownWorkers", "done"} => \A t \in Threads : pc[t] = "finished"

Unused(i)     == i >= taskindex \/ \E t \in Threads : pc[t] = "probe" /\ taskID[t] = i
Handles(w, i) == dispatch[w] = "update" /\ handling[w] = i

\* A task is on its way to a worker, or in its hands.
Underway(i, w) == (\E row \in TaskAssign : row.TaskID = i /\ row.Url = w) \/ Handles(w, i)

\* Nothing is known anywhere of a task that has not been placed.
UnusedNowhere ==
  \A i \in TaskIds : Unused(i) =>
    /\ \A j \in DOMAIN Task : Task[j].TaskID # i
    /\ \A w \in Workers : ~Underway(i, w)
    /\ updates[i] = 0

\* A worker inserts itself once.
PushWorkerRows ==
  /\ \A k \in DOMAIN Worker : /\ Worker[k].WorkerID \in Workers
                              /\ Worker[k].PKey = PKeyOf(Worker[k].WorkerID)
                              /\ control[Worker[k].WorkerID] # "insert"
  /\ \A k, l \in DOMAIN Worker : Worker[k].WorkerID = Worker[l].WorkerID => k = l
  /\ \A w \in Workers : control[w] = "insert" => dispatch[w] = "none"

\* A task has one row, with a worker that exists, and is COMPLETE once reported.
PushTaskRows ==
  /\ \A j \in DOMAIN Task :
       /\ Task[j].TaskID \in TaskIds /\ Task[j].PKey = PKeyOf(Task[j].WorkerID)
       /\ Task[j].State = IF updates[Task[j].TaskID] = 0 THEN RUNNING ELSE COMPLETE
       /\ \E k \in DOMAIN Worker : Worker[k].WorkerID = Task[j].WorkerID
  /\ \A j, l \in DOMAIN Task : Task[j].TaskID = Task[l].TaskID => j = l

\* It goes to one worker, that of its row, and is in the stream once.
OneWorker ==
  \A i \in TaskIds, w \in Workers : Underway(i, w) =>
    /\ \A v \in Workers : Underway(i, v) => v = w
    /\ \A j \in DOMAIN Task : Task[j].TaskID = i => Task[j].WorkerID = w
    /\ mainPc # "done" => \E j \in DOMAIN Task : Task[j].TaskID = i
    /\ \A r1, r2 \in TaskAssign : r1.TaskID = i /\ r2.TaskID = i => r1 = r2

InHand(i) == IF \E w \in Workers : Handles(w, i) THEN 1 ELSE 0

\* It is not reported more often than it was delivered.
DeliveriesCounted ==
  /\ \A row \in TaskAssign : updates[row.TaskID] + InHand(row.TaskID) <= row.sent
  /\ \A i \in TaskIds : updates[i] + InHand(i) <= MaxDeliveries

\* What every step of push-fifo, HttpTaskExporter and the HTTP workers preserves:
\* a task has one row, one worker and at most MaxDeliveries reports, and is in
\* the stream or in its worker's hands until one of them is executed.
PushInv ==
  /\ PushTypeOK /\ PushThreadsOK /\ UnusedNowhere /\ PushWorkerRows /\ PushTaskRows
  /\ OneWorker /\ DeliveriesCounted /\ PushCapacity /\ NoTaskForgotten
=============================================================================
