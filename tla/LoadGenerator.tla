---------------------------- MODULE LoadGenerator ----------------------------
(***************************************************************************)
(* The programs that use a SparkScheduler: TestSparkScheduler, which is    *)
(* the main of SparkScheduler's module, and LoadGenerator.  This one lets  *)
(* a scheduler of its own do the setup, and destroys it; serves a second   *)
(* one, which is never destroyed, through a SchedulerServer; and lets a    *)
(* third one do the teardown, whose own life is as that of the first.      *)
(*                                                                         *)
(* A client's RPC is run by a thread of the SchedulerServer that calls     *)
(* schedule: the two are one thread here.  One SchedulerServer (-S 1).     *)
(***************************************************************************)
EXTENDS SparkScheduler

CONSTANTS
  Programs,  \* "test", "load" (-A spark) and "load-fifo" (-A fifo, the default)
  CleanDB    \* -x

ASSUME LoadAssumption == Programs \subseteq {"test", "load", "load-fifo"} /\ CleanDB \in BOOLEAN

VARIABLES
  program,
  mainFinished,  \* LoadGenerator's run is over
  loop           \* where each ClientThread is in its loop

loadVars == <<program, mainFinished, loop>>
allVars  == <<vars, loadVars>>

\* The scheduler that does the setup has threads if it is a SparkScheduler.
LoadInit ==
  /\ program \in Programs
  /\ IF program = "load-fifo" THEN InitWith("returned", "returned") ELSE Init
  /\ mainFinished = FALSE /\ loop = [c \in Clients |-> "submit"]

notTables == <<mainVars, clientVars, taskQueue, queueVars, rpcs, finishVars, executed>>

\* PartitionedFIFOScheduler's insertWorker: no server, and no word of the data.
InsertFifoWorker ==
  /\ Worker' = Append(Worker, [WorkerID |-> Len(Worker), Capacity |-> WorkerCapacity,
                               DataShards |-> 0, PKey |-> Len(Worker) % Partitions])
  /\ UNCHANGED DataLocation

FifoSetup ==
  \/ Truncate("truncate", "insert")
  \/ /\ mainPc = "insert" /\ Len(Worker) < NumWorkers
     /\ InsertFifoWorker /\ UNCHANGED notTables
  \/ /\ mainPc = "insert" /\ Len(Worker) = NumWorkers
     /\ mainPc' = "join"
     /\ UNCHANGED <<tables, servers, runTaskQueueThread, clientVars, taskQueue, queueVars, rpcs,
                    finishVars, executed>>

\* setup is that of the scheduler of -A, which is then destroyed.
LoadSetup ==
  \/ program = "load-fifo" /\ FifoSetup
  \/ /\ program = "load"
     /\ \/ Truncate("truncate", "insert") \/ InsertWorker \/ SetupDone("shutdown")
        \/ Shutdown \/ NotifyQueueThread

\* An insertion fails, executed or not: main exits.
LoadSetupFails ==
  \/ program = "load" /\ InsertWorkerFails
  \/ /\ program = "load-fifo" /\ AllowFailures /\ mainPc = "insert" /\ Len(Worker) < NumWorkers
     /\ InsertFifoWorker \/ UNCHANGED tables
     /\ Die("exited")

\* runBenchmark makes the scheduler it serves.
StartScheduler ==
  /\ mainPc = "join" /\ queuePc = "returned" /\ finishPc = "returned"
  /\ mainPc' = "run" /\ runTaskQueueThread' = TRUE
  /\ queuePc' = "start" /\ finishPc' = "next" /\ taskIDs' \in FirstTaskIDs
  /\ UNCHANGED <<tables, servers, calls, clientPc, clientTask, taskQueue, chosen, rpcs,
                 finishing, taskCompletionSet, executed>>

JoinClients ==
  /\ mainPc = "run" /\ \A c \in Clients : loop[c] = "finished"
  /\ mainPc' = IF CleanDB THEN "teardown" ELSE "done"
  /\ UNCHANGED <<tables, servers, runTaskQueueThread, clientVars, taskQueue, queueVars, rpcs,
                 finishVars, executed>>

LoadTeardown == Truncate("teardown", "endServing") \/ EndServing("done")

LoadMain == (LoadSetup \/ StartScheduler \/ JoinClients \/ LoadTeardown) /\ UNCHANGED loadVars

FinishLoad ==
  /\ mainPc = "run" /\ ~mainFinished
  /\ mainFinished' = TRUE
  /\ UNCHANGED <<vars, program, loop>>

Goto(c, place) == loop' = [loop EXCEPT ![c] = place] /\ UNCHANGED <<program, mainFinished>>

\* Claim an entry of the latency array and submit a task.
Submit(c) == loop[c] = "submit" /\ Schedule(c) /\ Goto(c, "wait")

\* The array is full: exit(1).
\* The claim and the exit are one step: a thread that claims between them finds the array
\* full as well, and only exits.
ArrayFull(c) ==
  /\ mainPc = "run" /\ loop[c] = "submit" /\ calls >= MaxTasks
  /\ Die("exited")
  /\ UNCHANGED <<tables, loadVars>>

\* The server's thread, in schedule.
Serve(c) == (Enqueue(c) \/ CheckCompletion(c) \/ ClientWakes(c)) /\ UNCHANGED loadVars

\* schedule has returned, and the RPC does; the loop's condition.
Answered(c) ==
  /\ Alive /\ loop[c] = "wait" /\ clientPc[c] = "idle"
  /\ Goto(c, IF mainFinished THEN "finished" ELSE "submit")
  /\ UNCHANGED vars

\* The RPC fails: an assert.
SubmitFails(c) ==
  /\ AllowFailures /\ Alive /\ loop[c] = "wait"
  /\ Abort
  /\ UNCHANGED <<tables, loadVars>>

ClientThread(c) == Submit(c) \/ ArrayFull(c) \/ Serve(c) \/ Answered(c) \/ SubmitFails(c)

LoadNext ==
  \/ program = "test" /\ Next /\ UNCHANGED loadVars
  \/ /\ program # "test"
     /\ \/ LoadMain \/ FinishLoad
        \/ (LoadSetupFails \/ Threads \/ Over) /\ UNCHANGED loadVars
        \/ \E c \in Clients : ClientThread(c)

LoadSpec == LoadInit /\ [][LoadNext]_allVars

\* As SparkScheduler's fairness, and LoadGenerator's main goes on too.
LoadFairSpec ==
  /\ LoadSpec
  /\ WF_allVars((IF program = "test" THEN Main ELSE LoadMain) /\ UNCHANGED loadVars)
  /\ SF_allVars(NotifyQueueThread /\ UNCHANGED loadVars)
  /\ \A c \in Clients : /\ SF_allVars(Enqueue(c) /\ UNCHANGED loadVars)
                        /\ WF_allVars(CheckCompletion(c) /\ UNCHANGED loadVars)
  /\ WF_allVars(ProcessTaskQueue /\ UNCHANGED loadVars)
  /\ WF_allVars(FinishRequests /\ UNCHANGED loadVars)
  /\ WF_allVars((\E r \in rpcs : SubmitTask(r)) /\ UNCHANGED loadVars)
-----------------------------------------------------------------------------
(* The inductive invariant of SparkProofs, in parts.                       *)

\* No client has called schedule yet: main sets up, and, in LoadGenerator,
\* destroys the scheduler that did it.
SettingUp ==
  \/ mainPc \in {"truncate", "insert"}
  \/ program # "test" /\ mainPc \in {"shutdown", "notify", "join"}

\* So there is nothing for the threads of the scheduler to do.
SetupQuiet ==
  SettingUp => /\ \A c \in Clients : clientPc[c] = "idle"
               /\ taskQueue = <<>> /\ rpcs = {} /\ taskCompletionSet = {}
               /\ executed = {} /\ finishPc # "update"
               /\ \A i \in DOMAIN Worker : Worker[i].Capacity = WorkerCapacity

\* The rows of the Worker table are the first workers, in order: setup inserts
\* every worker at most once, in the partition of its id.
RowsInOrder ==
  /\ \A i \in DOMAIN Worker :
       Worker[i].WorkerID = i - 1 /\ Worker[i].PKey = (i - 1) % Partitions
  /\ mainPc = "truncate" => Worker = <<>> /\ servers = 0
  /\ mainPc = "insert" /\ program # "load-fifo" => Len(Worker) = servers

Inside(c) == clientPc[c] \in {"enqueue", "check", "recheck", "asleep"}
InFlight  == {r.taskID : r \in rpcs}

\* No two clients inside schedule and no two calls in flight have the same task
\* id, and none has that of a completed task.
IdsDistinct ==
  /\ \A c \in Clients : Inside(c) => clientTask[c].taskID < taskIDs
  /\ \A c, d \in Clients :
       Inside(c) /\ Inside(d) /\ clientTask[c].taskID = clientTask[d].taskID => c = d
  /\ \A r \in rpcs : r.taskID < taskIDs /\ r.taskID \notin taskCompletionSet
  /\ \A q, r \in rpcs : q.taskID = r.taskID => q = r
  /\ \A id \in taskCompletionSet : id < taskIDs

\* A task is queued once, by a client that waits for it, and stays there until
\* its RPC has been started.
QueuedOnce ==
  /\ \A c \in Clients : clientPc[c] = "enqueue" =>
       clientTask[c].taskID \notin taskCompletionSet \cup InFlight
  /\ \A i \in DOMAIN taskQueue :
       \/ i = 1 /\ queuePc = "pop"
       \/ /\ clientPc[taskQueue[i]] \in {"check", "recheck", "asleep"}
          /\ clientTask[taskQueue[i]].taskID \notin taskCompletionSet \cup InFlight
  /\ \A i, j \in DOMAIN taskQueue : taskQueue[i] = taskQueue[j] => i = j
  /\ queuePc \in {"assign", "pop"} => taskQueue # <<>>

\* What is complete, or has been replied to, has been executed.
ExecutedFirst ==
  /\ taskCompletionSet \subseteq executed
  /\ \A r \in rpcs : r.replied => r.taskID \in executed
  /\ finishPc = "update" => finishing.taskID \in taskCompletionSet

\* What every step of SparkScheduler's threads, its clients and the reply thread
\* preserves: a task is queued, called for and completed by one client that waits
\* for it, is executed before it is completed, and holds one unit of capacity.
SparkInv ==
  /\ SparkTypeOK /\ IsFiniteSet(rpcs) /\ program \in {"test", "load", "load-fifo"}
  /\ SetupQuiet /\ RowsInOrder /\ IdsDistinct /\ QueuedOnce /\ ExecutedFirst
  /\ SparkCapacity
=============================================================================
