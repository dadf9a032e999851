------------------------ MODULE SinglePartitionedFIFO ------------------------
(***************************************************************************)
(* A SyntheticScheduler process running the "single-partitioned-fifo-task" *)
(* algorithm: main (setup, run, teardown), its scheduler threads, and the  *)
(* SinglePartitionedFIFOTaskScheduler each thread calls.                   *)
(*                                                                         *)
(* Every invocation of a stored procedure is one step, taken when VoltDB   *)
(* commits it.  With AllowFailures an invocation may also come back as a   *)
(* failure, having committed or not.  A failed assert or abort() ends the  *)
(* process, threads included.                                              *)
(***************************************************************************)
EXTENDS DbosTables

CONSTANTS
  Schedulers,      \* the scheduler threads of the process (-N)
  WorkerCapacity,  \* -C
  CleanDB,         \* -x: truncate the tables after the run
  MaxTry,          \* MAXTRY rounds of probing before selectTaskWorker gives up
  MaxEntries,      \* kMaxEntries, the size of the latency array
  MaxRuns          \* bound: how often the program is started

ASSUME SchedulerAssumption ==
  /\ WorkerCapacity \in Nat
  /\ MaxTry \in Nat \ {0}
  /\ MaxEntries \in Nat
  /\ MaxRuns \in Nat \ {0}
  /\ CleanDB \in BOOLEAN

VARIABLES
  schedMain,            \* where main() is
  inserted,             \* workers setup() has inserted so far
  mainFinished,         \* the run is over: threads leave their loop
  schedLatsArrayIndex,  \* next free entry of the latency array (atomic)
  taskindex,            \* next task id (atomic)
  schedPc,              \* where each scheduler thread is
  schedTask,            \* the task id each thread is placing
  probe,                \* its position in selectTaskWorker's two loops, and
                        \* (history) the partitions asked in this round
  runs                  \* how often the program was started

schedVars == <<schedMain, inserted, mainFinished, schedLatsArrayIndex, taskindex,
               schedPc, schedTask, probe, runs>>

threadVars == <<schedLatsArrayIndex, taskindex, schedPc, schedTask, probe>>

\* The processes that have ended.
Ended == {"done", "exited", "aborted"}

ActivePartitions == IF Partitions <= NumWorkers THEN Partitions ELSE NumWorkers

NoProbe == [pkey |-> 0, count |-> 1, try |-> 0, asked |-> {}]

\* A freshly started process: every static of the program has its initial value.
ProcessStart ==
  [main |-> "truncateWorkers", pcs |-> [s \in Schedulers |-> "notStarted"],
   tasks |-> [s \in Schedulers |-> 0], probes |-> [s \in Schedulers |-> NoProbe]]

SchedInit ==
  /\ schedMain = ProcessStart.main
  /\ inserted = 0
  /\ mainFinished = FALSE
  /\ schedLatsArrayIndex = 0
  /\ taskindex = 0
  /\ schedPc = ProcessStart.pcs
  /\ schedTask = ProcessStart.tasks
  /\ probe = ProcessStart.probes
  /\ runs = 1
-----------------------------------------------------------------------------
(* main(): setup, runBenchmark, teardown.                                  *)

\* A truncation that fails is reported and otherwise ignored, so it moves main
\* from one place to the next whether or not it cleared its table.
TruncateWorkers(from, to) ==
  /\ schedMain = from
  /\ schedMain' = to
  /\ TruncateWorkerTable \/ (AllowFailures /\ UNCHANGED tables)
  /\ UNCHANGED <<inserted, mainFinished, threadVars, runs>>

TruncateTasks(from, to) ==
  /\ schedMain = from
  /\ schedMain' = to
  /\ TruncateTaskTable \/ (AllowFailures /\ UNCHANGED tables)
  /\ UNCHANGED <<inserted, mainFinished, threadVars, runs>>

\* setup: one worker per step, each with the whole capacity.
SetupInsert ==
  /\ schedMain = "insertWorkers" /\ inserted < NumWorkers
  /\ InsertWorker(inserted, WorkerCapacity, PKeyOf(inserted))
  /\ inserted' = inserted + 1
  /\ UNCHANGED <<schedMain, mainFinished, threadVars, runs>>

\* A failed insertion makes setup return false, and main exits.
SetupFails ==
  /\ AllowFailures
  /\ schedMain = "insertWorkers" /\ inserted < NumWorkers
  /\ \/ InsertWorker(inserted, WorkerCapacity, PKeyOf(inserted))
     \/ UNCHANGED tables
  /\ schedMain' = "exited"
  /\ UNCHANGED <<inserted, mainFinished, threadVars, runs>>

\* runBenchmark: start the threads ...
StartThreads ==
  /\ schedMain = "insertWorkers" /\ inserted = NumWorkers
  /\ schedMain' = "run"
  /\ schedPc' = [s \in Schedulers |-> "turn"]
  /\ UNCHANGED <<tables, inserted, mainFinished, schedLatsArrayIndex, taskindex,
                 schedTask, probe, runs>>

\* ... tell them when the time is over ...
FinishRun ==
  /\ schedMain = "run"
  /\ mainFinished' = TRUE
  /\ schedMain' = "join"
  /\ UNCHANGED <<tables, inserted, threadVars, runs>>

\* ... and wait for them.
JoinThreads ==
  /\ schedMain = "join"
  /\ \A s \in Schedulers : schedPc[s] = "finished"
  /\ schedMain' = IF CleanDB THEN "teardownWorkers" ELSE "done"
  /\ UNCHANGED <<tables, inserted, mainFinished, threadVars, runs>>

\* The program is started again, on whatever the last run left in the tables.
StartAgain ==
  /\ schedMain \in Ended /\ runs < MaxRuns
  /\ runs' = runs + 1
  /\ schedMain' = ProcessStart.main
  /\ inserted' = 0
  /\ mainFinished' = FALSE
  /\ schedLatsArrayIndex' = 0
  /\ taskindex' = 0
  /\ schedPc' = ProcessStart.pcs
  /\ schedTask' = ProcessStart.tasks
  /\ probe' = ProcessStart.probes
  /\ UNCHANGED tables

Main ==
  \/ TruncateWorkers("truncateWorkers", "truncateTasks")
  \/ TruncateTasks("truncateTasks", "insertWorkers")
  \/ SetupInsert \/ SetupFails
  \/ StartThreads \/ FinishRun \/ JoinThreads
  \/ TruncateWorkers("teardownWorkers", "teardownTasks")
  \/ TruncateTasks("teardownTasks", "done")
  \/ StartAgain
-----------------------------------------------------------------------------
(* SchedulerThread, and the schedule() it calls.                           *)

Alive == schedMain \in {"run", "join"}

\* It is not yet time for the next request: go round the loop.
NotItsTurn(s) ==
  /\ Alive /\ schedPc[s] = "turn"
  /\ schedPc' = [schedPc EXCEPT ![s] = "loopTest"]
  /\ UNCHANGED <<tables, schedMain, inserted, mainFinished, schedLatsArrayIndex,
                 taskindex, schedTask, probe, runs>>

\* Claim an entry of the latency array for the next request.
ClaimEntry(s) ==
  /\ Alive /\ schedPc[s] = "turn" /\ schedLatsArrayIndex < MaxEntries
  /\ schedLatsArrayIndex' = schedLatsArrayIndex + 1
  /\ schedPc' = [schedPc EXCEPT ![s] = "schedule"]
  /\ UNCHANGED <<tables, schedMain, inserted, mainFinished, taskindex, schedTask,
                 probe, runs>>

\* The array is full: exit(1), whatever the other threads are doing.
\* The claim and the exit are one step: a thread that claims between them finds the array
\* full as well, and only exits.
ArrayFull(s) ==
  /\ Alive /\ schedPc[s] = "turn" /\ schedLatsArrayIndex >= MaxEntries
  /\ schedLatsArrayIndex' = schedLatsArrayIndex + 1
  /\ schedMain' = "exited"
  /\ schedPc' = [schedPc EXCEPT ![s] = "dead"]
  /\ UNCHANGED <<tables, inserted, mainFinished, taskindex, schedTask, probe, runs>>

\* schedule: take a task id and start selectTaskWorker at a random partition.
Schedule(s) ==
  /\ Alive /\ schedPc[s] = "schedule"
  /\ schedTask' = [schedTask EXCEPT ![s] = taskindex]
  /\ taskindex' = taskindex + 1
  /\ \E p \in 0 .. ActivePartitions - 1 :
       probe' = [probe EXCEPT ![s] = [NoProbe EXCEPT !.pkey = p]]
  /\ schedPc' = [schedPc EXCEPT ![s] = "probe"]
  /\ UNCHANGED <<tables, schedMain, inserted, mainFinished, schedLatsArrayIndex, runs>>

\* A partition has a worker to spare: the task is its, and schedule returns.
ProbeHit(s) ==
  /\ Alive /\ schedPc[s] = "probe"
  /\ SelectSinglePartitionedTaskWorker(probe[s].pkey, schedTask[s], SUCCESS)
  /\ schedPc' = [schedPc EXCEPT ![s] = "loopTest"]
  /\ UNCHANGED <<schedMain, inserted, mainFinished, schedLatsArrayIndex, taskindex,
                 schedTask, probe, runs>>

\* Mutation of NextPKey: count is not added.
NextPKeyStays(pkey, count) == pkey % ActivePartitions

\* The partition to ask after the count-th partition of a round was full.
NextPKey(pkey, count) == (pkey + count) % ActivePartitions

Advance(p) ==
  [pkey |-> NextPKey(p.pkey, p.count), count |-> p.count + 1, try |-> p.try,
   asked |-> (IF p.count = 1 THEN {} ELSE p.asked) \cup {p.pkey}]

\* None: go on to the next partition, or sleep when the round is over.
ProbeMiss(s) ==
  /\ Alive /\ schedPc[s] = "probe"
  /\ SelectSinglePartitionedTaskWorker(probe[s].pkey, schedTask[s], NOWORKER)
  /\ probe' = [probe EXCEPT ![s] = Advance(@)]
  /\ schedPc' = [schedPc EXCEPT ![s] =
                   IF probe[s].count < ActivePartitions THEN "probe" ELSE "roundOver"]
  /\ UNCHANGED <<schedMain, inserted, mainFinished, schedLatsArrayIndex, taskindex,
                 schedTask, runs>>

\* Mutation of NextRound: selectTaskWorker never gives up.
NextRoundForEver(s) ==
  /\ Alive /\ schedPc[s] = "roundOver"
  /\ probe' = [probe EXCEPT ![s].count = 1]
  /\ schedPc' = [schedPc EXCEPT ![s] = "probe"]
  /\ UNCHANGED <<tables, schedMain, inserted, mainFinished, schedLatsArrayIndex,
                 taskindex, schedTask, runs>>

\* Sleep, then start the next round where this one stopped; after MaxTry rounds
\* selectTaskWorker gives up.
NextRound(s) ==
  /\ Alive /\ schedPc[s] = "roundOver"
  /\ probe' = [probe EXCEPT ![s].count = 1, ![s].try = @ + 1]
  /\ schedPc' = [schedPc EXCEPT ![s] =
                   IF probe[s].try + 1 < MaxTry THEN "probe" ELSE "gaveUp"]
  /\ UNCHANGED <<tables, schedMain, inserted, mainFinished, schedLatsArrayIndex,
                 taskindex, schedTask, runs>>

\* The assert in schedule fails on what selectTaskWorker returned.
AssertFails(s) ==
  /\ Alive /\ schedPc[s] = "gaveUp"
  /\ schedMain' = "aborted"
  /\ schedPc' = [schedPc EXCEPT ![s] = "dead"]
  /\ UNCHANGED <<tables, inserted, mainFinished, schedLatsArrayIndex, taskindex,
                 schedTask, probe, runs>>

\* The invocation fails (on the unique index, or on its way to or from the
\* database): selectTaskWorker returns false and the assert ends the process.
ProbeFails(s) ==
  /\ Alive /\ schedPc[s] = "probe"
  /\ \/ /\ AllowFailures
        /\ \/ \E st \in {SUCCESS, NOWORKER} :
                SelectSinglePartitionedTaskWorker(probe[s].pkey, schedTask[s], st)
           \/ UNCHANGED tables
     \/ /\ AvailableWorkers(probe[s].pkey) # {}
        /\ ViolatesTaskIndex(probe[s].pkey, schedTask[s])
        /\ UNCHANGED tables
  /\ schedMain' = "aborted"
  /\ schedPc' = [schedPc EXCEPT ![s] = "dead"]
  /\ UNCHANGED <<inserted, mainFinished, schedLatsArrayIndex, taskindex, schedTask,
                 probe, runs>>

\* The do-while condition of the thread's loop.
LoopTest(s) ==
  /\ Alive /\ schedPc[s] = "loopTest"
  /\ schedPc' = [schedPc EXCEPT ![s] = IF mainFinished THEN "finished" ELSE "turn"]
  /\ UNCHANGED <<tables, schedMain, inserted, mainFinished, schedLatsArrayIndex,
                 taskindex, schedTask, probe, runs>>

\* The process has died while this thread waited for an answer: the database
\* may still execute the invocation.
LateCommit(s) ==
  /\ schedMain \in {"exited", "aborted"} /\ schedPc[s] = "probe"
  /\ SelectSinglePartitionedTaskWorker(probe[s].pkey, schedTask[s], SUCCESS)
  /\ schedPc' = [schedPc EXCEPT ![s] = "dead"]
  /\ UNCHANGED <<schedMain, inserted, mainFinished, schedLatsArrayIndex, taskindex,
                 schedTask, probe, runs>>

Thread(s) ==
  \/ NotItsTurn(s) \/ ClaimEntry(s) \/ ArrayFull(s)
  \/ Schedule(s) \/ ProbeHit(s) \/ ProbeMiss(s) \/ NextRound(s) \/ AssertFails(s)
  \/ ProbeFails(s) \/ LoopTest(s) \/ LateCommit(s)

SchedNext == Main \/ \E s \in Schedulers : Thread(s)

\* The program is over for good.
SchedOver == schedMain \in Ended /\ runs = MaxRuns
-----------------------------------------------------------------------------
SchedPcs == {"notStarted", "turn", "schedule", "probe", "roundOver", "gaveUp",
             "loopTest", "finished", "dead"}
MainPcs  == {"truncateWorkers", "truncateTasks", "insertWorkers", "run", "join",
             "teardownWorkers", "teardownTasks"} \cup Ended
Probes   == [pkey : 0 .. ActivePartitions - 1, count : Nat, try : Nat, asked : SUBSET Nat]

\* Every variable of the scheduler program has its type.
SchedTypeOK ==
  /\ schedMain \in MainPcs
  /\ inserted \in 0 .. NumWorkers
  /\ mainFinished \in BOOLEAN
  /\ schedLatsArrayIndex \in Nat
  /\ taskindex \in Nat
  /\ schedPc \in [Schedulers -> SchedPcs]
  /\ schedTask \in [Schedulers -> Nat]
  /\ probe \in [Schedulers -> Probes]
  /\ runs \in 1 .. MaxRuns
=============================================================================
