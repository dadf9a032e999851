----------------------------- MODULE SystemProofs -----------------------------
(***************************************************************************)
(* Proofs about SchedulerWorkerSystem, for any number of scheduler         *)
(* threads, workers, partitions, executors and tasks: type correctness,    *)
(* the invariant of tables and threads, giving up, the shutdown of the     *)
(* workers, and the refinement of TaskLifecycle.                           *)
(***************************************************************************)
EXTENDS SchedulerWorkerSystem, TLAPS, FiniteSetTheorems

(* Helpers on sequences, and on what the procedures do to the tables.      *)

LEMMA MapSeq ==
  ASSUME NEW S, NEW T, NEW s \in Seq(S), NEW f,
         f = [i \in DOMAIN s |-> f[i]], \A i \in DOMAIN s : f[i] \in T
  PROVE  f \in Seq(T) /\ Len(f) = Len(s) /\ DOMAIN f = DOMAIN s
<1>1. Len(s) \in Nat /\ DOMAIN s = 1 .. Len(s)
  OBVIOUS
<1>2. f \in [1 .. Len(s) -> T]
  BY <1>1
<1> QED BY <1>1, <1>2

LEMMA ActivePartitionsPositive ==
  /\ ActivePartitions \in Nat \ {0}
  /\ \A p \in Nat, c \in Nat : NextPKey(p, c) \in 0 .. ActivePartitions - 1
BY TablesAssumption DEF ActivePartitions, NextPKey

LEMMA PKeyOfNat == \A w \in Nat : PKeyOf(w) \in Nat
BY TablesAssumption DEF PKeyOf

LEMMA SetCapacityShape ==
  ASSUME TablesTypeOK, NEW p, NEW w, NEW c \in Int, SetCapacity(p, w, c)
  PROVE  /\ Worker' \in Seq(WorkerRow) /\ Len(Worker') = Len(Worker)
         /\ DOMAIN Worker' = DOMAIN Worker
         /\ \A i \in DOMAIN Worker :
              /\ Worker'[i].WorkerID = Worker[i].WorkerID
              /\ Worker'[i].PKey = Worker[i].PKey
              /\ Worker'[i].Capacity =
                   IF Worker[i].PKey = p /\ Worker[i].WorkerID = w
                   THEN c ELSE Worker[i].Capacity
<1>1. \A i \in DOMAIN Worker : Worker[i] \in WorkerRow
  BY DEF TablesTypeOK
<1>2. Worker' = [i \in DOMAIN Worker |-> Worker'[i]]
  BY DEF SetCapacity
<1>3. \A i \in DOMAIN Worker : Worker'[i] \in WorkerRow
  BY <1>1 DEF SetCapacity, WorkerRow
<1>4. Worker' \in Seq(WorkerRow) /\ Len(Worker') = Len(Worker) /\ DOMAIN Worker' = DOMAIN Worker
  BY <1>2, <1>3, MapSeq DEF TablesTypeOK
<1>5. \A i \in DOMAIN Worker :
        /\ Worker'[i].WorkerID = Worker[i].WorkerID
        /\ Worker'[i].PKey = Worker[i].PKey
        /\ Worker'[i].Capacity =
             IF Worker[i].PKey = p /\ Worker[i].WorkerID = w THEN c ELSE Worker[i].Capacity
  BY <1>1 DEF SetCapacity, WorkerRow
<1> QED BY <1>4, <1>5

LEMMA SetTaskStateShape ==
  ASSUME TablesTypeOK, NEW p, NEW w, NEW ids, NEW st \in {PENDING, RUNNING, COMPLETE},
         SetTaskState(p, w, ids, st)
  PROVE  /\ Task' \in Seq(TaskRow) /\ Len(Task') = Len(Task)
         /\ DOMAIN Task' = DOMAIN Task
         /\ \A j \in DOMAIN Task :
              /\ Task'[j].TaskID = Task[j].TaskID
              /\ Task'[j].WorkerID = Task[j].WorkerID
              /\ Task'[j].PKey = Task[j].PKey
              /\ Task'[j].State =
                   IF Task[j].PKey = p /\ Task[j].TaskID \in ids /\ Task[j].WorkerID = w
                   THEN st ELSE Task[j].State
<1>1. \A j \in DOMAIN Task : Task[j] \in TaskRow
  BY DEF TablesTypeOK
<1>2. Task' = [j \in DOMAIN Task |-> Task'[j]]
  BY DEF SetTaskState
<1>3. \A j \in DOMAIN Task : Task'[j] \in TaskRow
  BY <1>1 DEF SetTaskState, TaskRow
<1>4. Task' \in Seq(TaskRow) /\ Len(Task') = Len(Task) /\ DOMAIN Task' = DOMAIN Task
  BY <1>2, <1>3, MapSeq DEF TablesTypeOK
<1>5. \A j \in DOMAIN Task :
        /\ Task'[j].TaskID = Task[j].TaskID
        /\ Task'[j].WorkerID = Task[j].WorkerID
        /\ Task'[j].PKey = Task[j].PKey
        /\ Task'[j].State =
             IF Task[j].PKey = p /\ Task[j].TaskID \in ids /\ Task[j].WorkerID = w
             THEN st ELSE Task[j].State
  BY <1>1 DEF SetTaskState, TaskRow
<1> QED BY <1>4, <1>5

LEMMA NewTaskShape ==
  ASSUME TablesTypeOK, NEW t \in Nat, NEW w \in Nat, NEW p \in Nat,
         NewTask(t, w, PENDING, p)
  PROVE  /\ Task' \in Seq(TaskRow) /\ Len(Task') = Len(Task) + 1
         /\ DOMAIN Task' = DOMAIN Task \cup {Len(Task) + 1}
         /\ Len(Task) + 1 \notin DOMAIN Task
         /\ \A j \in DOMAIN Task : Task'[j] = Task[j]
         /\ Task'[Len(Task) + 1].TaskID = t
         /\ Task'[Len(Task) + 1].WorkerID = w
         /\ Task'[Len(Task) + 1].PKey = p
         /\ Task'[Len(Task) + 1].State = PENDING
<1> DEFINE row == [TaskID |-> t, WorkerID |-> w, State |-> PENDING, PKey |-> p]
<1>1. row \in TaskRow
  BY DEF TaskRow
<1>2. Task \in Seq(TaskRow) /\ Task' = Append(Task, row)
  BY DEF TablesTypeOK, NewTask
<1> HIDE DEF row
<1>3. /\ Task' \in Seq(TaskRow) /\ Len(Task') = Len(Task) + 1
      /\ DOMAIN Task' = DOMAIN Task \cup {Len(Task) + 1}
      /\ Len(Task) + 1 \notin DOMAIN Task
      /\ \A j \in DOMAIN Task : Task'[j] = Task[j]
      /\ Task'[Len(Task) + 1] = row
  BY <1>1, <1>2
<1> QED BY <1>3 DEF row

\* A probe leaves the tables alone, or gives the task to an available worker.
LEMMA SelectCases ==
  ASSUME TablesTypeOK, NEW p \in Nat, NEW t \in Nat, NEW st,
         SelectSinglePartitionedTaskWorker(p, t, st)
  PROVE  \/ UNCHANGED tables
         \/ \E i \in DOMAIN Worker :
              /\ Worker[i].PKey = p /\ Worker[i].Capacity > 0
              /\ Worker[i] \in WorkerRow
              /\ NewTask(t, Worker[i].WorkerID, PENDING, p)
              /\ SetCapacity(p, Worker[i].WorkerID, Worker[i].Capacity - 1)
BY DEF SelectSinglePartitionedTaskWorker, AvailableWorkers, TablesTypeOK

LEMMA SelectType ==
  ASSUME TablesTypeOK, NEW p \in Nat, NEW t \in Nat, NEW st,
         SelectSinglePartitionedTaskWorker(p, t, st)
  PROVE  TablesTypeOK'
<1>1. CASE UNCHANGED tables
  BY <1>1 DEF TablesTypeOK, tables
<1>2. ASSUME NEW i \in DOMAIN Worker, Worker[i] \in WorkerRow,
             NewTask(t, Worker[i].WorkerID, PENDING, p),
             SetCapacity(p, Worker[i].WorkerID, Worker[i].Capacity - 1)
      PROVE  TablesTypeOK'
  <2>1. Worker[i].WorkerID \in Nat /\ Worker[i].Capacity - 1 \in Int
    BY <1>2 DEF WorkerRow
  <2>2. Task' \in Seq(TaskRow)
    BY <1>2, <2>1, NewTaskShape
  <2>3. Worker' \in Seq(WorkerRow)
    BY <1>2, <2>1, SetCapacityShape
  <2> QED BY <2>2, <2>3 DEF TablesTypeOK
<1> QED BY <1>1, <1>2, SelectCases

LEMMA UpdateShape ==
  ASSUME TablesTypeOK, NEW p, NEW w, NEW t, WorkerUpdateTask(p, w, t, COMPLETE)
  PROVE  /\ TablesTypeOK'
         /\ Len(Worker') = Len(Worker) /\ DOMAIN Worker' = DOMAIN Worker
         /\ \A i \in DOMAIN Worker :
              /\ Worker'[i].WorkerID = Worker[i].WorkerID
              /\ Worker'[i].PKey = Worker[i].PKey
              /\ Worker'[i].Capacity =
                   IF Worker[i].PKey = p /\ Worker[i].WorkerID = w
                   THEN Worker[i].Capacity + 1 ELSE Worker[i].Capacity
<1>1. \A i \in DOMAIN Worker : Worker[i] \in WorkerRow
  BY DEF TablesTypeOK
<1>2. Worker' = [i \in DOMAIN Worker |-> Worker'[i]]
  BY DEF WorkerUpdateTask
<1>3. \A i \in DOMAIN Worker : Worker'[i] \in WorkerRow
  BY <1>1 DEF WorkerUpdateTask, WorkerRow
<1>4. Worker' \in Seq(WorkerRow) /\ Len(Worker') = Len(Worker) /\ DOMAIN Worker' = DOMAIN Worker
  BY <1>2, <1>3, MapSeq DEF TablesTypeOK
<1>5. \A i \in DOMAIN Worker :
        /\ Worker'[i].WorkerID = Worker[i].WorkerID
        /\ Worker'[i].PKey = Worker[i].PKey
        /\ Worker'[i].Capacity =
             IF Worker[i].PKey = p /\ Worker[i].WorkerID = w
             THEN Worker[i].Capacity + 1 ELSE Worker[i].Capacity
  BY <1>1 DEF WorkerUpdateTask, WorkerRow
<1>6. Task' \in Seq(TaskRow)
  BY SetTaskStateShape DEF WorkerUpdateTask
<1> QED BY <1>4, <1>5, <1>6 DEF TablesTypeOK

LEMMA PollType ==
  ASSUME TablesTypeOK, NEW p, NEW w, NEW k, NEW ids, WorkerSelectTask(p, w, k, ids)
  PROVE  TablesTypeOK' /\ ids \subseteq Nat
<1>1. TablesTypeOK'
  BY SetTaskStateShape DEF WorkerSelectTask, TablesTypeOK
<1>2. \A j \in DOMAIN Task : Task[j] \in TaskRow
  BY DEF TablesTypeOK
<1>3. \A j \in DOMAIN Task : Task[j].TaskID \in Nat
  BY <1>2 DEF TaskRow
<1> QED BY <1>1, <1>3 DEF WorkerSelectTask, PendingTasks
-----------------------------------------------------------------------------
(* Type correctness.                                                       *)

LEMMA EmptyTables == <<>> \in Seq(WorkerRow) /\ <<>> \in Seq(TaskRow)
OBVIOUS

LEMMA ProcessStartType ==
  /\ ProcessStart.main \in MainPcs
  /\ ProcessStart.pcs \in [Schedulers -> SchedPcs]
  /\ ProcessStart.tasks \in [Schedulers -> Nat]
  /\ ProcessStart.probes \in [Schedulers -> Probes]
  /\ 0 \in 0 .. NumWorkers
<1>1. NoProbe \in Probes
  BY ActivePartitionsPositive DEF NoProbe, Probes
<1>2. ProcessStart.probes \in [Schedulers -> Probes]
  BY <1>1 DEF ProcessStart
<1>3. ProcessStart.pcs \in [Schedulers -> SchedPcs]
  BY DEF ProcessStart, SchedPcs
<1>4. ProcessStart.tasks \in [Schedulers -> Nat] /\ ProcessStart.main \in MainPcs
  BY DEF ProcessStart, MainPcs
<1> QED BY <1>2, <1>3, <1>4, TablesAssumption

LEMMA MainType ==
  ASSUME TablesTypeOK, SchedTypeOK, Main
  PROVE  TablesTypeOK' /\ SchedTypeOK'
<1>1. ASSUME NEW from, NEW to \in MainPcs, TruncateWorkers(from, to)
      PROVE  TablesTypeOK' /\ SchedTypeOK'
  <2>1. TablesTypeOK'
    BY <1>1, EmptyTables DEF TruncateWorkers, TruncateWorkerTable, TablesTypeOK, tables
  <2>2. SchedTypeOK'
    BY <1>1 DEF TruncateWorkers, SchedTypeOK, threadVars
  <2> QED BY <2>1, <2>2
<1>2. ASSUME NEW from, NEW to \in MainPcs, TruncateTasks(from, to)
      PROVE  TablesTypeOK' /\ SchedTypeOK'
  <2>1. TablesTypeOK'
    BY <1>2, EmptyTables DEF TruncateTasks, TruncateTaskTable, TablesTypeOK, tables
  <2>2. SchedTypeOK'
    BY <1>2 DEF TruncateTasks, SchedTypeOK, threadVars
  <2> QED BY <2>1, <2>2
<1>3. ASSUME InsertWorker(inserted, WorkerCapacity, PKeyOf(inserted))
      PROVE  TablesTypeOK'
  <2>1. [WorkerID |-> inserted, Capacity |-> WorkerCapacity, PKey |-> PKeyOf(inserted)]
          \in WorkerRow
    BY PKeyOfNat, SchedulerAssumption, TablesAssumption DEF WorkerRow, SchedTypeOK
  <2> QED BY <1>3, <2>1 DEF InsertWorker, TablesTypeOK
<1>4. CASE SetupInsert
  BY <1>3, <1>4, TablesAssumption DEF SetupInsert, SchedTypeOK, threadVars
<1>5. CASE SetupFails
  <2>1. TablesTypeOK'
    BY <1>3, <1>5 DEF SetupFails, TablesTypeOK, tables
  <2> QED BY <1>5, <2>1 DEF SetupFails, SchedTypeOK, threadVars, MainPcs, Ended
<1>6. CASE StartThreads
  BY <1>6 DEF StartThreads, TablesTypeOK, tables, SchedTypeOK, SchedPcs, MainPcs
<1>7. CASE FinishRun
  BY <1>7 DEF FinishRun, TablesTypeOK, tables, SchedTypeOK, threadVars, MainPcs
<1>8. CASE JoinThreads
  BY <1>8 DEF JoinThreads, TablesTypeOK, tables, SchedTypeOK, threadVars, MainPcs, Ended
<1>9. CASE StartAgain
  <2>1. runs' \in 1 .. MaxRuns
    BY <1>9, SchedulerAssumption DEF StartAgain, SchedTypeOK
  <2> QED BY <1>9, <2>1, ProcessStartType DEF StartAgain, TablesTypeOK, tables, SchedTypeOK
<1> QED
  <2>1. {"truncateTasks", "insertWorkers", "teardownTasks", "done"} \subseteq MainPcs
    BY DEF MainPcs, Ended
  <2> QED BY <2>1, <1>1, <1>2, <1>4, <1>5, <1>6, <1>7, <1>8, <1>9 DEF Main

LEMMA ThreadType ==
  ASSUME TablesTypeOK, SchedTypeOK, NEW s \in Schedulers, Thread(s)
  PROVE  TablesTypeOK' /\ SchedTypeOK'
<1>1. /\ probe[s] \in Probes /\ schedTask[s] \in Nat /\ probe[s].pkey \in Nat
      /\ probe[s].count \in Nat /\ probe[s].try \in Nat /\ probe[s].asked \in SUBSET Nat
  <2>1. probe[s] \in Probes /\ schedTask[s] \in Nat
    BY DEF SchedTypeOK
  <2>2. probe[s].pkey \in Nat
    BY <2>1 DEF Probes
  <2>3. probe[s].count \in Nat /\ probe[s].try \in Nat
    BY <2>1 DEF Probes
  <2>4. probe[s].asked \in SUBSET Nat
    BY <2>1 DEF Probes
  <2> QED BY <2>1, <2>2, <2>3, <2>4
<1> USE DEF SchedTypeOK
<1>2. CASE \/ NotItsTurn(s) \/ ClaimEntry(s) \/ ArrayFull(s) \/ Schedule(s)
           \/ NextRound(s) \/ AssertFails(s) \/ LoopTest(s)
  <2>1. TablesTypeOK'
    BY <1>2 DEF TablesTypeOK, tables, NotItsTurn, ClaimEntry, ArrayFull, Schedule,
                NextRound, AssertFails, LoopTest
  <2>2. CASE NotItsTurn(s)
    BY <2>1, <2>2 DEF NotItsTurn, SchedPcs
  <2>3. CASE ClaimEntry(s)
    BY <2>1, <2>3 DEF ClaimEntry, SchedPcs
  <2>4. CASE ArrayFull(s)
    BY <2>1, <2>4 DEF ArrayFull, SchedPcs, MainPcs, Ended
  <2>5. CASE Schedule(s)
    <3>1. \A p \in 0 .. ActivePartitions - 1 : [NoProbe EXCEPT !.pkey = p] \in Probes
      BY ActivePartitionsPositive DEF NoProbe, Probes
    <3>2. probe' \in [Schedulers -> Probes]
      BY <2>5, <3>1 DEF Schedule
    <3> QED BY <2>1, <2>5, <3>2 DEF Schedule, SchedPcs
  <2>6. CASE NextRound(s)
    <3>1. probe' \in [Schedulers -> Probes]
      BY <1>1, <2>6 DEF NextRound, Probes
    <3> QED BY <2>1, <2>6, <3>1 DEF NextRound, SchedPcs
  <2>7. CASE AssertFails(s)
    BY <2>1, <2>7 DEF AssertFails, SchedPcs, MainPcs, Ended
  <2>8. CASE LoopTest(s)
    BY <2>1, <2>8 DEF LoopTest, SchedPcs
  <2> QED BY <1>2, <2>2, <2>3, <2>4, <2>5, <2>6, <2>7, <2>8
<1>3. CASE ProbeHit(s) \/ LateCommit(s)
  <2>1. TablesTypeOK'
    BY <1>1, <1>3, SelectType DEF ProbeHit, LateCommit
  <2> QED BY <2>1, <1>3 DEF ProbeHit, LateCommit, SchedPcs
<1>4. CASE ProbeMiss(s)
  <2>1. TablesTypeOK'
    BY <1>1, <1>4, SelectType DEF ProbeMiss
  <2>2. NextPKey(probe[s].pkey, probe[s].count) \in 0 .. ActivePartitions - 1
    BY <1>1, ActivePartitionsPositive
  <2>3. Advance(probe[s]) \in Probes
    <3>1. /\ probe[s].count + 1 \in Nat
          /\ (IF probe[s].count = 1 THEN {} ELSE probe[s].asked) \cup {probe[s].pkey} \in SUBSET Nat
      BY <1>1
    <3> QED BY <1>1, <2>2, <3>1 DEF Advance, Probes
  <2>4. probe' \in [Schedulers -> Probes]
    BY <1>4, <2>3 DEF ProbeMiss
  <2> QED BY <1>4, <2>1, <2>4 DEF ProbeMiss, SchedPcs
<1>5. CASE ProbeFails(s)
  <2>1. TablesTypeOK'
    BY <1>1, <1>5, SelectType DEF ProbeFails, TablesTypeOK, tables
  <2> QED BY <1>5, <2>1 DEF ProbeFails, SchedPcs, MainPcs, Ended
<1> QED BY <1>2, <1>3, <1>4, <1>5 DEF Thread

LEMMA DispatchType ==
  ASSUME TablesTypeOK, WorkerTypeOK, NEW w \in Workers, Dispatch(w)
  PROVE  TablesTypeOK' /\ WorkerTypeOK'
<1> USE DEF WorkerTypeOK, DispatchPcs
<1>1. CASE Poll(w)
  <2>1. PICK ids : /\ WorkerSelectTask(PKeyOf(w), w, TopK, ids)
                   /\ batch' = [batch EXCEPT ![w] = ids]
    BY <1>1 DEF Poll
  <2>2. TablesTypeOK' /\ ids \in SUBSET Nat
    BY <2>1, PollType
  <2>3. batch' \in [Workers -> SUBSET Nat]
    BY <2>1, <2>2
  <2> QED BY <1>1, <2>2, <2>3 DEF Poll
<1>2. CASE PollFails(w) \/ LatePoll(w)
  <2>1. TablesTypeOK'
    BY <1>2, PollType DEF PollFails, LatePoll, TablesTypeOK, tables
  <2> QED BY <1>2, <2>1 DEF PollFails, LatePoll
<1>3. CASE Push(w)
  <2>1. PICK t \in batch[w] : /\ taskQueue_' = [taskQueue_ EXCEPT ![w] = Append(@, t)]
                              /\ batch' = [batch EXCEPT ![w] = @ \ {t}]
    BY <1>3 DEF Push
  <2>2. t \in Nat
    BY <2>1
  <2>3. Append(taskQueue_[w], t) \in Seq(Nat) /\ batch[w] \ {t} \in SUBSET Nat
    BY <2>2
  <2>4. taskQueue_' \in [Workers -> Seq(Nat)] /\ batch' \in [Workers -> SUBSET Nat]
    BY <2>1, <2>3
  <2> QED BY <1>3, <2>4 DEF Push, TablesTypeOK, tables
<1>4. CASE NotifyOne(w)
  <2>1. ASSUME NEW e \in Executors
        PROVE  [execPc EXCEPT ![w][e] = "lock"] \in [Workers -> [Executors -> ExecPcs]]
    BY DEF ExecPcs
  <2>2. execPc' \in [Workers -> [Executors -> ExecPcs]]
    BY <1>4, <2>1, ZenonT(60) DEF NotifyOne
  <2>3. TablesTypeOK'
    BY <1>4 DEF NotifyOne, TablesTypeOK, tables
  <2>4. /\ dispatchPc' = [dispatchPc EXCEPT ![w] = "push"]
        /\ totalTasks_' = totalTasks_ + 1
        /\ UNCHANGED <<workerUp, stopDispatch_, stop_, taskQueue_, batch, execTask, endPc,
                       totalFinishedTasks_>>
    BY <1>4 DEF NotifyOne
  <2> QED BY <2>2, <2>3, <2>4
<1>5. CASE DispatchLoopTest(w)
  BY <1>5 DEF DispatchLoopTest, TablesTypeOK, tables
<1> QED BY <1>1, <1>2, <1>3, <1>4, <1>5 DEF Dispatch

LEMMA ExecuteType ==
  ASSUME TablesTypeOK, WorkerTypeOK, NEW w \in Workers, NEW e \in Executors, Execute(w, e)
  PROVE  TablesTypeOK' /\ WorkerTypeOK'
<1> USE DEF WorkerTypeOK
<1>1. \A pc \in ExecPcs : [execPc EXCEPT ![w][e] = pc] \in [Workers -> [Executors -> ExecPcs]]
  OBVIOUS
<1>2. {"lock", "goingToSleep", "asleep", "execute", "returned", "dead"} = ExecPcs
  BY DEF ExecPcs
<1>3. CASE \/ FindNoWork(w, e) \/ FallAsleep(w, e) \/ WakeSpuriously(w, e)
           \/ ExecutorReturns(w, e)
  <2>1. execPc' \in [Workers -> [Executors -> ExecPcs]]
    BY <1>1, <1>2, <1>3, ZenonT(60) DEF FindNoWork, FallAsleep, WakeSpuriously, ExecutorReturns
  <2> QED BY <1>3, <2>1 DEF FindNoWork, FallAsleep, WakeSpuriously, ExecutorReturns,
                            TablesTypeOK, tables
<1>4. CASE TakeTask(w, e)
  <2>1. Head(taskQueue_[w]) \in Nat /\ Tail(taskQueue_[w]) \in Seq(Nat)
    BY <1>4 DEF TakeTask
  <2>2. execPc' \in [Workers -> [Executors -> ExecPcs]]
    BY <1>1, <1>2, <1>4 DEF TakeTask
  <2>3. /\ execTask' \in [Workers -> [Executors -> Nat]]
        /\ taskQueue_' \in [Workers -> Seq(Nat)]
    BY <2>1, <1>4 DEF TakeTask
  <2> QED BY <1>4, <2>2, <2>3 DEF TakeTask, TablesTypeOK, tables
<1>5. CASE Complete(w, e) \/ CompleteFails(w, e) \/ LateComplete(w, e)
  <2>1. TablesTypeOK'
    BY <1>5, UpdateShape DEF Complete, CompleteFails, LateComplete, TablesTypeOK, tables
  <2>2. execPc' \in [Workers -> [Executors -> ExecPcs]]
    BY <1>1, <1>2, <1>5 DEF Complete, CompleteFails, LateComplete
  <2>3. CASE Complete(w, e)
    BY <2>1, <2>2, <2>3 DEF Complete
  <2>4. CASE CompleteFails(w, e)
    BY <2>1, <2>2, <2>4 DEF CompleteFails
  <2>5. CASE LateComplete(w, e)
    BY <2>1, <2>2, <2>5 DEF LateComplete
  <2> QED BY <1>5, <2>3, <2>4, <2>5
<1> QED BY <1>3, <1>4, <1>5 DEF Execute

LEMMA EndServingType ==
  ASSUME TablesTypeOK, WorkerTypeOK, NEW w \in Workers, EndServing(w)
  PROVE  TablesTypeOK' /\ WorkerTypeOK'
<1>1. TablesTypeOK'
  BY DEF EndServing, BeginEndServing, JoinDispatcher, QueueDrained, StopExecutors, NotifyAll,
         JoinExecutors, TablesTypeOK, tables
<1>2. endPc' \in [Workers -> EndPcs]
  BY DEF EndServing, BeginEndServing, JoinDispatcher, QueueDrained, StopExecutors, NotifyAll,
         JoinExecutors, Proceed, WorkerTypeOK, EndPcs
<1>3. execPc' \in [Workers -> [Executors -> ExecPcs]]
  <2>1. CASE NotifyAll(w)
    BY <2>1 DEF NotifyAll, WorkerTypeOK, ExecPcs
  <2>2. CASE UNCHANGED execPc
    BY <2>2 DEF WorkerTypeOK
  <2> QED BY <2>1, <2>2 DEF EndServing, BeginEndServing, JoinDispatcher, QueueDrained,
                            StopExecutors, JoinExecutors
<1> QED
  BY <1>1, <1>2, <1>3
  DEF EndServing, BeginEndServing, JoinDispatcher, QueueDrained, StopExecutors, NotifyAll,
      JoinExecutors, WorkerTypeOK

LEMMA InitType == Init => TypeOK
<1>1. 1 \in 1 .. MaxRuns
  BY SchedulerAssumption
<1>2. SchedInit => SchedTypeOK
  <2> SUFFICES ASSUME SchedInit PROVE SchedTypeOK
    OBVIOUS
  <2>1. mainFinished \in BOOLEAN
    BY DEF SchedInit
  <2>2. /\ schedMain \in MainPcs /\ schedPc \in [Schedulers -> SchedPcs]
        /\ schedTask \in [Schedulers -> Nat] /\ probe \in [Schedulers -> Probes]
    BY ProcessStartType DEF SchedInit
  <2>3. /\ inserted \in 0 .. NumWorkers /\ schedLatsArrayIndex \in Nat
        /\ taskindex \in Nat /\ runs \in 1 .. MaxRuns
    BY <1>1, ProcessStartType DEF SchedInit
  <2> QED BY <2>1, <2>2, <2>3 DEF SchedTypeOK
<1>3. WorkerInit => WorkerTypeOK
  BY DEF WorkerInit, WorkerTypeOK, DispatchPcs, ExecPcs, EndPcs
<1>4. TablesInit => TablesTypeOK
  BY EmptyTables DEF TablesInit, TablesTypeOK
<1> QED BY <1>2, <1>3, <1>4 DEF Init, TypeOK

LEMMA NextType == TypeOK /\ [Next]_vars => TypeOK'
<1> SUFFICES ASSUME TypeOK, [Next]_vars PROVE TypeOK'
  OBVIOUS
<1> USE DEF TypeOK
<1>1. CASE SchedNext /\ UNCHANGED workerVars
  <2>1. TablesTypeOK' /\ SchedTypeOK'
    BY <1>1, MainType, ThreadType DEF SchedNext
  <2> QED BY <1>1, <2>1 DEF workerVars, WorkerTypeOK
<1>2. CASE WorkerNext /\ UNCHANGED schedVars
  <2>1. TablesTypeOK' /\ WorkerTypeOK'
    BY <1>2, DispatchType, ExecuteType, EndServingType DEF WorkerNext
  <2> QED BY <1>2, <2>1 DEF schedVars, SchedTypeOK
<1>3. CASE UNCHANGED vars
  BY <1>3 DEF vars, tables, schedVars, workerVars, TablesTypeOK, SchedTypeOK, WorkerTypeOK
<1> QED BY <1>1, <1>2, <1>3 DEF Next, Over

\* Type correctness of the deployed system: the procedures of sql/ and the
\* threads of both programs keep every row and every variable in its type,
\* however often the scheduler is started.
THEOREM TypeCorrect == Spec => []TypeOK
BY InitType, NextType, PTL DEF Spec
-----------------------------------------------------------------------------
(* The inductive step.  First, what the tasks inside a worker depend on.   *)

QuietHands ==
  /\ UNCHANGED <<batch, taskQueue_, execTask>>
  /\ \A w \in Workers, e \in Executors :
       execPc'[w][e] = "execute" <=> execPc[w][e] = "execute"

LEMMA QuietHandsHeld ==
  ASSUME QuietHands
  PROVE  \A w \in Workers : /\ Queued(w)' = Queued(w)
                            /\ Executing(w)' = Executing(w)
                            /\ Held(w)' = Held(w)
<1> SUFFICES ASSUME NEW w \in Workers
             PROVE  /\ Queued(w)' = Queued(w)
                    /\ Executing(w)' = Executing(w)
                    /\ Held(w)' = Held(w)
  OBVIOUS
<1>1. Queued(w)' = Queued(w)
  BY DEF QuietHands, Queued
<1>2. {x \in Executors : execPc'[w][x] = "execute"} = {x \in Executors : execPc[w][x] = "execute"}
  BY DEF QuietHands
<1>3. Executing(w)' = Executing(w)
  BY <1>2 DEF QuietHands, Executing
<1> QED BY <1>1, <1>3 DEF Held, QuietHands

LEMMA QuietHandsTwice ==
  ASSUME QuietHands, NoTaskTwice
  PROVE  NoTaskTwice'
<1>1. \A w \in Workers : /\ Queued(w)' = Queued(w)
                         /\ Executing(w)' = Executing(w)
                         /\ Held(w)' = Held(w)
  BY QuietHandsHeld
<1> QED BY <1>1 DEF NoTaskTwice, QuietHands

LEMMA WorkerVarsQuiet ==
  ASSUME UNCHANGED workerVars
  PROVE  QuietHands
BY DEF workerVars, QuietHands

\* Steps that change neither the tables nor what the workers hold, and that
\* neither start a probe nor end a teardown.
LEMMA QuietStep ==
  ASSUME SystemInv, TypeOK', UNCHANGED tables, QuietHands,
         UNCHANGED <<taskindex, inserted, schedTask>>,
         \A s \in Schedulers : Probing(s)' => Probing(s),
         \/ UNCHANGED schedMain
         \/ ~SettingUp' /\ schedMain' \notin {"teardownTasks"} /\ ~TornDown /\ ~TornDown'
            /\ (schedMain' = "teardownWorkers" => CleanDB)
  PROVE  SystemInv'
<1> USE DEF SystemInv
<1>1. \A w \in Workers : Held(w)' = Held(w)
  BY QuietHandsHeld
<1>2. TornDown' => TornDown
  BY DEF TornDown
<1>3. WorkersAsInserted'
  BY DEF WorkersAsInserted, SettingUp, tables
<1>4. TasksAsAssigned' /\ TaskIdsUnique'
  BY DEF TasksAsAssigned, TaskIdsUnique, tables
<1>5. FreshTasks'
  BY <1>1 DEF FreshTasks, tables
<1>6. HeldIsRunning'
  BY <1>1, <1>2 DEF HeldIsRunning, tables, TornDown
<1>7. NoTaskTwice'
  BY QuietHandsTwice
<1>8. CapacityConservation'
  BY <1>2 DEF CapacityConservation, ActiveTasks, tables, TornDown
<1> QED BY <1>3, <1>4, <1>5, <1>6, <1>7, <1>8

\* Clearing a table, and filling the Worker table.
LEMMA TruncateWorkersStep ==
  ASSUME SystemInv, TypeOK', UNCHANGED workerVars, NEW from, NEW to,
         TruncateWorkers(from, to),
         \/ from = "truncateWorkers" /\ to = "truncateTasks"
         \/ from = "teardownWorkers" /\ to = "teardownTasks"
  PROVE  SystemInv'
<1> USE DEF SystemInv
<1>0. QuietHands
  BY WorkerVarsQuiet
<1>1. \A w \in Workers : Held(w)' = Held(w)
  BY <1>0, QuietHandsHeld
<1>2. UNCHANGED <<Task, inserted, taskindex, schedPc, schedTask>> /\ ~TornDown /\ ~TornDown'
  BY DEF TruncateWorkers, TruncateWorkerTable, threadVars, tables, TornDown
<1>3. Worker' = <<>> \/ Worker' = Worker
  BY DEF TruncateWorkers, TruncateWorkerTable, tables
<1>4. WorkersAsInserted'
  <2>1. CASE Worker' = Worker
    BY <1>2, <2>1 DEF WorkersAsInserted, SettingUp, TruncateWorkers
  <2>2. CASE Worker' = <<>>
    <3>1. Len(Worker') = 0 /\ DOMAIN Worker' = {}
      BY <2>2
    <3> QED BY <1>2, <3>1, TablesAssumption DEF WorkersAsInserted, SettingUp, TruncateWorkers
  <2> QED BY <1>3, <2>1, <2>2
<1>5. TasksAsAssigned' /\ TaskIdsUnique'
  BY <1>2 DEF TasksAsAssigned, TaskIdsUnique
<1>6. FreshTasks'
  BY <1>1, <1>2 DEF FreshTasks, Probing
<1>7. HeldIsRunning'
  BY <1>1, <1>2 DEF HeldIsRunning
<1>8. NoTaskTwice'
  BY <1>0, QuietHandsTwice
<1>9. CapacityConservation'
  <2>1. DOMAIN <<>> = {}
    OBVIOUS
  <2> QED BY <1>2, <1>3, <2>1 DEF CapacityConservation, ActiveTasks
<1> QED BY <1>4, <1>5, <1>6, <1>7, <1>8, <1>9

LEMMA TruncateTasksStep ==
  ASSUME SystemInv, TypeOK', UNCHANGED workerVars, NEW from, NEW to,
         TruncateTasks(from, to),
         \/ from = "truncateTasks" /\ to = "insertWorkers"
         \/ from = "teardownTasks" /\ to = "done"
  PROVE  SystemInv'
<1> USE DEF SystemInv
<1>0. QuietHands
  BY WorkerVarsQuiet
<1>1. \A w \in Workers : Held(w)' = Held(w)
  BY <1>0, QuietHandsHeld
<1>2. UNCHANGED <<Worker, inserted, taskindex, schedPc, schedTask>> /\ ~TornDown
  BY DEF TruncateTasks, TruncateTaskTable, threadVars, tables, TornDown
<1>3. (Task' = <<>> \/ Task' = Task) /\ DOMAIN <<>> = {}
  BY DEF TruncateTasks, TruncateTaskTable, tables
<1>4. TornDown' \/ Task' = Task
  BY <1>3 DEF TruncateTasks, WorkersAsInserted, SettingUp, TornDown
<1>5. WorkersAsInserted'
  BY <1>2, <1>4 DEF WorkersAsInserted, SettingUp, TruncateTasks, TornDown
<1>6. TasksAsAssigned' /\ TaskIdsUnique'
  BY <1>2, <1>3 DEF TasksAsAssigned, TaskIdsUnique
<1>7. FreshTasks'
  BY <1>1, <1>2, <1>3 DEF FreshTasks, Probing
<1>8. HeldIsRunning'
  BY <1>1, <1>2, <1>3, <1>4 DEF HeldIsRunning
<1>9. NoTaskTwice'
  BY <1>0, QuietHandsTwice
<1>10. CapacityConservation'
  BY <1>2, <1>4 DEF CapacityConservation, ActiveTasks
<1> QED BY <1>5, <1>6, <1>7, <1>8, <1>9, <1>10

LEMMA InsertWorkerStep ==
  ASSUME SystemInv, TypeOK', UNCHANGED workerVars,
         schedMain = "insertWorkers", inserted < NumWorkers,
         InsertWorker(inserted, WorkerCapacity, PKeyOf(inserted)),
         UNCHANGED <<mainFinished, threadVars, runs>>,
         \/ UNCHANGED schedMain /\ inserted' = inserted + 1
         \/ schedMain' = "exited" /\ UNCHANGED inserted
  PROVE  SystemInv'
<1> USE DEF SystemInv
<1>0. QuietHands
  BY WorkerVarsQuiet
<1>1. \A w \in Workers : Held(w)' = Held(w)
  BY <1>0, QuietHandsHeld
<1>2. /\ UNCHANGED <<Task, taskindex, schedPc, schedTask>> /\ ~TornDown /\ ~TornDown'
      /\ Task = <<>> /\ Len(Worker) = inserted
  BY DEF InsertWorker, threadVars, TornDown, WorkersAsInserted, SettingUp
<1> DEFINE row == [WorkerID |-> inserted, Capacity |-> WorkerCapacity, PKey |-> PKeyOf(inserted)]
<1>3. row \in WorkerRow /\ inserted \in Nat
  BY PKeyOfNat, SchedulerAssumption, TablesAssumption DEF WorkerRow, TypeOK, SchedTypeOK
<1>4. /\ Worker \in Seq(WorkerRow)
      /\ Worker' = Append(Worker, row)
  BY DEF InsertWorker, TypeOK, TablesTypeOK
<1>5. row.WorkerID = inserted /\ row.Capacity = WorkerCapacity /\ row.PKey = PKeyOf(inserted)
  OBVIOUS
<1> HIDE DEF row
<1>6. /\ DOMAIN Worker = 1 .. inserted /\ DOMAIN Worker' = 1 .. inserted + 1
      /\ Len(Worker') = inserted + 1
      /\ \A i \in 1 .. inserted : Worker'[i] = Worker[i]
      /\ Worker'[inserted + 1] = row
  BY <1>2, <1>3, <1>4
<1>7. WorkersAsInserted'
  <2>1. \A i \in DOMAIN Worker' :
          Worker'[i].WorkerID = i - 1 /\ Worker'[i].PKey = PKeyOf(i - 1)
    <3> TAKE i \in DOMAIN Worker'
    <3>1. CASE i = inserted + 1
      BY <1>3, <1>5, <1>6, <3>1
    <3>2. CASE i \in 1 .. inserted
      BY <1>6, <3>2 DEF WorkersAsInserted
    <3> QED BY <1>3, <1>6, <3>1, <3>2
  <2>2. Len(Worker') <= NumWorkers
    BY <1>3, <1>6, TablesAssumption
  <2> QED BY <1>2, <1>6, <2>1, <2>2 DEF WorkersAsInserted, SettingUp
<1>8. TasksAsAssigned' /\ TaskIdsUnique'
  BY <1>2 DEF TasksAsAssigned, TaskIdsUnique
<1>9. FreshTasks'
  BY <1>1, <1>2 DEF FreshTasks, Probing
<1>10. HeldIsRunning'
  BY <1>1, <1>2 DEF HeldIsRunning
<1>11. NoTaskTwice'
  BY <1>0, QuietHandsTwice
<1>12. CapacityConservation'
  <2>1. \A w : ActiveTasks(w)' = {} /\ ActiveTasks(w) = {}
    <3>1. DOMAIN Task = {} /\ DOMAIN Task' = {}
      BY <1>2
    <3> QED BY <3>1 DEF ActiveTasks
  <2>2. Cardinality({}) = 0
    BY FS_EmptySet
  <2>3. \A i \in DOMAIN Worker : Worker[i].Capacity + 0 = WorkerCapacity
    BY <1>2, <2>1, <2>2 DEF CapacityConservation
  <2>4. \A i \in DOMAIN Worker' : Worker'[i].Capacity + 0 = WorkerCapacity
    BY <1>3, <1>5, <1>6, <2>3, SchedulerAssumption
  <2> QED BY <2>1, <2>2, <2>4 DEF CapacityConservation
<1> QED BY <1>7, <1>8, <1>9, <1>10, <1>11, <1>12

LEMMA MainStep ==
  ASSUME SystemInv, TypeOK', UNCHANGED workerVars, Main, MaxRuns = 1
  PROVE  SystemInv'
<1>0. QuietHands
  BY WorkerVarsQuiet
<1>1. CASE SetupInsert
  BY <1>1, InsertWorkerStep DEF SetupInsert
<1>2. CASE SetupFails
  <2>1. CASE InsertWorker(inserted, WorkerCapacity, PKeyOf(inserted))
    BY <1>2, <2>1, InsertWorkerStep DEF SetupFails
  <2>2. CASE UNCHANGED tables
    BY <1>0, <1>2, <2>2, QuietStep DEF SetupFails, threadVars, Probing, SettingUp, TornDown
  <2> QED BY <1>2, <2>1, <2>2 DEF SetupFails
<1>3. CASE StartThreads
  BY <1>0, <1>3, QuietStep DEF StartThreads, Probing, SettingUp, TornDown
<1>4. CASE FinishRun
  BY <1>0, <1>4, QuietStep DEF FinishRun, threadVars, Probing, SettingUp, TornDown
<1>5. CASE JoinThreads
  BY <1>0, <1>5, QuietStep, SchedulerAssumption
  DEF JoinThreads, threadVars, Probing, SettingUp, TornDown
<1>6. ~StartAgain
  BY SchedulerAssumption DEF StartAgain, SystemInv, TypeOK, SchedTypeOK
<1> QED
  BY <1>1, <1>2, <1>3, <1>4, <1>5, <1>6, TruncateWorkersStep, TruncateTasksStep DEF Main

\* A task id is taken: it is above every id in use.
LEMMA ScheduleStep ==
  ASSUME SystemInv, TypeOK', UNCHANGED workerVars, NEW s \in Schedulers, Schedule(s)
  PROVE  SystemInv'
<1> USE DEF SystemInv
<1>0. QuietHands
  BY WorkerVarsQuiet
<1>1. \A w \in Workers : Held(w)' = Held(w)
  BY <1>0, QuietHandsHeld
<1>2. /\ UNCHANGED <<Worker, Task, schedMain, inserted>> /\ taskindex' = taskindex + 1
      /\ schedTask' = [schedTask EXCEPT ![s] = taskindex]
      /\ schedPc' = [schedPc EXCEPT ![s] = "probe"]
  BY DEF Schedule, tables
<1>3. taskindex \in Nat /\ schedTask \in [Schedulers -> Nat] /\ schedPc \in [Schedulers -> SchedPcs]
  BY DEF TypeOK, SchedTypeOK
<1>4. \A j \in DOMAIN Task : Task[j].TaskID \in Nat
  <2>1. \A j \in DOMAIN Task : Task[j] \in TaskRow
    BY DEF TypeOK, TablesTypeOK
  <2> QED BY <2>1 DEF TaskRow
<1>5. WorkersAsInserted'
  BY <1>2 DEF WorkersAsInserted, SettingUp
<1>6. TasksAsAssigned' /\ TaskIdsUnique'
  BY <1>2, <1>3, <1>4 DEF TasksAsAssigned, TaskIdsUnique
<1>7. \A w \in Workers : \A t \in Held(w) : t \in Nat
  BY DEF Held, Queued, Executing, TypeOK, WorkerTypeOK
<1>8. FreshTasks'
  <2> SUFFICES ASSUME NEW r \in Schedulers, Probing(r)'
               PROVE  /\ schedTask'[r] < taskindex'
                      /\ \A j \in DOMAIN Task' : Task'[j].TaskID # schedTask'[r]
                      /\ \A w \in Workers : schedTask'[r] \notin Held(w)'
                      /\ \A q \in Schedulers \ {r} : Probing(q)' => schedTask'[q] # schedTask'[r]
    BY DEF FreshTasks
  <2>1. \A q \in Schedulers \ {s} :
          /\ schedTask'[q] = schedTask[q]
          /\ Probing(q)' => Probing(q)
          /\ Probing(q) => schedTask[q] < taskindex
    BY <1>2, <1>3 DEF Probing, FreshTasks
  <2>2. CASE r = s
    <3>1. schedTask'[r] = taskindex
      BY <1>2, <1>3, <2>2
    <3>2. schedTask'[r] < taskindex'
      BY <1>2, <1>3, <3>1
    <3>3. \A j \in DOMAIN Task' : Task'[j].TaskID # schedTask'[r]
      BY <1>2, <1>3, <1>4, <3>1 DEF TasksAsAssigned
    <3>4. \A w \in Workers : schedTask'[r] \notin Held(w)'
      BY <1>1, <1>3, <1>7, <3>1 DEF HeldIsRunning
    <3>5. \A q \in Schedulers \ {r} : Probing(q)' => schedTask'[q] # schedTask'[r]
      BY <1>3, <2>1, <2>2, <3>1
    <3> QED BY <3>2, <3>3, <3>4, <3>5
  <2>3. CASE r # s
    <3>1. schedTask'[r] = schedTask[r] /\ Probing(r) /\ schedTask[r] < taskindex
      BY <2>1, <2>3
    <3>2. schedTask'[r] < taskindex'
      BY <1>2, <1>3, <3>1
    <3>3. \A j \in DOMAIN Task' : Task'[j].TaskID # schedTask'[r]
      BY <1>2, <3>1 DEF FreshTasks
    <3>4. \A w \in Workers : schedTask'[r] \notin Held(w)'
      BY <1>1, <3>1 DEF FreshTasks
    <3>5. schedTask'[s] # schedTask'[r]
      BY <1>2, <1>3, <3>1
    <3>6. \A q \in Schedulers \ {r} : Probing(q)' => schedTask'[q] # schedTask'[r]
      BY <2>1, <3>1, <3>5 DEF FreshTasks
    <3> QED BY <3>2, <3>3, <3>4, <3>6
  <2> QED BY <2>2, <2>3
<1>9. HeldIsRunning'
  BY <1>1, <1>2, <1>3, <1>7 DEF HeldIsRunning, TornDown
<1>10. NoTaskTwice'
  BY <1>0, QuietHandsTwice
<1>11. CapacityConservation'
  BY <1>2 DEF CapacityConservation, ActiveTasks, TornDown
<1> QED BY <1>5, <1>6, <1>8, <1>9, <1>10, <1>11

LEMMA ActiveFinite ==
  ASSUME TablesTypeOK
  PROVE  \A w : IsFiniteSet(ActiveTasks(w)) /\ Cardinality(ActiveTasks(w)) \in Nat
<1> TAKE w
<1>1. IsFiniteSet(1 .. Len(Task)) /\ DOMAIN Task = 1 .. Len(Task)
  BY FS_Interval DEF TablesTypeOK
<1>2. ActiveTasks(w) \subseteq 1 .. Len(Task)
  BY <1>1 DEF ActiveTasks
<1> QED BY <1>1, <1>2, FS_Subset, FS_CardinalityType

\* A probe that finds a worker: one unit of capacity becomes one pending task.
LEMMA AssignStep ==
  ASSUME SystemInv, TypeOK', UNCHANGED workerVars,
         NEW s \in Schedulers, schedPc[s] = "probe",
         NEW i \in DOMAIN Worker,
         Worker[i].PKey = probe[s].pkey, Worker[i] \in WorkerRow,
         NewTask(schedTask[s], Worker[i].WorkerID, PENDING, probe[s].pkey),
         SetCapacity(probe[s].pkey, Worker[i].WorkerID, Worker[i].Capacity - 1),
         UNCHANGED <<inserted, taskindex, schedTask>>,
         NEW pc \in SchedPcs, pc \notin {"probe", "roundOver"},
         schedPc' = [schedPc EXCEPT ![s] = pc],
         ~SettingUp, ~TornDown,
         UNCHANGED schedMain \/ schedMain' = "aborted"
  PROVE  SystemInv'
<1> USE DEF SystemInv
<1>0. QuietHands
  BY WorkerVarsQuiet
<1>1. \A w \in Workers : Held(w)' = Held(w)
  BY <1>0, QuietHandsHeld
<1>a. PICK v : v = Worker[i].WorkerID
  OBVIOUS
<1>b. PICK t : t = schedTask[s]
  OBVIOUS
<1>c. PICK n : n = Len(Task) + 1
  OBVIOUS
<1>2. /\ Worker[i].WorkerID \in Nat /\ Worker[i].Capacity \in Int /\ Worker[i].PKey \in Nat
      /\ TablesTypeOK /\ schedTask[s] \in Nat
  BY DEF WorkerRow, TypeOK, SchedTypeOK
<1>3. /\ DOMAIN Task' = DOMAIN Task \cup {n} /\ n \notin DOMAIN Task
      /\ \A j \in DOMAIN Task : Task'[j] = Task[j]
      /\ Task'[n].TaskID = t /\ Task'[n].WorkerID = v
      /\ Task'[n].PKey = Worker[i].PKey /\ Task'[n].State = PENDING
  BY <1>2, <1>a, <1>b, <1>c, NewTaskShape, ZenonT(60)
<1>4. /\ Len(Worker') = Len(Worker) /\ DOMAIN Worker' = DOMAIN Worker
      /\ \A k \in DOMAIN Worker :
           /\ Worker'[k].WorkerID = Worker[k].WorkerID
           /\ Worker'[k].PKey = Worker[k].PKey
           /\ Worker'[k].Capacity =
                IF Worker[k].PKey = Worker[i].PKey /\ Worker[k].WorkerID = v
                THEN Worker[i].Capacity - 1 ELSE Worker[k].Capacity
  BY <1>2, <1>a, SetCapacityShape
<1>5. /\ DOMAIN Worker = 1 .. Len(Worker) /\ Len(Worker) \in Nat
      /\ \A k \in DOMAIN Worker : Worker[k] \in WorkerRow
  BY <1>2 DEF TablesTypeOK
<1>6. \/ ~SettingUp' /\ ~TornDown' /\ schedMain' \notin {"teardownWorkers", "teardownTasks"}
      \/ UNCHANGED schedMain
  BY DEF SettingUp, TornDown
<1>7. ~SettingUp' /\ ~TornDown'
  BY DEF SettingUp, TornDown
<1>8. /\ v = i - 1 /\ v \in Workers /\ Worker[i].PKey = PKeyOf(v)
      /\ \A k \in DOMAIN Worker : Worker[k].WorkerID = v => k = i
  BY <1>5, <1>a, TablesAssumption DEF WorkersAsInserted, Workers
<1>9. t < taskindex /\ \A j \in DOMAIN Task : Task[j].TaskID # t
  BY <1>b DEF FreshTasks, Probing
<1>10. \A w \in Workers : t \notin Held(w)
  BY <1>b DEF FreshTasks, Probing
<1>11. WorkersAsInserted'
  BY <1>4, <1>6, <1>7 DEF WorkersAsInserted, SettingUp
<1>12. TasksAsAssigned'
  BY <1>3, <1>8, <1>9 DEF TasksAsAssigned
<1>13. TaskIdsUnique'
  BY <1>3, <1>9 DEF TaskIdsUnique
<1>14. FreshTasks'
  <2> SUFFICES ASSUME NEW r \in Schedulers, Probing(r)'
               PROVE  /\ schedTask'[r] < taskindex'
                      /\ \A j \in DOMAIN Task' : Task'[j].TaskID # schedTask'[r]
                      /\ \A w \in Workers : schedTask'[r] \notin Held(w)'
                      /\ \A q \in Schedulers \ {r} : Probing(q)' => schedTask'[q] # schedTask'[r]
    BY DEF FreshTasks
  <2>1. schedPc \in [Schedulers -> SchedPcs]
    BY DEF TypeOK, SchedTypeOK
  <2>2. r # s /\ \A q \in Schedulers : Probing(q)' => Probing(q)
    BY <2>1 DEF Probing
  <2>3. schedTask[r] # t
    BY <1>b, <2>2 DEF FreshTasks, Probing
  <2>4. \A j \in DOMAIN Task' : Task'[j].TaskID # schedTask'[r]
    BY <1>3, <2>2, <2>3 DEF FreshTasks
  <2> QED BY <1>1, <2>2, <2>4 DEF FreshTasks
<1>15. HeldIsRunning'
  BY <1>1, <1>3, <1>7, <1>10 DEF HeldIsRunning
<1>16. NoTaskTwice'
  BY <1>0, QuietHandsTwice
<1>17. CapacityConservation'
  <2>1. ASSUME NEW k \in DOMAIN Worker, NEW u, u = Worker[k].WorkerID
        PROVE  Worker'[k].Capacity + Cardinality(ActiveTasks(u)') = WorkerCapacity
    <3>1. Worker[k].Capacity + Cardinality(ActiveTasks(u)) = WorkerCapacity
      BY <2>1 DEF CapacityConservation
    <3>2. Worker[k].Capacity \in Int
      BY <1>5 DEF WorkerRow
    <3>3. CASE k = i
      <4>1. u = v /\ Worker'[k].Capacity = Worker[k].Capacity - 1
        BY <1>4, <1>a, <2>1, <3>3
      <4>2. ActiveTasks(v)' = ActiveTasks(v) \cup {n} /\ n \notin ActiveTasks(v)
        BY <1>3 DEF ActiveTasks
      <4>3. Cardinality(ActiveTasks(v)') = Cardinality(ActiveTasks(v)) + 1
        BY <1>2, <4>2, ActiveFinite, FS_AddElement
      <4>4. Cardinality(ActiveTasks(v)) \in Nat
        BY <1>2, ActiveFinite
      <4> QED BY <3>1, <3>2, <4>1, <4>3, <4>4
    <3>4. CASE k # i
      <4>1. u # v
        BY <1>8, <2>1, <3>4
      <4>2. ActiveTasks(u)' = ActiveTasks(u)
        BY <1>3, <4>1 DEF ActiveTasks
      <4> QED BY <1>4, <2>1, <3>1, <4>1, <4>2
    <3> QED BY <3>3, <3>4
  <2>2. \A k \in DOMAIN Worker' :
          Worker'[k].Capacity + Cardinality(ActiveTasks(Worker[k].WorkerID)') = WorkerCapacity
    BY <1>4, <2>1
  <2> QED BY <1>4, <2>2 DEF CapacityConservation
<1> QED BY <1>11, <1>12, <1>13, <1>14, <1>15, <1>16, <1>17

LEMMA ThreadStep ==
  ASSUME SystemInv, TypeOK', UNCHANGED workerVars, NEW s \in Schedulers, Thread(s)
  PROVE  SystemInv'
<1>0. QuietHands
  BY WorkerVarsQuiet
<1>1. /\ schedPc \in [Schedulers -> SchedPcs] /\ TablesTypeOK
      /\ probe[s].pkey \in Nat /\ schedTask[s] \in Nat
  <2>1. probe[s] \in Probes /\ schedTask[s] \in Nat
    BY DEF SystemInv, TypeOK, SchedTypeOK
  <2>2. probe[s].pkey \in Nat
    BY <2>1 DEF Probes
  <2> QED BY <2>1, <2>2 DEF SystemInv, TypeOK, SchedTypeOK
<1>2. CASE \/ NotItsTurn(s) \/ ClaimEntry(s) \/ ArrayFull(s)
           \/ NextRound(s) \/ AssertFails(s) \/ LoopTest(s)
  <2>1. /\ UNCHANGED tables /\ UNCHANGED <<taskindex, inserted, schedTask>>
        /\ UNCHANGED schedMain \/ (Alive /\ schedMain' \in {"exited", "aborted"})
    BY <1>2 DEF NotItsTurn, ClaimEntry, ArrayFull, NextRound, AssertFails, LoopTest
  <2>2. \A r \in Schedulers : Probing(r)' => Probing(r)
    BY <1>1, <1>2
    DEF Probing, NotItsTurn, ClaimEntry, ArrayFull, NextRound, AssertFails, LoopTest
  <2> QED BY <1>0, <2>1, <2>2, QuietStep DEF SettingUp, TornDown, Alive
<1>3. CASE Schedule(s)
  BY <1>3, ScheduleStep
<1>4. ASSUME NEW st, SelectSinglePartitionedTaskWorker(probe[s].pkey, schedTask[s], st),
             schedPc[s] = "probe",
             UNCHANGED <<inserted, taskindex, schedTask>>,
             NEW pc \in SchedPcs, pc \notin {"probe", "roundOver"},
             schedPc' = [schedPc EXCEPT ![s] = pc],
             schedMain \in {"run", "join", "exited", "aborted"},
             UNCHANGED schedMain \/ schedMain' = "aborted"
      PROVE  SystemInv'
  <2>1. CASE UNCHANGED tables
    <3>1. \A r \in Schedulers : Probing(r)' => Probing(r)
      BY <1>1, <1>4 DEF Probing
    <3> QED BY <1>0, <1>4, <2>1, <3>1, QuietStep DEF SettingUp, TornDown
  <2>2. CASE \E i \in DOMAIN Worker :
               /\ Worker[i].PKey = probe[s].pkey /\ Worker[i].Capacity > 0
               /\ Worker[i] \in WorkerRow
               /\ NewTask(schedTask[s], Worker[i].WorkerID, PENDING, probe[s].pkey)
               /\ SetCapacity(probe[s].pkey, Worker[i].WorkerID, Worker[i].Capacity - 1)
    BY <1>4, <2>2, AssignStep DEF SettingUp, TornDown
  <2> QED BY <1>1, <1>4, <2>1, <2>2, SelectCases
<1>5. CASE ProbeHit(s)
  BY <1>4, <1>5 DEF ProbeHit, Alive, SchedPcs
<1>6. CASE LateCommit(s)
  BY <1>4, <1>6 DEF LateCommit, SchedPcs
<1>7. CASE ProbeMiss(s)
  <2>1. UNCHANGED tables
    BY <1>7 DEF ProbeMiss, SelectSinglePartitionedTaskWorker, SUCCESS, NOWORKER
  <2>2. \A r \in Schedulers : Probing(r)' => Probing(r)
    BY <1>1, <1>7 DEF ProbeMiss, Probing
  <2> QED BY <1>0, <1>7, <2>1, <2>2, QuietStep DEF ProbeMiss
<1>8. CASE ProbeFails(s)
  <2>1. CASE \E st \in {SUCCESS, NOWORKER} :
               SelectSinglePartitionedTaskWorker(probe[s].pkey, schedTask[s], st)
    BY <1>4, <1>8, <2>1 DEF ProbeFails, Alive, SchedPcs
  <2>2. CASE UNCHANGED tables
    <3>1. \A r \in Schedulers : Probing(r)' => Probing(r)
      BY <1>1, <1>8 DEF ProbeFails, Probing
    <3> QED BY <1>0, <1>8, <2>2, <3>1, QuietStep DEF ProbeFails, SettingUp, TornDown, Alive
  <2> QED BY <1>8, <2>1, <2>2 DEF ProbeFails
<1> QED BY <1>2, <1>3, <1>5, <1>6, <1>7, <1>8 DEF Thread
-----------------------------------------------------------------------------
(* Steps of the workers.                                                   *)

\* A poll: pending tasks of the worker become running.
LEMMA PollTables ==
  ASSUME SystemInv, NEW w \in Workers, NEW ids,
         WorkerSelectTask(PKeyOf(w), w, TopK, ids), UNCHANGED schedVars
  PROVE  /\ WorkersAsInserted' /\ TasksAsAssigned' /\ TaskIdsUnique' /\ CapacityConservation'
         /\ DOMAIN Task' = DOMAIN Task
         /\ \A j \in DOMAIN Task :
              /\ Task'[j].TaskID = Task[j].TaskID
              /\ Task'[j].WorkerID = Task[j].WorkerID
              /\ Task'[j].State = Task[j].State \/ Task'[j].State = RUNNING
         /\ \A t \in ids : \E j \in DOMAIN Task :
              /\ Task[j].TaskID = t /\ Task[j].WorkerID = w
              /\ Task[j].State = PENDING /\ Task'[j].State = RUNNING
<1> USE DEF SystemInv
<1>1. /\ DOMAIN Task' = DOMAIN Task
      /\ \A j \in DOMAIN Task :
           /\ Task'[j].TaskID = Task[j].TaskID
           /\ Task'[j].WorkerID = Task[j].WorkerID
           /\ Task'[j].PKey = Task[j].PKey
           /\ Task'[j].State =
                IF Task[j].PKey = PKeyOf(w) /\ Task[j].TaskID \in ids /\ Task[j].WorkerID = w
                THEN RUNNING ELSE Task[j].State
  BY SetTaskStateShape DEF WorkerSelectTask, TypeOK
<1>2. UNCHANGED <<Worker, schedMain, inserted, taskindex>>
  BY DEF WorkerSelectTask, schedVars
<1>3. \A t \in ids : \E j \in DOMAIN Task :
        /\ Task[j].TaskID = t /\ Task[j].WorkerID = w /\ Task[j].PKey = PKeyOf(w)
        /\ Task[j].State = PENDING
  BY DEF WorkerSelectTask, PendingTasks
<1>4. \A t \in ids : \E j \in DOMAIN Task :
        /\ Task[j].TaskID = t /\ Task[j].WorkerID = w
        /\ Task[j].State = PENDING /\ Task'[j].State = RUNNING
  BY <1>1, <1>3
<1>5. \A j \in DOMAIN Task : Task'[j].State # Task[j].State
                             => Task[j].State = PENDING /\ Task'[j].State = RUNNING
  BY <1>1, <1>3 DEF TaskIdsUnique
<1>6. WorkersAsInserted'
  <2>1. Task = <<>> => Task' = <<>>
    <3> SUFFICES ASSUME Task = <<>> PROVE Task' = <<>>
      OBVIOUS
    <3>1. DOMAIN Task = {}
      OBVIOUS
    <3>2. Task' = [j \in DOMAIN Task |-> Task'[j]]
      BY DEF WorkerSelectTask, SetTaskState
    <3>3. Task \in Seq(TaskRow) /\ Task' \in Seq(TaskRow) /\ Len(Task') = 0
      BY <1>1, <3>1, SetTaskStateShape DEF WorkerSelectTask, TypeOK, TablesTypeOK
    <3> QED BY <3>3
  <2> QED BY <1>2, <2>1 DEF WorkersAsInserted, SettingUp
<1>7. TasksAsAssigned' /\ TaskIdsUnique'
  BY <1>1, <1>2 DEF TasksAsAssigned, TaskIdsUnique
<1>8. CapacityConservation'
  <2>1. ASSUME NEW v PROVE ActiveTasks(v)' = ActiveTasks(v)
    BY <1>1, <1>5 DEF ActiveTasks
  <2>2. \A i \in DOMAIN Worker : ActiveTasks(Worker[i].WorkerID)' = ActiveTasks(Worker[i].WorkerID)
    BY <1>2, <2>1
  <2> QED BY <1>2, <2>2 DEF CapacityConservation, TornDown
<1> QED BY <1>1, <1>4, <1>6, <1>7, <1>8

\* Whatever the workers come to hold: the invariants on it follow when only
\* tasks that were held, or have just become running, are held.
LEMMA HeldAfterPoll ==
  ASSUME SystemInv, NEW w \in Workers, NEW ids,
         WorkerSelectTask(PKeyOf(w), w, TopK, ids), UNCHANGED schedVars,
         \A v \in Workers : Held(v)' \subseteq Held(v) \cup (IF v = w THEN ids ELSE {})
  PROVE  FreshTasks' /\ HeldIsRunning'
<1> USE DEF SystemInv
<1>1. /\ DOMAIN Task' = DOMAIN Task /\ TaskIdsUnique
      /\ \A j \in DOMAIN Task :
           /\ Task'[j].TaskID = Task[j].TaskID
           /\ Task'[j].WorkerID = Task[j].WorkerID
           /\ Task'[j].State = Task[j].State \/ Task'[j].State = RUNNING
      /\ \A t \in ids : \E j \in DOMAIN Task :
           /\ Task[j].TaskID = t /\ Task[j].WorkerID = w
           /\ Task[j].State = PENDING /\ Task'[j].State = RUNNING
  BY PollTables
<1>2. UNCHANGED <<schedMain, taskindex, schedPc, schedTask>>
  BY DEF schedVars
<1>3. FreshTasks'
  BY <1>1, <1>2 DEF FreshTasks, Probing
<1>4. HeldIsRunning'
  <2> SUFFICES ASSUME NEW v \in Workers, NEW t \in Held(v)'
               PROVE  /\ t < taskindex
                      /\ \A j \in DOMAIN Task : Task[j].TaskID = t
                           => Task[j].WorkerID = v /\ Task'[j].State = RUNNING
                      /\ ~TornDown => \E j \in DOMAIN Task : Task[j].TaskID = t
    BY <1>1, <1>2 DEF HeldIsRunning, TornDown
  <2>1. CASE t \in Held(v)
    BY <1>1, <2>1 DEF HeldIsRunning
  <2>2. CASE t \in ids /\ v = w
    BY <1>1, <2>2 DEF TaskIdsUnique, TasksAsAssigned
  <2> QED BY <2>1, <2>2
<1> QED BY <1>3, <1>4

LEMMA PollStep ==
  ASSUME SystemInv, TypeOK', UNCHANGED schedVars, NEW w \in Workers, Poll(w)
  PROVE  SystemInv'
<1> USE DEF SystemInv
<1>1. PICK ids : /\ WorkerSelectTask(PKeyOf(w), w, TopK, ids)
                 /\ batch' = [batch EXCEPT ![w] = ids]
  BY DEF Poll
<1>2. UNCHANGED <<taskQueue_, execPc, execTask>> /\ batch \in [Workers -> SUBSET Nat]
  BY DEF Poll, TypeOK, WorkerTypeOK
<1>3. \A v \in Workers : /\ Queued(v)' = Queued(v) /\ Executing(v)' = Executing(v)
                         /\ batch'[v] = IF v = w THEN ids ELSE batch[v]
  BY <1>1, <1>2 DEF Queued, Executing
<1>4. \A v \in Workers : Held(v)' \subseteq Held(v) \cup (IF v = w THEN ids ELSE {})
  BY <1>3 DEF Held
<1>5. \A t \in ids : \A v \in Workers : t \notin Held(v)
  <2>1. \A t \in ids : \E j \in DOMAIN Task : Task[j].TaskID = t /\ Task[j].State = PENDING
    BY <1>1, PollTables
  <2> QED BY <2>1 DEF HeldIsRunning, PENDING, RUNNING
<1>6. NoTaskTwice'
  <2>1. \A v \in Workers : v # w => Held(v)' = Held(v)
    BY <1>3 DEF Held
  <2>2. \A u, v \in Workers : u # v => Held(u)' \cap Held(v)' = {}
    BY <1>4, <1>5, <2>1 DEF NoTaskTwice
  <2>3. \A v \in Workers : /\ batch'[v] \cap Queued(v)' = {}
                           /\ (batch'[v] \cup Queued(v)') \cap Executing(v)' = {}
    BY <1>3, <1>5 DEF NoTaskTwice, Held
  <2> QED BY <1>2, <2>2, <2>3 DEF NoTaskTwice
<1> QED BY <1>1, <1>4, <1>6, PollTables, HeldAfterPoll

LEMMA PollLostStep ==
  ASSUME SystemInv, TypeOK', UNCHANGED schedVars, NEW w \in Workers, NEW ids,
         WorkerSelectTask(PKeyOf(w), w, TopK, ids), QuietHands
  PROVE  SystemInv'
<1> USE DEF SystemInv
<1>1. \A v \in Workers : Held(v)' \subseteq Held(v) \cup (IF v = w THEN ids ELSE {})
  BY QuietHandsHeld
<1>2. NoTaskTwice'
  BY QuietHandsTwice
<1> QED BY <1>1, <1>2, PollTables, HeldAfterPoll

\* Steps inside the workers that leave the tables alone: the workers come to
\* hold nothing that they did not hold.
LEMMA HandsStep ==
  ASSUME SystemInv, TypeOK', UNCHANGED schedVars, UNCHANGED tables, NoTaskTwice',
         \A v \in Workers : Held(v)' \subseteq Held(v)
  PROVE  SystemInv'
<1> USE DEF SystemInv
<1>1. UNCHANGED <<Worker, Task, schedMain, inserted, taskindex, schedPc, schedTask>>
  BY DEF schedVars, tables
<1>2. WorkersAsInserted' /\ TasksAsAssigned' /\ TaskIdsUnique'
  BY <1>1 DEF WorkersAsInserted, SettingUp, TasksAsAssigned, TaskIdsUnique
<1>3. FreshTasks'
  BY <1>1 DEF FreshTasks, Probing
<1>4. HeldIsRunning'
  BY <1>1 DEF HeldIsRunning, TornDown
<1>5. CapacityConservation'
  BY <1>1 DEF CapacityConservation, ActiveTasks, TornDown
<1> QED BY <1>2, <1>3, <1>4, <1>5

\* NoTaskTwice of what one worker holds, and of what two workers hold.
TwiceAt(w) ==
  /\ batch[w] \cap Queued(w) = {}
  /\ (batch[w] \cup Queued(w)) \cap Executing(w) = {}
  /\ \A i, j \in DOMAIN taskQueue_[w] : taskQueue_[w][i] = taskQueue_[w][j] => i = j
  /\ \A d, e \in Executors :
       execPc[w][d] = "execute" /\ execPc[w][e] = "execute"
       /\ execTask[w][d] = execTask[w][e] => d = e

LEMMA TwiceStep ==
  ASSUME NoTaskTwice, NEW w \in Workers, TwiceAt(w)', Held(w)' \subseteq Held(w),
         \A v \in Workers \ {w} : /\ batch'[v] = batch[v]
                                  /\ taskQueue_'[v] = taskQueue_[v]
                                  /\ execPc'[v] = execPc[v]
                                  /\ execTask'[v] = execTask[v]
  PROVE  NoTaskTwice' /\ \A v \in Workers : Held(v)' \subseteq Held(v)
<1>1. ASSUME NEW v \in Workers, v # w
      PROVE  /\ Queued(v)' = Queued(v) /\ Executing(v)' = Executing(v) /\ Held(v)' = Held(v)
             /\ TwiceAt(v)'
  <2>1. /\ batch'[v] = batch[v] /\ taskQueue_'[v] = taskQueue_[v]
        /\ execPc'[v] = execPc[v] /\ execTask'[v] = execTask[v]
    BY <1>1
  <2>2. Queued(v)' = Queued(v) /\ Executing(v)' = Executing(v)
    BY <2>1 DEF Queued, Executing
  <2>3. TwiceAt(v)
    BY DEF NoTaskTwice, TwiceAt
  <2> QED BY <2>1, <2>2, <2>3 DEF Held, TwiceAt
<1>2. \A v \in Workers : Held(v)' \subseteq Held(v) /\ TwiceAt(v)'
  BY <1>1
<1>3. \A u, v \in Workers : u # v => Held(v) \cap Held(u) = {}
  BY DEF NoTaskTwice
<1>4. \A u \in Workers : \A v \in Workers \ {u} : Held(v)' \cap Held(u)' = {}
  <2> TAKE u \in Workers
  <2> TAKE v \in Workers \ {u}
  <2>1. Held(v) \cap Held(u) = {}
    BY <1>3
  <2>2. Held(v)' \subseteq Held(v) /\ Held(u)' \subseteq Held(u)
    BY <1>2
  <2> QED BY <2>1, <2>2
<1> QED BY <1>2, <1>4 DEF NoTaskTwice, TwiceAt

\* A fetched task goes from the batch into the queue.
LEMMA PushStep ==
  ASSUME SystemInv, TypeOK', UNCHANGED schedVars, NEW w \in Workers, Push(w)
  PROVE  SystemInv'
<1> USE DEF SystemInv
<1>1. PICK t \in batch[w] : /\ taskQueue_' = [taskQueue_ EXCEPT ![w] = Append(@, t)]
                            /\ batch' = [batch EXCEPT ![w] = @ \ {t}]
  BY DEF Push
<1>2. UNCHANGED <<tables, execPc, execTask>>
  BY DEF Push, tables
<1>3. /\ batch \in [Workers -> SUBSET Nat] /\ taskQueue_ \in [Workers -> Seq(Nat)]
  BY DEF TypeOK, WorkerTypeOK
<1> DEFINE q == taskQueue_[w]
<1>4. /\ q \in Seq(Nat) /\ t \in Nat /\ taskQueue_'[w] = Append(q, t)
      /\ batch'[w] = batch[w] \ {t}
  BY <1>1, <1>3
<1>5. /\ DOMAIN Append(q, t) = 1 .. Len(q) + 1 /\ DOMAIN q = 1 .. Len(q) /\ Len(q) \in Nat
      /\ \A i \in 1 .. Len(q) : Append(q, t)[i] = q[i]
      /\ Append(q, t)[Len(q) + 1] = t
  BY <1>4
<1>6. Queued(w)' = Queued(w) \cup {t}
  BY <1>4, <1>5, SMTT(40) DEF Queued
<1>7. Executing(w)' = Executing(w)
  BY <1>2 DEF Executing
<1>8. t \notin Queued(w)
  BY DEF NoTaskTwice
<1>9. \A i \in DOMAIN q : q[i] # t
  BY <1>8 DEF Queued
<1>10. TwiceAt(w)'
  <2>1. /\ batch'[w] \cap Queued(w)' = {}
        /\ (batch'[w] \cup Queued(w)') \cap Executing(w)' = {}
    BY <1>4, <1>6, <1>7 DEF NoTaskTwice
  <2>2. \A i, j \in DOMAIN q : q[i] = q[j] => i = j
    BY DEF NoTaskTwice
  <2>3. \A i, j \in DOMAIN Append(q, t) : Append(q, t)[i] = Append(q, t)[j] => i = j
    BY <1>5, <1>9, <2>2
  <2> QED BY <1>2, <1>4, <2>1, <2>3 DEF TwiceAt, NoTaskTwice
<1>11. Held(w)' \subseteq Held(w)
  BY <1>4, <1>6, <1>7 DEF Held
<1>12. \A v \in Workers \ {w} : batch'[v] = batch[v] /\ taskQueue_'[v] = taskQueue_[v]
  BY <1>1, <1>3
<1> QED BY <1>2, <1>10, <1>11, <1>12, TwiceStep, HandsStep

\* A queued task goes into the hands of an executor.
LEMMA TakeTaskStep ==
  ASSUME SystemInv, TypeOK', UNCHANGED schedVars, NEW w \in Workers, NEW e \in Executors,
         TakeTask(w, e)
  PROVE  SystemInv'
<1> USE DEF SystemInv
<1>1. /\ UNCHANGED <<tables, batch>> /\ taskQueue_[w] # <<>> /\ execPc[w][e] = "lock"
      /\ execTask' = [execTask EXCEPT ![w][e] = Head(taskQueue_[w])]
      /\ taskQueue_' = [taskQueue_ EXCEPT ![w] = Tail(@)]
      /\ execPc' = [execPc EXCEPT ![w][e] = "execute"]
  BY DEF TakeTask, tables
<1>2. /\ taskQueue_ \in [Workers -> Seq(Nat)]
      /\ execPc \in [Workers -> [Executors -> ExecPcs]]
      /\ execTask \in [Workers -> [Executors -> Nat]]
  BY DEF TypeOK, WorkerTypeOK
<1> DEFINE q == taskQueue_[w]
<1>3. q \in Seq(Nat) /\ q # <<>>
  BY <1>1, <1>2
<1>4. PICK h : h = Head(q)
  OBVIOUS
<1>5. /\ taskQueue_'[w] = Tail(q)
      /\ execPc'[w][e] = "execute" /\ execTask'[w][e] = h
      /\ \A d \in Executors \ {e} : execPc'[w][d] = execPc[w][d] /\ execTask'[w][d] = execTask[w][d]
  BY <1>1, <1>2, <1>4
<1>6. /\ DOMAIN q = 1 .. Len(q) /\ Len(q) \in Nat /\ Len(q) > 0 /\ h = q[1]
      /\ DOMAIN Tail(q) = 1 .. Len(q) - 1
      /\ \A i \in 1 .. Len(q) - 1 : Tail(q)[i] = q[i + 1]
  BY <1>3, <1>4
<1>7. \A i, j \in DOMAIN q : q[i] = q[j] => i = j
  BY DEF NoTaskTwice
<1>8. h \in Queued(w)
  BY <1>6 DEF Queued
<1>9. Queued(w)' \subseteq Queued(w) \ {h}
  <2>1. \A i \in 1 .. Len(q) - 1 : i + 1 \in DOMAIN q /\ q[i + 1] # h
    BY <1>6, <1>7
  <2> QED BY <1>5, <1>6, <2>1 DEF Queued
<1>10. Executing(w)' \subseteq Executing(w) \cup {h}
  BY <1>5 DEF Executing
<1>11. Held(w)' \subseteq Held(w)
  BY <1>1, <1>8, <1>9, <1>10 DEF Held
<1>12. TwiceAt(w)'
  <2>1. /\ batch[w] \cap Queued(w) = {} /\ (batch[w] \cup Queued(w)) \cap Executing(w) = {}
    BY DEF NoTaskTwice
  <2>2. /\ batch'[w] \cap Queued(w)' = {}
        /\ (batch'[w] \cup Queued(w)') \cap Executing(w)' = {}
    BY <1>1, <1>8, <1>9, <1>10, <2>1
  <2>3. \A i, j \in DOMAIN Tail(q) : Tail(q)[i] = Tail(q)[j] => i = j
    <3>1. TAKE i \in DOMAIN Tail(q), j \in DOMAIN Tail(q)
    <3>2. HAVE Tail(q)[i] = Tail(q)[j]
    <3>3. i \in Nat /\ j \in Nat /\ i + 1 \in DOMAIN q /\ j + 1 \in DOMAIN q
      BY <1>6
    <3>4. Tail(q)[i] = q[i + 1] /\ Tail(q)[j] = q[j + 1]
      BY <1>6
    <3>5. i + 1 = j + 1
      BY <1>7, <3>2, <3>3, <3>4
    <3> QED BY <3>3, <3>5
  <2>4. \A d \in Executors : execPc[w][d] = "execute" => execTask[w][d] # h
    BY <1>8, <2>1 DEF Executing
  <2>5. \A d, f \in Executors :
          execPc'[w][d] = "execute" /\ execPc'[w][f] = "execute"
          /\ execTask'[w][d] = execTask'[w][f] => d = f
    <3>1. \A d, f \in Executors :
            execPc[w][d] = "execute" /\ execPc[w][f] = "execute"
            /\ execTask[w][d] = execTask[w][f] => d = f
      BY DEF NoTaskTwice
    <3> QED BY <1>5, <2>4, <3>1
  <2> QED BY <1>5, <2>2, <2>3, <2>5 DEF TwiceAt
<1>13. \A v \in Workers \ {w} : /\ taskQueue_'[v] = taskQueue_[v] /\ execPc'[v] = execPc[v]
                                /\ execTask'[v] = execTask[v]
  BY <1>1, <1>2
<1> QED BY <1>1, <1>11, <1>12, <1>13, TwiceStep, HandsStep

\* An executor is done with its task, or dead: the worker no longer holds it.
LEMMA ReleaseHands ==
  ASSUME SystemInv, NEW w \in Workers, NEW e \in Executors, NEW pc, pc # "execute",
         execPc[w][e] = "execute", execPc' = [execPc EXCEPT ![w][e] = pc],
         UNCHANGED <<batch, taskQueue_, execTask>>
  PROVE  /\ NoTaskTwice'
         /\ \A v \in Workers : Held(v)' \subseteq Held(v) \ {execTask[w][e]}
<1> USE DEF SystemInv
<1>1. execPc \in [Workers -> [Executors -> ExecPcs]]
  BY DEF TypeOK, WorkerTypeOK
<1>2. PICK t : t = execTask[w][e]
  OBVIOUS
<1>3. \A d \in Executors : execPc'[w][d] = "execute" => d # e /\ execPc[w][d] = "execute"
  BY <1>1
<1>4. Queued(w)' = Queued(w)
  BY DEF Queued
<1>5. \A d \in Executors : execPc'[w][d] = "execute" => execTask[w][d] # t
  BY <1>2, <1>3 DEF NoTaskTwice
<1>6. Executing(w)' \subseteq Executing(w) \ {t}
  BY <1>3, <1>5 DEF Executing
<1>7. t \in Executing(w)
  BY <1>2 DEF Executing
<1>8. Held(w)' \subseteq Held(w) \ {t}
  <2>1. (batch[w] \cup Queued(w)) \cap Executing(w) = {}
    BY DEF NoTaskTwice
  <2> QED BY <1>4, <1>6, <1>7, <2>1 DEF Held
<1>9. TwiceAt(w)'
  <2>1. /\ batch'[w] \cap Queued(w)' = {}
        /\ (batch'[w] \cup Queued(w)') \cap Executing(w)' = {}
    BY <1>4, <1>6 DEF NoTaskTwice
  <2> QED BY <1>3, <2>1 DEF TwiceAt, NoTaskTwice
<1>10. \A v \in Workers \ {w} : execPc'[v] = execPc[v]
  BY <1>1
<1>11. NoTaskTwice' /\ \A v \in Workers : Held(v)' \subseteq Held(v)
  BY <1>8, <1>9, <1>10, TwiceStep
<1>12. \A v \in Workers : Held(v)' \subseteq Held(v) \ {t}
  <2> TAKE v \in Workers
  <2>1. CASE v = w
    BY <1>8, <2>1
  <2>2. CASE v # w
    <3>1. t \in Held(w) /\ Held(v) \cap Held(w) = {}
      BY <1>7, <2>2 DEF Held, NoTaskTwice
    <3> QED BY <1>11, <3>1
  <2> QED BY <2>1, <2>2
<1> QED BY <1>2, <1>11, <1>12

\* The task is reported complete: a running task turns into one unit of
\* capacity of its worker.
LEMMA UpdateStep ==
  ASSUME SystemInv, TypeOK', UNCHANGED schedVars, NEW w \in Workers, NEW t,
         t \in Held(w), WorkerUpdateTask(PKeyOf(w), w, t, COMPLETE), NoTaskTwice',
         \A v \in Workers : Held(v)' \subseteq Held(v) \ {t}
  PROVE  SystemInv'
<1> USE DEF SystemInv
<1>1. UNCHANGED <<schedMain, inserted, taskindex, schedPc, schedTask>> /\ TablesTypeOK
  BY DEF schedVars, TypeOK
<1>2. /\ Task' \in Seq(TaskRow) /\ DOMAIN Task' = DOMAIN Task /\ Len(Task') = Len(Task)
      /\ \A j \in DOMAIN Task :
           /\ Task'[j].TaskID = Task[j].TaskID
           /\ Task'[j].WorkerID = Task[j].WorkerID
           /\ Task'[j].PKey = Task[j].PKey
           /\ Task'[j].State =
                IF Task[j].PKey = PKeyOf(w) /\ Task[j].TaskID \in {t} /\ Task[j].WorkerID = w
                THEN COMPLETE ELSE Task[j].State
  BY <1>1, SetTaskStateShape DEF WorkerUpdateTask
<1>3. /\ Len(Worker') = Len(Worker) /\ DOMAIN Worker' = DOMAIN Worker
      /\ \A i \in DOMAIN Worker :
           /\ Worker'[i].WorkerID = Worker[i].WorkerID
           /\ Worker'[i].PKey = Worker[i].PKey
           /\ Worker'[i].Capacity =
                IF Worker[i].PKey = PKeyOf(w) /\ Worker[i].WorkerID = w
                THEN Worker[i].Capacity + 1 ELSE Worker[i].Capacity
  BY <1>1, UpdateShape
<1>4. WorkersAsInserted'
  <2>1. Task = <<>> => Task' = <<>>
    BY <1>1, <1>2 DEF TablesTypeOK
  <2>2. SettingUp' <=> SettingUp
    BY <1>1 DEF SettingUp
  <2> QED BY <1>1, <1>3, <2>1, <2>2 DEF WorkersAsInserted
<1>5. TasksAsAssigned' /\ TaskIdsUnique'
  BY <1>1, <1>2 DEF TasksAsAssigned, TaskIdsUnique
<1>6. FreshTasks'
  BY <1>1, <1>2 DEF FreshTasks, Probing
<1>7. HeldIsRunning'
  <2> SUFFICES ASSUME NEW v \in Workers, NEW u \in Held(v)'
               PROVE  /\ u < taskindex
                      /\ \A j \in DOMAIN Task : Task[j].TaskID = u
                           => Task[j].WorkerID = v /\ Task'[j].State = RUNNING
                      /\ ~TornDown => \E j \in DOMAIN Task : Task[j].TaskID = u
    BY <1>1, <1>2 DEF HeldIsRunning, TornDown
  <2>1. u \in Held(v) /\ u # t
    OBVIOUS
  <2> QED BY <1>2, <2>1 DEF HeldIsRunning
<1>8. CapacityConservation'
  <2>1. ASSUME ~TornDown, NEW k \in DOMAIN Worker, NEW u, u = Worker[k].WorkerID
        PROVE  Worker'[k].Capacity + Cardinality(ActiveTasks(u)') = WorkerCapacity
    <3>1. PICK n \in DOMAIN Task : Task[n].TaskID = t
      BY <2>1 DEF HeldIsRunning
    <3>2. Task[n].WorkerID = w /\ Task[n].State = RUNNING /\ Task[n].PKey = PKeyOf(w)
      BY <3>1 DEF HeldIsRunning, TasksAsAssigned
    <3>3. \A j \in DOMAIN Task : Task'[j].State = IF j = n THEN COMPLETE ELSE Task[j].State
      BY <1>2, <3>1, <3>2 DEF TaskIdsUnique
    <3>4. Worker[k].Capacity + Cardinality(ActiveTasks(u)) = WorkerCapacity
      BY <2>1 DEF CapacityConservation
    <3>5. Worker[k].Capacity \in Int /\ Worker[k].PKey = PKeyOf(u)
      <4>1. Worker[k] \in WorkerRow
        BY <1>1 DEF TablesTypeOK
      <4> QED BY <2>1, <4>1 DEF WorkerRow, WorkersAsInserted
    <3>6. IsFiniteSet(ActiveTasks(u)) /\ Cardinality(ActiveTasks(u)) \in Nat
      BY <1>1, ActiveFinite
    <3>7. CASE u = w
      <4>1. Worker'[k].Capacity = Worker[k].Capacity + 1
        BY <1>3, <2>1, <3>5, <3>7
      <4>2. ActiveTasks(u)' = ActiveTasks(u) \ {n} /\ n \in ActiveTasks(u)
        BY <1>2, <3>2, <3>3, <3>7 DEF ActiveTasks, PENDING, RUNNING, COMPLETE
      <4>3. Cardinality(ActiveTasks(u)') = Cardinality(ActiveTasks(u)) - 1
        BY <3>6, <4>2, FS_RemoveElement, ZenonT(60)
      <4> QED BY <3>4, <3>5, <3>6, <4>1, <4>3
    <3>8. CASE u # w
      <4>1. Worker'[k].Capacity = Worker[k].Capacity
        BY <1>3, <2>1, <3>8
      <4>2. ActiveTasks(u)' = ActiveTasks(u)
        BY <1>2, <3>2, <3>3, <3>8 DEF ActiveTasks
      <4> QED BY <3>4, <4>1, <4>2
    <3> QED BY <3>7, <3>8
  <2>2. ~TornDown => \A k \in DOMAIN Worker' :
          Worker'[k].Capacity + Cardinality(ActiveTasks(Worker[k].WorkerID)') = WorkerCapacity
    BY <1>3, <2>1
  <2> QED BY <1>1, <1>3, <2>2 DEF CapacityConservation, TornDown
<1> QED BY <1>4, <1>5, <1>6, <1>7, <1>8

LEMMA DispatchStep ==
  ASSUME SystemInv, TypeOK', UNCHANGED schedVars, NEW w \in Workers, Dispatch(w)
  PROVE  SystemInv'
<1>0. QuietHands /\ UNCHANGED tables => SystemInv'
  BY QuietStep DEF schedVars, Probing
<1>1. CASE Poll(w)
  BY <1>1, PollStep
<1>2. CASE PollFails(w)
  <2>1. QuietHands
    BY <1>2 DEF PollFails, QuietHands
  <2> QED BY <1>0, <1>2, <2>1, PollLostStep DEF PollFails
<1>3. CASE Push(w)
  BY <1>3, PushStep
<1>4. CASE NotifyOne(w)
  <2>1. execPc \in [Workers -> [Executors -> ExecPcs]]
    BY DEF SystemInv, TypeOK, WorkerTypeOK
  <2>2. QuietHands
    BY <1>4, <2>1 DEF NotifyOne, QuietHands
  <2> QED BY <1>0, <1>4, <2>2 DEF NotifyOne
<1>5. CASE DispatchLoopTest(w)
  BY <1>0, <1>5 DEF DispatchLoopTest, QuietHands
<1>6. CASE LatePoll(w)
  <2>1. QuietHands
    BY <1>6 DEF LatePoll, QuietHands
  <2> QED BY <1>6, <2>1, PollLostStep DEF LatePoll
<1> QED BY <1>1, <1>2, <1>3, <1>4, <1>5, <1>6 DEF Dispatch

LEMMA ExecuteStep ==
  ASSUME SystemInv, TypeOK', UNCHANGED schedVars, NEW w \in Workers, NEW e \in Executors,
         Execute(w, e)
  PROVE  SystemInv'
<1>0. QuietHands /\ UNCHANGED tables => SystemInv'
  BY QuietStep DEF schedVars, Probing
<1>1. execPc \in [Workers -> [Executors -> ExecPcs]]
  BY DEF SystemInv, TypeOK, WorkerTypeOK
<1>2. CASE FindNoWork(w, e) \/ FallAsleep(w, e) \/ WakeSpuriously(w, e) \/ ExecutorReturns(w, e)
  <2>1. QuietHands /\ UNCHANGED tables
    BY <1>1, <1>2 DEF FindNoWork, FallAsleep, WakeSpuriously, ExecutorReturns, QuietHands
  <2> QED BY <1>0, <2>1
<1>3. CASE TakeTask(w, e)
  BY <1>3, TakeTaskStep
<1>4. ASSUME NEW pc, pc # "execute", execPc[w][e] = "execute",
             execPc' = [execPc EXCEPT ![w][e] = pc],
             UNCHANGED <<batch, taskQueue_, execTask>>,
             WorkerUpdateTask(PKeyOf(w), w, execTask[w][e], COMPLETE) \/ UNCHANGED tables
      PROVE  SystemInv'
  <2>1. PICK t : t = execTask[w][e]
    OBVIOUS
  <2>2. NoTaskTwice' /\ \A v \in Workers : Held(v)' \subseteq Held(v) \ {t}
    BY <1>4, <2>1, ReleaseHands
  <2>3. t \in Held(w)
    BY <1>4, <2>1 DEF Held, Executing
  <2>4. CASE WorkerUpdateTask(PKeyOf(w), w, t, COMPLETE)
    BY <2>2, <2>3, <2>4, UpdateStep
  <2>5. CASE UNCHANGED tables
    BY <2>2, <2>5, HandsStep
  <2> QED BY <1>4, <2>1, <2>4, <2>5
<1>5. CASE Complete(w, e)
  BY <1>4, <1>5 DEF Complete
<1>6. CASE CompleteFails(w, e)
  BY <1>4, <1>6 DEF CompleteFails
<1>7. CASE LateComplete(w, e)
  BY <1>4, <1>7 DEF LateComplete
<1> QED BY <1>2, <1>3, <1>5, <1>6, <1>7 DEF Execute

LEMMA EndServingStep ==
  ASSUME SystemInv, TypeOK', UNCHANGED schedVars, NEW w \in Workers, EndServing(w)
  PROVE  SystemInv'
<1>1. execPc \in [Workers -> [Executors -> ExecPcs]]
  BY DEF SystemInv, TypeOK, WorkerTypeOK
<1>2. CASE NotifyAll(w)
  <2>1. QuietHands /\ UNCHANGED tables
    BY <1>1, <1>2 DEF NotifyAll, QuietHands
  <2> QED BY <2>1, QuietStep DEF schedVars, Probing
<1>3. CASE ~NotifyAll(w)
  <2>1. QuietHands /\ UNCHANGED tables
    BY <1>3 DEF EndServing, BeginEndServing, JoinDispatcher, QueueDrained, StopExecutors,
                JoinExecutors, QuietHands
  <2> QED BY <2>1, QuietStep DEF schedVars, Probing
<1> QED BY <1>2, <1>3
-----------------------------------------------------------------------------
(* Safety.                                                                 *)

LEMMA InitInv == Init => SystemInv
<1> SUFFICES ASSUME Init PROVE SystemInv
  OBVIOUS
<1> USE DEF Init, TablesInit, SchedInit, WorkerInit
<1>1. TypeOK
  BY InitType
<1>2. Task = <<>> /\ Worker = <<>> /\ DOMAIN <<>> = {} /\ Len(<<>>) = 0
  OBVIOUS
<1>3. \A w \in Workers : /\ batch[w] = {} /\ taskQueue_[w] = <<>> /\ Queued(w) = {}
                         /\ Executing(w) = {} /\ Held(w) = {}
  BY <1>2 DEF Queued, Executing, Held
<1>4. \A s \in Schedulers : ~Probing(s)
  BY DEF Probing, ProcessStart
<1>5. WorkersAsInserted
  BY <1>2, TablesAssumption DEF WorkersAsInserted, ProcessStart
<1>6. NoTaskTwice
  BY <1>2, <1>3 DEF NoTaskTwice
<1> QED
  BY <1>1, <1>2, <1>3, <1>4, <1>5, <1>6
  DEF SystemInv, TasksAsAssigned, TaskIdsUnique, FreshTasks, HeldIsRunning, CapacityConservation

LEMMA NextInv ==
  ASSUME MaxRuns = 1
  PROVE  SystemInv /\ [Next]_vars => SystemInv'
<1> SUFFICES ASSUME SystemInv, [Next]_vars PROVE SystemInv'
  OBVIOUS
<1>0. TypeOK'
  BY NextType DEF SystemInv
<1>1. CASE SchedNext /\ UNCHANGED workerVars
  BY <1>0, <1>1, MainStep, ThreadStep DEF SchedNext
<1>2. CASE WorkerNext /\ UNCHANGED schedVars
  BY <1>0, <1>2, DispatchStep, ExecuteStep, EndServingStep DEF WorkerNext
<1>3. CASE UNCHANGED vars
  <2>1. QuietHands
    BY <1>3, WorkerVarsQuiet DEF vars
  <2> QED BY <1>0, <1>3, <2>1, QuietStep DEF vars, schedVars, Probing
<1> QED BY <1>1, <1>2, <1>3 DEF Next, Over

\* For a scheduler program that is started once, SystemInv is an invariant of
\* the deployed system, whatever answers get lost and whichever process dies.
THEOREM SystemInvariant ==
  ASSUME MaxRuns = 1
  PROVE  Spec => []SystemInv
BY InitInv, NextInv, PTL DEF Spec

\* So the capacity taken by probes and given back by completions always adds up.
THEOREM CapacityIsConserved ==
  ASSUME MaxRuns = 1
  PROVE  Spec => []CapacityConservation
<1>1. SystemInv => CapacityConservation
  BY DEF SystemInv
<1> QED BY <1>1, SystemInvariant, PTL

\* And no task is ever in two places of the worker program.
THEOREM TasksAreExecutedOnce ==
  ASSUME MaxRuns = 1
  PROVE  Spec => []NoTaskTwice
<1>1. SystemInv => NoTaskTwice
  BY DEF SystemInv
<1> QED BY <1>1, SystemInvariant, PTL
-----------------------------------------------------------------------------
(* Giving up.                                                              *)

LEMMA ProbeAsked ==
  ASSUME SchedTypeOK, ActivePartitions <= 2, RoundAsksAll, NEW s \in Schedulers,
         schedPc[s] = "probe"
  PROVE  LET p == Advance(probe[s]) IN
         /\ p.asked \subseteq 0 .. ActivePartitions - 1
         /\ IF probe[s].count < ActivePartitions
            THEN 0 .. ActivePartitions - 1 \subseteq p.asked \cup {p.pkey}
            ELSE p.asked = 0 .. ActivePartitions - 1
<1>1. probe[s] \in Probes
  BY DEF SchedTypeOK
<1>2. PICK a, k, c : a = probe[s].asked /\ k = probe[s].pkey /\ c = probe[s].count
  OBVIOUS
<1>3. k \in 0 .. ActivePartitions - 1 /\ c \in Nat
  BY <1>1, <1>2 DEF Probes
<1>4. a \subseteq 0 .. ActivePartitions - 1
      /\ (c = 1 \/ 0 .. ActivePartitions - 1 \subseteq a \cup {k})
  BY <1>2 DEF RoundAsksAll
<1>5. /\ Advance(probe[s]).asked = (IF c = 1 THEN {} ELSE a) \cup {k}
      /\ Advance(probe[s]).pkey = NextPKey(k, c)
  BY <1>2 DEF Advance
<1>6. ActivePartitions = 1 \/ ActivePartitions = 2
  BY ActivePartitionsPositive
<1>7. a \cup {k} \subseteq 0 .. ActivePartitions - 1
  BY <1>3, <1>4
<1>8. CASE ActivePartitions = 1
  <2>1. 0 .. ActivePartitions - 1 = {0} /\ k = 0
    BY <1>3, <1>8
  <2> QED BY <1>2, <1>5, <1>7, <2>1
<1>9. CASE ActivePartitions = 2
  <2>1. 0 .. ActivePartitions - 1 = {0, 1} /\ k \in {0, 1}
    BY <1>3, <1>9
  <2>2. CASE c = 1
    <3>1. NextPKey(k, c) = 1 - k
      BY <1>9, <2>1, <2>2 DEF NextPKey
    <3>2. {0, 1} \subseteq {k, 1 - k}
      BY <2>1
    <3> QED BY <1>2, <1>5, <1>7, <1>9, <2>1, <2>2, <3>1, <3>2
  <2>3. CASE c # 1
    BY <1>2, <1>4, <1>5, <1>7, <2>3
  <2> QED BY <2>2, <2>3
<1> QED BY <1>6, <1>8, <1>9

LEMMA RoundStep ==
  ASSUME TypeOK, TypeOK', ActivePartitions <= 2, RoundAsksAll, [Next]_vars
  PROVE  RoundAsksAll'
<1>0. SchedTypeOK /\ SchedTypeOK'
  BY DEF TypeOK
<1>1. CASE /\ probe' = probe
           /\ \A r \in Schedulers : schedPc'[r] \in {"probe", "roundOver", "gaveUp"}
                                     => schedPc'[r] = schedPc[r]
  BY <1>1 DEF RoundAsksAll
<1>2. CASE SchedNext
  <2>1. CASE Main
    <3>1. CASE StartAgain
      <4>1. \A r \in Schedulers : probe'[r] = NoProbe /\ schedPc'[r] = "notStarted"
        BY <3>1 DEF StartAgain, ProcessStart
      <4> QED BY <4>1 DEF RoundAsksAll, NoProbe
    <3>2. CASE ~StartAgain
      <4>1. /\ probe' = probe
            /\ schedPc' = schedPc \/ schedPc' = [r \in Schedulers |-> "turn"]
        BY <2>1, <3>2 DEF Main, TruncateWorkers, TruncateTasks, SetupInsert, SetupFails,
                         StartThreads, FinishRun, JoinThreads, threadVars
      <4> QED BY <1>1, <4>1
    <3> QED BY <3>1, <3>2
  <2>2. ASSUME NEW s \in Schedulers, Thread(s) PROVE RoundAsksAll'
    <3>1. probe \in [Schedulers -> Probes] /\ schedPc \in [Schedulers -> SchedPcs]
      BY <1>0 DEF SchedTypeOK
    <3>2. CASE NotItsTurn(s) \/ ClaimEntry(s) \/ ArrayFull(s) \/ ProbeHit(s) \/ AssertFails(s)
               \/ ProbeFails(s) \/ LoopTest(s) \/ LateCommit(s)
      <4>1. probe' = probe /\ \E place \in {"loopTest", "schedule", "dead", "finished", "turn"} :
                                schedPc' = [schedPc EXCEPT ![s] = place]
        BY <3>2 DEF NotItsTurn, ClaimEntry, ArrayFull, ProbeHit, AssertFails, ProbeFails,
                    LoopTest, LateCommit
      <4> QED BY <1>1, <3>1, <4>1
    <3>3. ASSUME \A r \in Schedulers \ {s} : probe'[r] = probe[r] /\ schedPc'[r] = schedPc[r],
                 probe'[s].asked \subseteq 0 .. ActivePartitions - 1,
                 schedPc'[s] = "probe" => \/ probe'[s].count = 1
                   \/ 0 .. ActivePartitions - 1 \subseteq probe'[s].asked \cup {probe'[s].pkey},
                 schedPc'[s] \in {"roundOver", "gaveUp"}
                   => probe'[s].asked = 0 .. ActivePartitions - 1
          PROVE  RoundAsksAll'
      BY <3>3 DEF RoundAsksAll
    <3>4. CASE Schedule(s)
      <4>1. PICK k : /\ probe' = [probe EXCEPT ![s] = [NoProbe EXCEPT !.pkey = k]]
                     /\ schedPc' = [schedPc EXCEPT ![s] = "probe"]
        BY <3>4 DEF Schedule
      <4>2. probe'[s] = [NoProbe EXCEPT !.pkey = k]
        BY <3>1, <4>1
      <4>3. probe'[s].count = 1 /\ probe'[s].asked = {}
        BY <4>2 DEF NoProbe
      <4> QED BY <3>1, <3>3, <4>1, <4>3
    <3>5. CASE ProbeMiss(s)
      <4>1. /\ schedPc[s] = "probe" /\ probe'[s] = Advance(probe[s])
            /\ schedPc'[s] = IF probe[s].count < ActivePartitions THEN "probe" ELSE "roundOver"
            /\ \A r \in Schedulers \ {s} : probe'[r] = probe[r] /\ schedPc'[r] = schedPc[r]
        BY <3>1, <3>5 DEF ProbeMiss
      <4> QED BY <1>0, <3>3, <4>1, ProbeAsked
    <3>6. CASE NextRound(s)
      <4>1. /\ schedPc[s] = "roundOver" /\ schedPc'[s] \in {"probe", "gaveUp"}
            /\ probe' = [probe EXCEPT ![s].count = 1, ![s].try = @ + 1]
            /\ \A r \in Schedulers \ {s} : schedPc'[r] = schedPc[r]
        BY <3>1, <3>6 DEF NextRound
      <4>2. probe'[s] = [probe[s] EXCEPT !.count = 1, !.try = @ + 1]
            /\ \A r \in Schedulers \ {s} : probe'[r] = probe[r]
        BY <3>1, <4>1
      <4>3. probe'[s].count = 1 /\ probe'[s].asked = probe[s].asked
        BY <3>1, <4>2 DEF Probes
      <4> QED BY <3>3, <4>1, <4>2, <4>3 DEF RoundAsksAll
    <3> QED BY <2>2, <3>2, <3>4, <3>5, <3>6 DEF Thread
  <2> QED BY <1>2, <2>1, <2>2 DEF SchedNext
<1>3. CASE UNCHANGED schedVars
  BY <1>1, <1>3 DEF schedVars
<1> QED BY <1>2, <1>3 DEF Next, Over, vars

\* With at most two active partitions, selectTaskWorker gives up, and aborts the
\* program, only when it has asked all of them in its last round, wherever that
\* began and whatever the other threads did.  (With three it may leave one out.)
THEOREM GivingUpAsksAll ==
  ASSUME ActivePartitions <= 2
  PROVE  Spec => []GiveUpAskedAll
<1>1. Init => TypeOK /\ RoundAsksAll
  <2> SUFFICES ASSUME Init PROVE RoundAsksAll
    BY InitType
  <2>1. \A r \in Schedulers : probe[r] = NoProbe /\ schedPc[r] = "notStarted"
    BY DEF Init, SchedInit, ProcessStart
  <2> QED BY <2>1 DEF RoundAsksAll, NoProbe
<1>2. TypeOK /\ RoundAsksAll /\ [Next]_vars => (TypeOK /\ RoundAsksAll)'
  BY NextType, RoundStep
<1>3. RoundAsksAll => GiveUpAskedAll
  BY DEF RoundAsksAll, GiveUpAskedAll
<1> QED BY <1>1, <1>2, <1>3, PTL DEF Spec
-----------------------------------------------------------------------------
(* Proofs about the worker program of SchedulerWorkerSystem: endServing    *)
(* drains, and no task gets lost inside a worker.  They hold however often *)
(* the scheduler program is started.                                       *)

(* The order of the shutdown.                                              *)

ShutdownAt(w) ==
  /\ dispatchPc[w] \in {"poll", "returned"} => batch[w] = {}
  /\ endPc[w] \notin {"serving", "joinDispatch"} => dispatchPc[w] = "returned"
  /\ endPc[w] \in {"stop", "notifyAll", "joinExecutors", "ended"} => taskQueue_[w] = <<>>
  /\ endPc[w] = "ended" => \A e \in Executors : execPc[w][e] = "returned"

\* Worker w moves, and the variables of the others stay as they are.
LEMMA OneWorkerMoves ==
  ASSUME ShutdownInOrder, NEW w \in Workers, ShutdownAt(w)',
         \A v \in Workers \ {w} : /\ dispatchPc'[v] = dispatchPc[v] /\ batch'[v] = batch[v]
                                  /\ endPc'[v] = endPc[v] /\ taskQueue_'[v] = taskQueue_[v]
                                  /\ execPc'[v] = execPc[v]
  PROVE  ShutdownInOrder'
<1> SUFFICES ASSUME NEW v \in Workers PROVE ShutdownAt(v)'
  BY DEF ShutdownInOrder, ShutdownAt
<1>1. CASE v = w
  BY <1>1
<1>2. CASE v # w
  BY <1>2 DEF ShutdownInOrder, ShutdownAt
<1> QED BY <1>1, <1>2

LEMMA OrderStep ==
  ASSUME TypeOK, TypeOK', ShutdownInOrder, [Next]_vars
  PROVE  ShutdownInOrder'
<1> USE DEF TypeOK, WorkerTypeOK
<1>1. CASE UNCHANGED workerVars
  BY <1>1 DEF workerVars, ShutdownInOrder
<1>2. ASSUME NEW w \in Workers, Dispatch(w) PROVE ShutdownInOrder'
  <2>1. \A v \in Workers \ {w} :
          /\ dispatchPc'[v] = dispatchPc[v] /\ batch'[v] = batch[v] /\ endPc'[v] = endPc[v]
          /\ taskQueue_'[v] = taskQueue_[v] /\ execPc'[v] = execPc[v]
    BY <1>2, ZenonT(60) DEF Dispatch, Poll, PollFails, Push, NotifyOne, DispatchLoopTest, LatePoll
  <2>2. ShutdownAt(w)
    BY DEF ShutdownInOrder, ShutdownAt
  <2>3. CASE Poll(w) \/ PollFails(w) \/ LatePoll(w)
    <3>1. endPc'[w] \in {"serving", "joinDispatch"} /\ dispatchPc'[w] \in {"push", "dead"}
      BY <2>2, <2>3 DEF ShutdownAt, Poll, PollFails, LatePoll
    <3> QED BY <2>1, <3>1, OneWorkerMoves DEF ShutdownAt
  <2>4. CASE Push(w)
    <3>1. endPc'[w] \in {"serving", "joinDispatch"} /\ dispatchPc'[w] = "notify"
      BY <2>2, <2>4 DEF ShutdownAt, Push
    <3> QED BY <2>1, <3>1, OneWorkerMoves DEF ShutdownAt
  <2>5. CASE NotifyOne(w)
    <3>1. endPc'[w] \in {"serving", "joinDispatch"} /\ dispatchPc'[w] = "push"
      BY <2>2, <2>5 DEF ShutdownAt, NotifyOne
    <3> QED BY <2>1, <3>1, OneWorkerMoves DEF ShutdownAt
  <2>6. CASE DispatchLoopTest(w)
    <3>1. /\ endPc'[w] \in {"serving", "joinDispatch"} /\ batch'[w] = {}
          /\ dispatchPc'[w] \in {"poll", "returned"}
      BY <2>2, <2>6 DEF ShutdownAt, DispatchLoopTest
    <3> QED BY <2>1, <3>1, OneWorkerMoves DEF ShutdownAt
  <2> QED BY <1>2, <2>3, <2>4, <2>5, <2>6 DEF Dispatch
<1>3. ASSUME NEW w \in Workers, NEW e \in Executors, Execute(w, e) PROVE ShutdownInOrder'
  <2>1. \A v \in Workers \ {w} :
          /\ dispatchPc'[v] = dispatchPc[v] /\ batch'[v] = batch[v] /\ endPc'[v] = endPc[v]
          /\ taskQueue_'[v] = taskQueue_[v] /\ execPc'[v] = execPc[v]
    BY <1>3 DEF Execute, FindNoWork, FallAsleep, WakeSpuriously, TakeTask, Complete,
                CompleteFails, ExecutorReturns, LateComplete
  <2>2. ShutdownAt(w)
    BY DEF ShutdownInOrder, ShutdownAt
  <2>3. /\ UNCHANGED <<dispatchPc, batch, endPc>> /\ execPc[w][e] # "returned"
        /\ taskQueue_'[w] = taskQueue_[w] \/ taskQueue_[w] # <<>>
    BY <1>3 DEF Execute, FindNoWork, FallAsleep, WakeSpuriously, TakeTask, Complete,
                CompleteFails, ExecutorReturns, LateComplete
  <2>4. endPc[w] # "ended"
    BY <2>2, <2>3 DEF ShutdownAt
  <2>5. ShutdownAt(w)'
    BY <2>2, <2>3, <2>4 DEF ShutdownAt
  <2> QED BY <2>1, <2>5, OneWorkerMoves
<1>4. ASSUME NEW w \in Workers, EndServing(w) PROVE ShutdownInOrder'
  <2>1. \A v \in Workers \ {w} :
          /\ dispatchPc'[v] = dispatchPc[v] /\ batch'[v] = batch[v] /\ endPc'[v] = endPc[v]
          /\ taskQueue_'[v] = taskQueue_[v] /\ execPc'[v] = execPc[v]
    BY <1>4 DEF EndServing, BeginEndServing, JoinDispatcher, QueueDrained, StopExecutors,
                NotifyAll, JoinExecutors, Proceed
  <2>2. ShutdownAt(w)
    BY DEF ShutdownInOrder, ShutdownAt
  <2>3. /\ UNCHANGED <<dispatchPc, batch, taskQueue_>>
        /\ endPc'[w] = "drain" => dispatchPc[w] = "returned"
        /\ endPc'[w] = "stop" => endPc[w] = "drain" /\ taskQueue_[w] = <<>>
        /\ endPc'[w] = "notifyAll" => endPc[w] = "stop"
        /\ endPc'[w] = "joinExecutors" => endPc[w] = "notifyAll"
        /\ endPc'[w] = "ended" => /\ endPc[w] = "joinExecutors" /\ execPc' = execPc
                                  /\ \A e \in Executors : execPc[w][e] = "returned"
    BY <1>4 DEF EndServing, BeginEndServing, JoinDispatcher, QueueDrained, StopExecutors,
                NotifyAll, JoinExecutors, Proceed
  <2>4. endPc'[w] \in {"joinDispatch", "drain", "stop", "notifyAll", "joinExecutors", "ended"}
    BY <1>4 DEF EndServing, BeginEndServing, JoinDispatcher, QueueDrained, StopExecutors,
                NotifyAll, JoinExecutors, Proceed
  <2>5. ShutdownAt(w)'
    BY <2>2, <2>3, <2>4 DEF ShutdownAt
  <2> QED BY <2>1, <2>5, OneWorkerMoves
<1> QED BY <1>1, <1>2, <1>3, <1>4 DEF Next, WorkerNext, Over, vars
-----------------------------------------------------------------------------
(* The counters.                                                           *)

LEMMA NotifyingFinite == IsFiniteSet(Notifying) /\ Cardinality(Notifying) \in Nat
<1>1. IsFiniteSet(Workers)
  BY TablesAssumption, FS_Interval DEF Workers
<1>2. Notifying \in SUBSET Workers
  BY DEF Notifying
<1>3. IsFiniteSet(Notifying)
  BY <1>1, <1>2, FS_Subset
<1> QED BY <1>3, FS_CardinalityType

\* A step that neither moves a dispatched task nor counts one.
LEMMA QuietCount ==
  ASSUME TasksCounted, workerUp, UNCHANGED <<workerUp, taskQueue_, totalTasks_, totalFinishedTasks_>>,
         \A w \in Workers : dispatchPc'[w] = "notify" <=> dispatchPc[w] = "notify",
         \A w \in Workers, e \in Executors :
           execPc'[w][e] = "execute" <=> execPc[w][e] = "execute"
  PROVE  TasksCounted'
<1>1. Notifying' = Notifying
  BY DEF Notifying
<1>2. InHands' = InHands
  BY DEF InHands
<1>3. InQueues' = InQueues
  BY DEF InQueues
<1> QED BY <1>1, <1>2, <1>3 DEF TasksCounted

LEMMA PushCount ==
  ASSUME TypeOK, TypeOK', TasksCounted, NEW w \in Workers, Push(w)
  PROVE  TasksCounted'
<1> USE DEF TypeOK, WorkerTypeOK
<1>1. PICK t \in batch[w] : taskQueue_' = [taskQueue_ EXCEPT ![w] = Append(@, t)]
  BY DEF Push
<1>2. /\ workerUp /\ UNCHANGED <<workerUp, execPc, totalTasks_, totalFinishedTasks_>>
      /\ dispatchPc[w] = "push" /\ dispatchPc' = [dispatchPc EXCEPT ![w] = "notify"]
  BY DEF Push
<1> DEFINE q == taskQueue_[w]
           n == Len(q) + 1
<1>3. q \in Seq(Nat) /\ t \in Nat /\ n \in Nat
  OBVIOUS
<1>4. DOMAIN Append(q, t) = DOMAIN q \cup {n} /\ n \notin DOMAIN q
  BY <1>3
<1>5. taskQueue_'[w] = Append(q, t) /\ \A v \in Workers \ {w} : taskQueue_'[v] = taskQueue_[v]
  BY <1>1
<1>6. InQueues' = InQueues \cup {<<w, n>>} /\ <<w, n>> \notin InQueues
  BY <1>4, <1>5, SMTT(40) DEF InQueues
<1>7. Notifying' = Notifying \cup {w} /\ w \notin Notifying
  BY <1>2 DEF Notifying
<1>8. InHands' = InHands
  BY <1>2 DEF InHands
<1>9. IsFiniteSet(InQueues) /\ IsFiniteSet(InHands)
  BY <1>2 DEF TasksCounted
<1>10. IsFiniteSet(InQueues') /\ Cardinality(InQueues') = Cardinality(InQueues) + 1
  BY <1>6, <1>9, FS_AddElement
<1>11. Cardinality(Notifying') = Cardinality(Notifying) + 1
  BY <1>7, NotifyingFinite, FS_AddElement
<1>12. /\ Cardinality(InQueues) \in Nat /\ Cardinality(InHands) \in Nat
       /\ Cardinality(Notifying) \in Nat
  BY <1>9, FS_CardinalityType, NotifyingFinite
<1>13. totalTasks_ + Cardinality(Notifying)
         = totalFinishedTasks_ + Cardinality(InQueues) + Cardinality(InHands)
  BY <1>2 DEF TasksCounted
<1>14. totalTasks_ \in Nat /\ totalFinishedTasks_ \in Nat
  OBVIOUS
<1>15. totalTasks_' = totalTasks_ /\ totalFinishedTasks_' = totalFinishedTasks_
  BY <1>2
<1> HIDE DEF TypeOK, WorkerTypeOK
<1>16. totalTasks_' + Cardinality(Notifying')
         = totalFinishedTasks_' + Cardinality(InQueues') + Cardinality(InHands')
  <2>1. PICK a \in Nat, b \in Nat, c \in Nat : a = Cardinality(Notifying)
          /\ b = Cardinality(InQueues) /\ c = Cardinality(InHands)
    BY <1>12
  <2>2. Cardinality(Notifying') = a + 1 /\ Cardinality(InQueues') = b + 1
        /\ Cardinality(InHands') = c
    BY <1>8, <1>10, <1>11, <2>1
  <2>3. totalTasks_ + a = totalFinishedTasks_ + b + c
    BY <1>13, <2>1
  <2>4. totalTasks_ + (a + 1) = totalFinishedTasks_ + (b + 1) + c
    BY <1>14, <2>3
  <2> QED BY <1>15, <2>2, <2>4
<1> QED BY <1>2, <1>8, <1>9, <1>10, <1>16 DEF TasksCounted

LEMMA NotifyCount ==
  ASSUME TypeOK, TypeOK', TasksCounted, NEW w \in Workers, NotifyOne(w)
  PROVE  TasksCounted'
<1> USE DEF TypeOK, WorkerTypeOK
<1>1. /\ workerUp /\ UNCHANGED <<workerUp, taskQueue_, totalFinishedTasks_>>
      /\ totalTasks_' = totalTasks_ + 1
      /\ dispatchPc[w] = "notify" /\ dispatchPc' = [dispatchPc EXCEPT ![w] = "push"]
      /\ \/ execPc' = execPc
         \/ \E e \in Executors : execPc[w][e] = "asleep" /\ execPc' = [execPc EXCEPT ![w][e] = "lock"]
  BY DEF NotifyOne
<1>2. Notifying' = Notifying \ {w} /\ w \in Notifying
  BY <1>1 DEF Notifying
<1>3. \A v \in Workers, e \in Executors : execPc'[v][e] = "execute" <=> execPc[v][e] = "execute"
  BY <1>1
<1>4. InHands' = InHands
  BY <1>3 DEF InHands
<1>5. InQueues' = InQueues
  BY <1>1 DEF InQueues
<1>6. Cardinality(Notifying') = Cardinality(Notifying) - 1
  BY <1>2, NotifyingFinite, FS_RemoveElement
<1>7. /\ Cardinality(InQueues) \in Nat /\ Cardinality(InHands) \in Nat
      /\ Cardinality(Notifying) \in Nat
  BY <1>1, FS_CardinalityType, NotifyingFinite DEF TasksCounted
<1> QED BY <1>1, <1>4, <1>5, <1>6, <1>7 DEF TasksCounted

LEMMA TakeCount ==
  ASSUME TypeOK, TypeOK', TasksCounted, NEW w \in Workers, NEW e \in Executors, TakeTask(w, e)
  PROVE  TasksCounted'
<1> USE DEF TypeOK, WorkerTypeOK
<1>1. /\ workerUp /\ UNCHANGED <<workerUp, dispatchPc, totalTasks_, totalFinishedTasks_>>
      /\ taskQueue_[w] # <<>> /\ taskQueue_' = [taskQueue_ EXCEPT ![w] = Tail(@)]
      /\ execPc[w][e] = "lock" /\ execPc' = [execPc EXCEPT ![w][e] = "execute"]
  BY DEF TakeTask
<1> DEFINE q == taskQueue_[w]
           n == Len(q)
<1>2. q \in Seq(Nat) /\ q # <<>>
  BY <1>1
<1>3. DOMAIN Tail(q) = DOMAIN q \ {n} /\ n \in DOMAIN q
  BY <1>2
<1>4. taskQueue_'[w] = Tail(q) /\ \A v \in Workers \ {w} : taskQueue_'[v] = taskQueue_[v]
  BY <1>1
<1>5. PICK c : InQueues' = InQueues \ {c} /\ c \in InQueues
  <2>1. InQueues' = InQueues \ {<<w, n>>} /\ <<w, n>> \in InQueues
    BY <1>3, <1>4, SMTT(40) DEF InQueues
  <2> QED BY <2>1
<1>6. InHands' = InHands \cup {<<w, e>>} /\ <<w, e>> \notin InHands
  BY <1>1 DEF InHands
<1>7. Notifying' = Notifying
  BY <1>1 DEF Notifying
<1>8. IsFiniteSet(InQueues) /\ IsFiniteSet(InHands)
  BY <1>1 DEF TasksCounted
<1>9. IsFiniteSet(InQueues') /\ Cardinality(InQueues') = Cardinality(InQueues) - 1
  BY <1>5, <1>8, FS_RemoveElement
<1>10. IsFiniteSet(InHands') /\ Cardinality(InHands') = Cardinality(InHands) + 1
  BY <1>6, <1>8, FS_AddElement
<1>11. /\ Cardinality(InQueues) \in Nat /\ Cardinality(InHands) \in Nat
       /\ Cardinality(Notifying) \in Nat
  BY <1>8, FS_CardinalityType, NotifyingFinite
<1> QED BY <1>1, <1>7, <1>9, <1>10, <1>11 DEF TasksCounted

LEMMA CompleteCount ==
  ASSUME TypeOK, TypeOK', TasksCounted, NEW w \in Workers, NEW e \in Executors, Complete(w, e)
  PROVE  TasksCounted'
<1> USE DEF TypeOK, WorkerTypeOK
<1>1. /\ workerUp /\ UNCHANGED <<workerUp, taskQueue_, dispatchPc, totalTasks_>>
      /\ totalFinishedTasks_' = totalFinishedTasks_ + 1
      /\ execPc[w][e] = "execute" /\ execPc' = [execPc EXCEPT ![w][e] = "lock"]
  BY DEF Complete
<1>2. PICK c : InHands' = InHands \ {c} /\ c \in InHands
  <2>1. InHands' = InHands \ {<<w, e>>} /\ <<w, e>> \in InHands
    BY <1>1 DEF InHands
  <2> QED BY <2>1
<1>3. Notifying' = Notifying
  BY <1>1 DEF Notifying
<1>4. InQueues' = InQueues
  BY <1>1 DEF InQueues
<1>5. IsFiniteSet(InQueues) /\ IsFiniteSet(InHands)
  BY <1>1 DEF TasksCounted
<1>6. IsFiniteSet(InHands') /\ Cardinality(InHands') = Cardinality(InHands) - 1
  BY <1>2, <1>5, FS_RemoveElement
<1>7. /\ Cardinality(InQueues) \in Nat /\ Cardinality(InHands) \in Nat
      /\ Cardinality(Notifying) \in Nat
  BY <1>5, FS_CardinalityType, NotifyingFinite
<1> QED BY <1>1, <1>3, <1>4, <1>5, <1>6, <1>7 DEF TasksCounted

LEMMA CountStep ==
  ASSUME TypeOK, TypeOK', TasksCounted, [Next]_vars
  PROVE  TasksCounted'
<1> USE DEF TypeOK, WorkerTypeOK
<1>1. CASE UNCHANGED workerVars
  <2>1. InHands' = InHands /\ InQueues' = InQueues /\ Notifying' = Notifying
    BY <1>1 DEF workerVars, InHands, InQueues, Notifying
  <2> QED BY <1>1, <2>1 DEF workerVars, TasksCounted
<1>2. ASSUME NEW w \in Workers, Dispatch(w) PROVE TasksCounted'
  <2>1. CASE Poll(w) \/ PollFails(w) \/ DispatchLoopTest(w)
    <3>1. /\ workerUp /\ UNCHANGED <<workerUp, taskQueue_, execPc, totalTasks_, totalFinishedTasks_>>
          /\ \A v \in Workers : dispatchPc'[v] = "notify" <=> dispatchPc[v] = "notify"
      BY <2>1 DEF Poll, PollFails, DispatchLoopTest
    <3> QED BY <3>1, QuietCount
  <2>2. CASE LatePoll(w)
    BY <2>2 DEF LatePoll, TasksCounted
  <2> QED BY <1>2, <2>1, <2>2, PushCount, NotifyCount DEF Dispatch
<1>3. ASSUME NEW w \in Workers, NEW e \in Executors, Execute(w, e) PROVE TasksCounted'
  <2>1. CASE FindNoWork(w, e) \/ FallAsleep(w, e) \/ WakeSpuriously(w, e) \/ ExecutorReturns(w, e)
    <3>1. /\ workerUp /\ UNCHANGED <<workerUp, taskQueue_, dispatchPc, totalTasks_, totalFinishedTasks_>>
          /\ execPc[w][e] # "execute"
          /\ \E place \in {"goingToSleep", "asleep", "lock", "returned"} :
               execPc' = [execPc EXCEPT ![w][e] = place]
      BY <2>1 DEF FindNoWork, FallAsleep, WakeSpuriously, ExecutorReturns
    <3>2. execPc \in [Workers -> [Executors -> ExecPcs]]
      OBVIOUS
    <3>3. \A v \in Workers, d \in Executors : execPc'[v][d] = "execute" <=> execPc[v][d] = "execute"
      BY <3>1, <3>2
    <3> QED BY <3>1, <3>3, QuietCount
  <2>2. CASE CompleteFails(w, e) \/ LateComplete(w, e)
    <3>1. ~workerUp' /\ execPc'[w][e] = "dead"
      BY <2>2 DEF CompleteFails, LateComplete
    <3>2. AllowFailures
      BY <2>2 DEF CompleteFails, LateComplete, TasksCounted
    <3> QED BY <3>1, <3>2 DEF TasksCounted
  <2> QED BY <1>3, <2>1, <2>2, TakeCount, CompleteCount DEF Execute
<1>4. ASSUME NEW w \in Workers, EndServing(w) PROVE TasksCounted'
  <2>1. /\ workerUp /\ UNCHANGED <<workerUp, taskQueue_, dispatchPc, totalTasks_, totalFinishedTasks_>>
        /\ execPc' = execPc \/ NotifyAll(w)
    BY <1>4 DEF EndServing, BeginEndServing, JoinDispatcher, QueueDrained, StopExecutors,
                NotifyAll, JoinExecutors, Proceed
  <2>2. \A v \in Workers, d \in Executors : execPc'[v][d] = "execute" <=> execPc[v][d] = "execute"
    <3>1. CASE NotifyAll(w)
      BY <3>1 DEF NotifyAll
    <3> QED BY <2>1, <3>1
  <2> QED BY <2>1, <2>2, QuietCount
<1> QED BY <1>1, <1>2, <1>3, <1>4 DEF Next, WorkerNext, Over, vars
-----------------------------------------------------------------------------
(* Rows lie in their worker's partition, whoever writes them.              *)

\* Rows keep their ids and partitions when only capacities or states change.
LEMMA SameRows ==
  ASSUME RowsInPartition, DOMAIN Worker' = DOMAIN Worker, DOMAIN Task' = DOMAIN Task,
         \A i \in DOMAIN Worker : /\ Worker'[i].WorkerID = Worker[i].WorkerID
                                  /\ Worker'[i].PKey = Worker[i].PKey,
         \A j \in DOMAIN Task : /\ Task'[j].WorkerID = Task[j].WorkerID
                                /\ Task'[j].PKey = Task[j].PKey
  PROVE  RowsInPartition'
BY DEF RowsInPartition

LEMMA SelectRows ==
  ASSUME TablesTypeOK, RowsInPartition, NEW p \in Nat, NEW t \in Nat, NEW st,
         SelectSinglePartitionedTaskWorker(p, t, st)
  PROVE  RowsInPartition'
<1>1. CASE UNCHANGED tables
  BY <1>1 DEF RowsInPartition, tables
<1>2. ASSUME NEW i \in DOMAIN Worker, Worker[i].PKey = p, Worker[i] \in WorkerRow,
             NewTask(t, Worker[i].WorkerID, PENDING, p),
             SetCapacity(p, Worker[i].WorkerID, Worker[i].Capacity - 1)
      PROVE  RowsInPartition'
  <2>1. Worker[i].WorkerID \in Nat /\ Worker[i].Capacity - 1 \in Int
    BY <1>2 DEF WorkerRow
  <2>2. /\ DOMAIN Worker' = DOMAIN Worker
        /\ \A k \in DOMAIN Worker : /\ Worker'[k].WorkerID = Worker[k].WorkerID
                                     /\ Worker'[k].PKey = Worker[k].PKey
    BY <1>2, <2>1, SetCapacityShape
  <2>3. /\ DOMAIN Task' = DOMAIN Task \cup {Len(Task) + 1}
        /\ \A j \in DOMAIN Task : Task'[j] = Task[j]
        /\ Task'[Len(Task) + 1].WorkerID = Worker[i].WorkerID
        /\ Task'[Len(Task) + 1].PKey = p
    BY <1>2, <2>1, NewTaskShape
  <2> QED BY <1>2, <2>2, <2>3 DEF RowsInPartition
<1> QED BY <1>1, <1>2, SelectCases

LEMMA RowsStep ==
  ASSUME TypeOK, TypeOK', RowsInPartition, [Next]_vars
  PROVE  RowsInPartition'
<1>0. TablesTypeOK
  BY DEF TypeOK
<1>1. CASE UNCHANGED tables
  BY <1>1 DEF tables, RowsInPartition
<1>2. CASE Main
  <2>1. ASSUME NEW from, NEW to, TruncateWorkers(from, to) PROVE RowsInPartition'
    <3>1. (Worker' = <<>> /\ Task' = Task) \/ UNCHANGED tables
      BY <2>1 DEF TruncateWorkers, TruncateWorkerTable
    <3> QED BY <1>1, <3>1 DEF RowsInPartition
  <2>2. ASSUME NEW from, NEW to, TruncateTasks(from, to) PROVE RowsInPartition'
    <3>1. (Task' = <<>> /\ Worker' = Worker) \/ UNCHANGED tables
      BY <2>2 DEF TruncateTasks, TruncateTaskTable
    <3> QED BY <1>1, <3>1 DEF RowsInPartition
  <2>3. ASSUME inserted < NumWorkers,
               InsertWorker(inserted, WorkerCapacity, PKeyOf(inserted))
        PROVE  RowsInPartition'
    <3>1. inserted \in Workers
      BY <2>3, TablesAssumption DEF TypeOK, SchedTypeOK, Workers
    <3>2. PICK row : /\ row = [WorkerID |-> inserted, Capacity |-> WorkerCapacity,
                               PKey |-> PKeyOf(inserted)]
                     /\ Worker' = Append(Worker, row) /\ Task' = Task
      BY <2>3 DEF InsertWorker
    <3>3. Worker \in Seq(WorkerRow)
      BY <1>0 DEF TablesTypeOK
    <3>4. /\ DOMAIN Worker' = DOMAIN Worker \cup {Len(Worker) + 1}
          /\ \A i \in DOMAIN Worker : Worker'[i] = Worker[i]
          /\ Worker'[Len(Worker) + 1] = row
      BY <3>2, <3>3
    <3>5. row.WorkerID = inserted /\ row.PKey = PKeyOf(inserted)
      BY <3>2
    <3> QED BY <3>1, <3>2, <3>4, <3>5 DEF RowsInPartition
  <2> QED BY <1>1, <1>2, <2>1, <2>2, <2>3 DEF Main, SetupInsert, SetupFails, StartThreads,
             FinishRun, JoinThreads, StartAgain, tables
<1>3. ASSUME NEW s \in Schedulers, Thread(s) PROVE RowsInPartition'
  <2>1. probe[s].pkey \in Nat /\ schedTask[s] \in Nat
    BY ActivePartitionsPositive DEF TypeOK, SchedTypeOK, Probes
  <2>2. \/ UNCHANGED tables
        \/ \E st \in {SUCCESS, NOWORKER} :
             SelectSinglePartitionedTaskWorker(probe[s].pkey, schedTask[s], st)
    BY <1>3 DEF Thread, NotItsTurn, ClaimEntry, ArrayFull, Schedule, ProbeHit, ProbeMiss,
                NextRound, AssertFails, ProbeFails, LoopTest, LateCommit, tables
  <2> QED BY <1>0, <1>1, <2>1, <2>2, SelectRows
<1>4. ASSUME NEW w, NEW ids, WorkerSelectTask(PKeyOf(w), w, TopK, ids) PROVE RowsInPartition'
  <2>1. SetTaskState(PKeyOf(w), w, ids, RUNNING) /\ Worker' = Worker
    BY <1>4 DEF WorkerSelectTask
  <2>2. /\ DOMAIN Task' = DOMAIN Task
        /\ \A j \in DOMAIN Task : /\ Task'[j].WorkerID = Task[j].WorkerID
                                   /\ Task'[j].PKey = Task[j].PKey
    BY <1>0, <2>1, SetTaskStateShape
  <2> QED BY <2>1, <2>2, SameRows
<1>5. ASSUME NEW w, NEW t, WorkerUpdateTask(PKeyOf(w), w, t, COMPLETE) PROVE RowsInPartition'
  <2>1. SetTaskState(PKeyOf(w), w, {t}, COMPLETE)
    BY <1>5 DEF WorkerUpdateTask
  <2>2. /\ DOMAIN Task' = DOMAIN Task
        /\ \A j \in DOMAIN Task : /\ Task'[j].WorkerID = Task[j].WorkerID
                                   /\ Task'[j].PKey = Task[j].PKey
    BY <1>0, <2>1, SetTaskStateShape
  <2>3. /\ DOMAIN Worker' = DOMAIN Worker
        /\ \A i \in DOMAIN Worker : /\ Worker'[i].WorkerID = Worker[i].WorkerID
                                     /\ Worker'[i].PKey = Worker[i].PKey
    BY <1>0, <1>5, UpdateShape
  <2> QED BY <2>2, <2>3, SameRows
<1>6. ASSUME NEW w \in Workers, Dispatch(w) PROVE RowsInPartition'
  <2>1. \/ UNCHANGED tables
        \/ \E ids : WorkerSelectTask(PKeyOf(w), w, TopK, ids)
    BY <1>6 DEF Dispatch, Poll, PollFails, Push, NotifyOne, DispatchLoopTest, LatePoll, tables
  <2> QED BY <1>1, <1>4, <2>1
<1>7. ASSUME NEW w \in Workers, NEW e \in Executors, Execute(w, e) PROVE RowsInPartition'
  <2>1. \/ UNCHANGED tables
        \/ WorkerUpdateTask(PKeyOf(w), w, execTask[w][e], COMPLETE)
    BY <1>7 DEF Execute, FindNoWork, FallAsleep, WakeSpuriously, TakeTask, Complete,
                CompleteFails, ExecutorReturns, LateComplete, tables
  <2> QED BY <1>1, <1>5, <2>1
<1>8. ASSUME NEW w \in Workers, EndServing(w) PROVE RowsInPartition'
  BY <1>1, <1>8 DEF EndServing, BeginEndServing, JoinDispatcher, QueueDrained, StopExecutors,
                    NotifyAll, JoinExecutors, tables
<1> QED BY <1>1, <1>2, <1>3, <1>6, <1>7, <1>8 DEF Next, SchedNext, WorkerNext, Over, vars
-----------------------------------------------------------------------------
(* No task gets lost.  A step may add rows that are not RUNNING, and must  *)
(* leave every task in its worker unless it completes the task.            *)

LEMMA LostNowhere ==
  ASSUME ASSUME ~AllowFailures, NEW j \in DOMAIN Task', Task'[j].State = RUNNING
         PROVE  \E v \in Workers : v = Task'[j].WorkerID /\ Task'[j].TaskID \in Held(v)'
  PROVE  NoTaskLost'
BY DEF NoTaskLost, Held, Queued, Executing

\* The tables stay, or lose rows, or get PENDING ones; the workers hold on.
LEMMA NothingRunsAnew ==
  ASSUME NoTaskLost, \A v \in Workers : Held(v) \subseteq Held(v)', RowsInPartition,
         \A j \in DOMAIN Task' : Task'[j].State = RUNNING =>
            j \in DOMAIN Task /\ /\ Task'[j].TaskID = Task[j].TaskID
                                 /\ Task'[j].WorkerID = Task[j].WorkerID
                                 /\ Task[j].State = RUNNING
  PROVE  NoTaskLost'
<1> SUFFICES ASSUME ~AllowFailures, NEW j \in DOMAIN Task', Task'[j].State = RUNNING
             PROVE  \E v \in Workers : v = Task'[j].WorkerID /\ Task'[j].TaskID \in Held(v)'
  BY LostNowhere
<1>1. /\ j \in DOMAIN Task /\ Task'[j].TaskID = Task[j].TaskID
      /\ Task'[j].WorkerID = Task[j].WorkerID /\ Task[j].State = RUNNING
  OBVIOUS
<1>2. PICK v \in Workers : v = Task[j].WorkerID
  BY <1>1 DEF RowsInPartition
<1>3. Task[j].TaskID \in Held(v)
  BY <1>1, <1>2 DEF NoTaskLost
<1>4. Task[j].TaskID \in Held(v)'
  BY <1>3
<1> QED BY <1>1, <1>2, <1>4

LEMMA SchedLost ==
  ASSUME TypeOK, RowsInPartition, NoTaskLost, SchedNext, UNCHANGED workerVars
  PROVE  NoTaskLost'
<1>0. TablesTypeOK /\ Task \in Seq(TaskRow)
  BY DEF TypeOK, TablesTypeOK
<1>1. \A v \in Workers : Held(v) \subseteq Held(v)'
  BY QuietHandsHeld, WorkerVarsQuiet
<1>2. CASE Task' = Task \/ Task' = <<>>
  BY <1>1, <1>2, NothingRunsAnew
<1>3. CASE Main
  BY <1>2, <1>3 DEF Main, TruncateWorkers, TruncateTasks, SetupInsert, SetupFails, StartThreads,
                    FinishRun, JoinThreads, StartAgain, TruncateWorkerTable, TruncateTaskTable,
                    InsertWorker, tables
<1>4. ASSUME NEW s \in Schedulers, Thread(s) PROVE NoTaskLost'
  <2>1. probe[s].pkey \in Nat /\ schedTask[s] \in Nat
    BY ActivePartitionsPositive DEF TypeOK, SchedTypeOK, Probes
  <2>2. \/ UNCHANGED tables
        \/ \E st \in {SUCCESS, NOWORKER} :
             SelectSinglePartitionedTaskWorker(probe[s].pkey, schedTask[s], st)
    BY <1>4 DEF Thread, NotItsTurn, ClaimEntry, ArrayFull, Schedule, ProbeHit, ProbeMiss,
                NextRound, AssertFails, ProbeFails, LoopTest, LateCommit, tables
  <2>3. \/ UNCHANGED tables
        \/ \E i \in DOMAIN Worker : Worker[i] \in WorkerRow
              /\ NewTask(schedTask[s], Worker[i].WorkerID, PENDING, probe[s].pkey)
    BY <1>0, <2>1, <2>2, SelectCases
  <2>4. ASSUME NEW w \in Nat, NewTask(schedTask[s], w, PENDING, probe[s].pkey)
        PROVE  NoTaskLost'
    <3>1. /\ DOMAIN Task' = DOMAIN Task \cup {Len(Task) + 1}
          /\ \A j \in DOMAIN Task : Task'[j] = Task[j]
          /\ Task'[Len(Task) + 1].State = PENDING
      BY <1>0, <2>1, <2>4, NewTaskShape
    <3>2. PENDING # RUNNING
      BY DEF PENDING, RUNNING
    <3> QED BY <1>1, <3>1, <3>2, NothingRunsAnew
  <2> QED BY <1>2, <2>3, <2>4 DEF WorkerRow, tables
<1> QED BY <1>3, <1>4 DEF SchedNext

LEMMA PollLost ==
  ASSUME TypeOK, TypeOK', ShutdownInOrder, RowsInPartition, NoTaskLost,
         NEW w \in Workers, Poll(w)
  PROVE  NoTaskLost'
<1>0. TablesTypeOK /\ batch \in [Workers -> SUBSET Nat] /\ batch[w] = {}
  BY DEF TypeOK, WorkerTypeOK, ShutdownInOrder, Poll
<1>1. PICK ids : WorkerSelectTask(PKeyOf(w), w, TopK, ids) /\ batch' = [batch EXCEPT ![w] = ids]
  BY DEF Poll
<1>2. SetTaskState(PKeyOf(w), w, ids, RUNNING)
  BY <1>1 DEF WorkerSelectTask
<1>3. /\ DOMAIN Task' = DOMAIN Task
      /\ \A j \in DOMAIN Task :
           /\ Task'[j].TaskID = Task[j].TaskID /\ Task'[j].WorkerID = Task[j].WorkerID
           /\ Task'[j].State = IF Task[j].PKey = PKeyOf(w) /\ Task[j].TaskID \in ids
                                  /\ Task[j].WorkerID = w
                               THEN RUNNING ELSE Task[j].State
  BY <1>0, <1>2, SetTaskStateShape
<1>4. \A v \in Workers : Queued(v)' = Queued(v) /\ Executing(v)' = Executing(v)
  BY DEF Poll, Queued, Executing
<1>5. batch'[w] = ids /\ \A v \in Workers \ {w} : batch'[v] = batch[v]
  BY <1>0, <1>1
<1>6. \A v \in Workers : Held(v) \subseteq Held(v)'
  BY <1>0, <1>4, <1>5 DEF Held
<1>7. ids \subseteq Held(w)'
  BY <1>5 DEF Held
<1> SUFFICES ASSUME ~AllowFailures, NEW j \in DOMAIN Task', Task'[j].State = RUNNING
             PROVE  \E v \in Workers : v = Task'[j].WorkerID /\ Task'[j].TaskID \in Held(v)'
  BY LostNowhere
<1>8. PICK v \in Workers : v = Task[j].WorkerID
  BY <1>3 DEF RowsInPartition
<1>9. Task[j].TaskID \in Held(v)'
  <2>1. CASE Task[j].State = RUNNING
    BY <1>3, <1>6, <1>8, <2>1 DEF NoTaskLost
  <2>2. CASE Task[j].TaskID \in ids /\ Task[j].WorkerID = w
    BY <1>7, <1>8, <2>2
  <2> QED BY <1>3, <2>1, <2>2
<1> QED BY <1>3, <1>8, <1>9

LEMMA CompleteLost ==
  ASSUME TypeOK, RowsInPartition, NoTaskLost, NEW w \in Workers, NEW e \in Executors,
         Complete(w, e)
  PROVE  NoTaskLost'
<1>0. TablesTypeOK /\ execPc \in [Workers -> [Executors -> ExecPcs]]
  BY DEF TypeOK, WorkerTypeOK
<1>1. PICK t : t = execTask[w][e]
  OBVIOUS
<1>2. SetTaskState(PKeyOf(w), w, {t}, COMPLETE)
  BY <1>1 DEF Complete, WorkerUpdateTask
<1>3. /\ DOMAIN Task' = DOMAIN Task
      /\ \A j \in DOMAIN Task :
           /\ Task'[j].TaskID = Task[j].TaskID /\ Task'[j].WorkerID = Task[j].WorkerID
           /\ Task'[j].State = IF Task[j].PKey = PKeyOf(w) /\ Task[j].TaskID \in {t}
                                  /\ Task[j].WorkerID = w
                               THEN COMPLETE ELSE Task[j].State
  BY <1>0, <1>2, SetTaskStateShape
<1>4. /\ UNCHANGED <<batch, taskQueue_, execTask>>
      /\ execPc' = [execPc EXCEPT ![w][e] = "lock"]
  BY DEF Complete
<1>5. /\ \A d \in Executors \ {e} : execPc'[w][d] = execPc[w][d]
      /\ \A v \in Workers \ {w} : execPc'[v] = execPc[v]
  BY <1>0, <1>4
<1>6. \A v \in Workers : Queued(v)' = Queued(v) /\ batch'[v] = batch[v]
  BY <1>4 DEF Queued
<1>7. Executing(w) \subseteq Executing(w)' \cup {t}
  BY <1>1, <1>4, <1>5 DEF Executing
<1>8. \A v \in Workers \ {w} : Executing(v) = Executing(v)'
  BY <1>4, <1>5 DEF Executing
<1>9. /\ Held(w) \subseteq Held(w)' \cup {t}
      /\ \A v \in Workers \ {w} : Held(v) = Held(v)'
  BY <1>6, <1>7, <1>8 DEF Held
<1> SUFFICES ASSUME ~AllowFailures, NEW j \in DOMAIN Task', Task'[j].State = RUNNING
             PROVE  \E v \in Workers : v = Task'[j].WorkerID /\ Task'[j].TaskID \in Held(v)'
  BY LostNowhere
<1>10. PICK v \in Workers : v = Task[j].WorkerID /\ Task[j].PKey = PKeyOf(v)
  BY <1>3 DEF RowsInPartition
<1>11. COMPLETE # RUNNING
  BY DEF COMPLETE, RUNNING
<1>12. Task[j].State = RUNNING /\ (v = w => Task[j].TaskID # t)
  BY <1>3, <1>10, <1>11
<1>13. Task[j].TaskID \in Held(v)
  BY <1>3, <1>10, <1>12 DEF NoTaskLost
<1>14. Task[j].TaskID \in Held(v)'
  BY <1>9, <1>12, <1>13
<1> QED BY <1>3, <1>10, <1>14

\* A task that moves inside the worker stays inside.
LEMMA PushLost ==
  ASSUME TypeOK, RowsInPartition, NoTaskLost, NEW w \in Workers, Push(w)
  PROVE  NoTaskLost'
<1>1. PICK t \in batch[w] : /\ taskQueue_' = [taskQueue_ EXCEPT ![w] = Append(@, t)]
                            /\ batch' = [batch EXCEPT ![w] = @ \ {t}]
  BY DEF Push
<1>2. UNCHANGED <<Task, execPc, execTask>>
  BY DEF Push, tables
<1>3. /\ batch \in [Workers -> SUBSET Nat] /\ taskQueue_ \in [Workers -> Seq(Nat)]
  BY DEF TypeOK, WorkerTypeOK
<1> DEFINE q == taskQueue_[w]
<1>4. /\ q \in Seq(Nat) /\ t \in Nat /\ taskQueue_'[w] = Append(q, t)
      /\ batch'[w] = batch[w] \ {t}
      /\ \A v \in Workers \ {w} : taskQueue_'[v] = taskQueue_[v] /\ batch'[v] = batch[v]
  BY <1>1, <1>3
<1>5. /\ DOMAIN q \subseteq DOMAIN Append(q, t) /\ Len(q) + 1 \in DOMAIN Append(q, t)
      /\ \A i \in DOMAIN q : Append(q, t)[i] = q[i]
      /\ Append(q, t)[Len(q) + 1] = t
  BY <1>4
<1>6. Queued(w) \subseteq Queued(w)' /\ t \in Queued(w)'
  BY <1>4, <1>5 DEF Queued
<1>7. \A v \in Workers : Executing(v)' = Executing(v)
  BY <1>2 DEF Executing
<1>8. \A v \in Workers \ {w} : Queued(v)' = Queued(v)
  BY <1>4 DEF Queued
<1>9. \A v \in Workers : Held(v) \subseteq Held(v)'
  BY <1>4, <1>6, <1>7, <1>8 DEF Held
<1> QED BY <1>2, <1>9, NothingRunsAnew

LEMMA TakeLost ==
  ASSUME TypeOK, RowsInPartition, NoTaskLost, NEW w \in Workers, NEW e \in Executors,
         TakeTask(w, e)
  PROVE  NoTaskLost'
<1>1. /\ UNCHANGED <<Task, batch>> /\ taskQueue_[w] # <<>> /\ execPc[w][e] = "lock"
      /\ execTask' = [execTask EXCEPT ![w][e] = Head(taskQueue_[w])]
      /\ taskQueue_' = [taskQueue_ EXCEPT ![w] = Tail(@)]
      /\ execPc' = [execPc EXCEPT ![w][e] = "execute"]
  BY DEF TakeTask, tables
<1>2. /\ taskQueue_ \in [Workers -> Seq(Nat)]
      /\ execPc \in [Workers -> [Executors -> ExecPcs]]
      /\ execTask \in [Workers -> [Executors -> Nat]]
  BY DEF TypeOK, WorkerTypeOK
<1> DEFINE q == taskQueue_[w]
<1>3. q \in Seq(Nat) /\ q # <<>>
  BY <1>1, <1>2
<1>4. PICK h : h = Head(q)
  OBVIOUS
<1>5. /\ taskQueue_'[w] = Tail(q)
      /\ execPc'[w][e] = "execute" /\ execTask'[w][e] = h
      /\ \A d \in Executors \ {e} : execPc'[w][d] = execPc[w][d] /\ execTask'[w][d] = execTask[w][d]
      /\ \A v \in Workers \ {w} : /\ taskQueue_'[v] = taskQueue_[v] /\ execPc'[v] = execPc[v]
                                   /\ execTask'[v] = execTask[v]
  BY <1>1, <1>2, <1>4
<1>6. /\ DOMAIN q = 1 .. Len(q) /\ Len(q) \in Nat /\ h = q[1]
      /\ DOMAIN Tail(q) = 1 .. Len(q) - 1
      /\ \A i \in 1 .. Len(q) - 1 : Tail(q)[i] = q[i + 1]
  BY <1>3, <1>4
<1>7. \A i \in DOMAIN q : q[i] = h \/ \E k \in DOMAIN Tail(q) : Tail(q)[k] = q[i]
  <2>1. TAKE i \in DOMAIN q
  <2>2. CASE i = 1
    BY <1>6, <2>2
  <2>3. CASE i # 1
    <3>1. PICK k \in 1 .. Len(q) - 1 : k + 1 = i
      <4>1. i - 1 \in 1 .. Len(q) - 1 /\ (i - 1) + 1 = i
        BY <1>6, <2>3
      <4> QED BY <4>1
    <3>2. k \in DOMAIN Tail(q) /\ Tail(q)[k] = q[i]
      BY <1>6, <3>1
    <3> QED BY <3>2
  <2> QED BY <2>2, <2>3
<1>8. Queued(w) \subseteq Queued(w)' \cup {h}
  BY <1>5, <1>7 DEF Queued
<1>9. Executing(w) \subseteq Executing(w)' /\ h \in Executing(w)'
  BY <1>1, <1>5 DEF Executing
<1>10. \A v \in Workers \ {w} : Queued(v)' = Queued(v) /\ Executing(v)' = Executing(v)
  BY <1>5 DEF Queued, Executing
<1>11. \A v \in Workers : Held(v) \subseteq Held(v)'
  BY <1>1, <1>8, <1>9, <1>10 DEF Held
<1> QED BY <1>1, <1>11, NothingRunsAnew

LEMMA LostStep ==
  ASSUME TypeOK, TypeOK', ShutdownInOrder, TasksCounted, RowsInPartition, NoTaskLost,
         [Next]_vars
  PROVE  NoTaskLost'
<1>1. CASE AllowFailures
  BY <1>1 DEF NoTaskLost
<1> SUFFICES ASSUME ~AllowFailures PROVE NoTaskLost'
  BY <1>1
<1>2. workerUp
  BY DEF TasksCounted
<1>3. CASE Task' = Task /\ QuietHands
  <2>1. \A v \in Workers : Held(v)' = Held(v)
    BY <1>3, QuietHandsHeld
  <2> QED BY <1>3, <2>1, NothingRunsAnew
<1>4. ASSUME NEW w \in Workers, Dispatch(w) PROVE NoTaskLost'
  <2>1. ~PollFails(w) /\ ~LatePoll(w)
    BY <1>2 DEF PollFails, LatePoll
  <2>2. CASE DispatchLoopTest(w)
    BY <1>3, <2>2 DEF DispatchLoopTest, QuietHands, tables
  <2>3. CASE NotifyOne(w)
    <3>1. /\ Task' = Task /\ UNCHANGED <<batch, taskQueue_, execTask>>
          /\ \/ execPc' = execPc
             \/ \E e \in Executors : /\ execPc[w][e] = "asleep"
                                     /\ execPc' = [execPc EXCEPT ![w][e] = "lock"]
      BY <2>3 DEF NotifyOne, tables
    <3>2. execPc \in [Workers -> [Executors -> ExecPcs]]
      BY DEF TypeOK, WorkerTypeOK
    <3>3. \A v \in Workers, d \in Executors : execPc'[v][d] = "execute" <=> execPc[v][d] = "execute"
      BY <3>1, <3>2
    <3> QED BY <1>3, <3>1, <3>3 DEF QuietHands
  <2> QED BY <1>4, <2>1, <2>2, <2>3, PollLost, PushLost DEF Dispatch
<1>5. ASSUME NEW w \in Workers, NEW e \in Executors, Execute(w, e) PROVE NoTaskLost'
  <2>1. ~CompleteFails(w, e) /\ ~LateComplete(w, e)
    BY <1>2 DEF CompleteFails, LateComplete
  <2>2. CASE FindNoWork(w, e) \/ FallAsleep(w, e) \/ WakeSpuriously(w, e) \/ ExecutorReturns(w, e)
    <3>1. /\ Task' = Task /\ UNCHANGED <<batch, taskQueue_, execTask>>
          /\ execPc[w][e] # "execute"
          /\ \E place \in {"goingToSleep", "asleep", "lock", "returned"} :
               execPc' = [execPc EXCEPT ![w][e] = place]
      BY <2>2 DEF FindNoWork, FallAsleep, WakeSpuriously, ExecutorReturns, tables
    <3>2. execPc \in [Workers -> [Executors -> ExecPcs]]
      BY DEF TypeOK, WorkerTypeOK
    <3>3. \A v \in Workers, d \in Executors : execPc'[v][d] = "execute" <=> execPc[v][d] = "execute"
      BY <3>1, <3>2
    <3> QED BY <1>3, <3>1, <3>3 DEF QuietHands
  <2> QED BY <1>5, <2>1, <2>2, TakeLost, CompleteLost DEF Execute
<1>6. ASSUME NEW w \in Workers, EndServing(w) PROVE NoTaskLost'
  <2>1. /\ Task' = Task /\ UNCHANGED <<batch, taskQueue_, execTask>>
        /\ execPc' = execPc \/ NotifyAll(w)
    BY <1>6 DEF EndServing, BeginEndServing, JoinDispatcher, QueueDrained, StopExecutors,
                NotifyAll, JoinExecutors, tables
  <2>2. \A v \in Workers, d \in Executors : execPc'[v][d] = "execute" <=> execPc[v][d] = "execute"
    <3>1. CASE NotifyAll(w)
      BY <3>1 DEF NotifyAll, TypeOK, WorkerTypeOK
    <3> QED BY <2>1, <3>1
  <2> QED BY <1>3, <2>1, <2>2 DEF QuietHands
<1>7. CASE UNCHANGED vars
  BY <1>3, <1>7 DEF vars, tables, workerVars, QuietHands
<1> QED BY <1>4, <1>5, <1>6, <1>7, SchedLost DEF Next, WorkerNext, Over
-----------------------------------------------------------------------------
(* The results.                                                            *)

LEMMA DrainInit == Init => DrainInv
<1> SUFFICES ASSUME Init PROVE DrainInv
  OBVIOUS
<1>1. TypeOK
  BY InitType
<1>2. Worker = <<>> /\ Task = <<>> /\ WorkerInit
  BY DEF Init, TablesInit
<1>3. ShutdownInOrder
  BY <1>2 DEF WorkerInit, ShutdownInOrder
<1>4. TasksCounted
  <2>1. InQueues = {}
    BY <1>2 DEF WorkerInit, InQueues
  <2>2. InHands = {}
    BY <1>2 DEF WorkerInit, InHands
  <2>3. Notifying = {}
    BY <1>2 DEF WorkerInit, Notifying
  <2>4. workerUp /\ totalTasks_ = 0 /\ totalFinishedTasks_ = 0
    BY <1>2 DEF WorkerInit
  <2>5. IsFiniteSet({}) /\ Cardinality({}) = 0
    BY FS_EmptySet
  <2> QED BY <2>1, <2>2, <2>3, <2>4, <2>5 DEF TasksCounted
<1>5. RowsInPartition /\ NoTaskLost
  BY <1>2 DEF RowsInPartition, NoTaskLost
<1> QED BY <1>1, <1>3, <1>4, <1>5 DEF DrainInv

LEMMA DrainNext == DrainInv /\ [Next]_vars => DrainInv'
<1> SUFFICES ASSUME DrainInv, [Next]_vars PROVE DrainInv'
  OBVIOUS
<1>1. TypeOK /\ ShutdownInOrder /\ TasksCounted /\ RowsInPartition /\ NoTaskLost
  BY DEF DrainInv
<1>2. TypeOK'
  BY <1>1, NextType
<1> QED BY <1>1, <1>2, OrderStep, CountStep, RowsStep, LostStep DEF DrainInv

\* The inductive invariant of the worker program: endServing proceeds in order
\* and totalTasks_ and totalFinishedTasks_ account for every dispatched task.
THEOREM DrainInvariant == Spec => []DrainInv
<1>1. Init => DrainInv
  BY DrainInit
<1>2. DrainInv /\ [Next]_vars => DrainInv'
  BY DrainNext
<1> QED BY <1>1, <1>2, PTL DEF Spec

\* Unless invocations fail, a task a poll has set RUNNING is inside its worker
\* until it is complete, however polling, queueing and endServing interleave.
THEOREM NoRunningTaskIsLost == Spec => []NoTaskLost
<1>1. DrainInv => NoTaskLost
  BY DEF DrainInv
<1> QED BY <1>1, DrainInvariant, PTL

\* endServing returns with no task left in the worker, and when all have
\* returned the two counters the program prints are equal.
THEOREM EndServingDrains == Spec => []EndedIsDrained
<1>1. ASSUME DrainInv PROVE EndedIsDrained
  <2>0. TypeOK /\ ShutdownInOrder /\ TasksCounted
    BY <1>1 DEF DrainInv
  <2>1. ASSUME NEW w \in Workers, endPc[w] = "ended"
        PROVE  /\ batch[w] = {} /\ taskQueue_[w] = <<>> /\ dispatchPc[w] = "returned"
               /\ \A e \in Executors : execPc[w][e] = "returned"
    BY <2>0, <2>1 DEF ShutdownInOrder
  <2>2. ASSUME NEW w \in Workers, endPc[w] = "ended" PROVE Held(w) = {}
    BY <2>1, <2>2 DEF Held, Queued, Executing
  <2>3. ASSUME \A w \in Workers : endPc[w] = "ended" PROVE totalTasks_ = totalFinishedTasks_
    <3>1. workerUp
      BY <2>0, <2>1, <2>3 DEF TasksCounted
    <3>2. InQueues = {} /\ InHands = {} /\ Notifying = {}
      BY <2>1, <2>3 DEF InQueues, InHands, Notifying
    <3>3. Cardinality({}) = 0
      BY FS_EmptySet
    <3>4. totalTasks_ + 0 = totalFinishedTasks_ + 0 + 0
      BY <2>0, <3>1, <3>2, <3>3 DEF TasksCounted
    <3>5. totalTasks_ \in Nat /\ totalFinishedTasks_ \in Nat
      BY <2>0 DEF TypeOK, WorkerTypeOK
    <3> QED BY <3>4, <3>5
  <2> QED BY <2>2, <2>3 DEF EndedIsDrained
<1> QED BY <1>1, DrainInvariant, PTL
-----------------------------------------------------------------------------
(* SchedulerWorkerSystem implements TaskLifecycle: every step of the       *)
(* programs is a step of the life cycle, or changes no task's stage.       *)

(* What a step may do to the tables.                                       *)

Assigns ==
  \E s \in Schedulers : \E i \in DOMAIN Worker :
    /\ schedPc[s] = "probe" /\ ~TornDown
    /\ Worker[i].PKey = probe[s].pkey /\ Worker[i].Capacity > 0 /\ Worker[i] \in WorkerRow
    /\ NewTask(schedTask[s], Worker[i].WorkerID, PENDING, probe[s].pkey)
    /\ SetCapacity(probe[s].pkey, Worker[i].WorkerID, Worker[i].Capacity - 1)

Polls ==
  \E w \in Workers : \E ids : WorkerSelectTask(PKeyOf(w), w, TopK, ids)

Completes ==
  \E w \in Workers : \E t \in Held(w) : WorkerUpdateTask(PKeyOf(w), w, t, COMPLETE)

Inserts ==
  Task' = Task /\ \E r : Worker' = Append(Worker, r)

LEMMA StepCases ==
  ASSUME SystemInv, [Next]_vars
  PROVE  \/ UNCHANGED tables
         \/ UNCHANGED Task /\ Worker' = <<>>
         \/ UNCHANGED Worker /\ Task' = <<>>
         \/ Inserts \/ Assigns \/ Polls \/ Completes
<1> DEFINE Goal == \/ UNCHANGED tables
                   \/ UNCHANGED Task /\ Worker' = <<>>
                   \/ UNCHANGED Worker /\ Task' = <<>>
                   \/ Inserts \/ Assigns \/ Polls \/ Completes
<1> SUFFICES Goal
  OBVIOUS
<1>1. ASSUME Main PROVE Goal
  BY <1>1 DEF Main, TruncateWorkers, TruncateTasks, TruncateWorkerTable, TruncateTaskTable,
              SetupInsert, SetupFails, InsertWorker, StartThreads, FinishRun, JoinThreads,
              StartAgain, Inserts
<1>2. ASSUME NEW s \in Schedulers, Thread(s) PROVE Goal
  <2>1. ASSUME NEW st, SelectSinglePartitionedTaskWorker(probe[s].pkey, schedTask[s], st),
               schedPc[s] = "probe", ~TornDown
        PROVE  Goal
    <3>1. TablesTypeOK /\ probe[s].pkey \in Nat /\ schedTask[s] \in Nat
      <4>1. probe[s] \in Probes /\ schedTask[s] \in Nat /\ TablesTypeOK
        BY DEF SystemInv, TypeOK, SchedTypeOK
      <4> QED BY <4>1 DEF Probes
    <3>2. CASE UNCHANGED tables
      BY <3>2
    <3>3. CASE \E i \in DOMAIN Worker :
                 /\ Worker[i].PKey = probe[s].pkey /\ Worker[i].Capacity > 0
                 /\ Worker[i] \in WorkerRow
                 /\ NewTask(schedTask[s], Worker[i].WorkerID, PENDING, probe[s].pkey)
                 /\ SetCapacity(probe[s].pkey, Worker[i].WorkerID, Worker[i].Capacity - 1)
      BY <2>1, <3>3 DEF Assigns
    <3> QED BY <2>1, <3>1, <3>2, <3>3, SelectCases
  <2>2. CASE ProbeHit(s) \/ ProbeMiss(s) \/ LateCommit(s)
    BY <2>1, <2>2 DEF ProbeHit, ProbeMiss, LateCommit, Alive, TornDown
  <2>3. CASE ProbeFails(s)
    BY <2>1, <2>3 DEF ProbeFails, Alive, TornDown
  <2> QED
    BY <1>2, <2>2, <2>3 DEF Thread, NotItsTurn, ClaimEntry, ArrayFull, Schedule, NextRound,
                            AssertFails, LoopTest
<1>3. ASSUME NEW w \in Workers, Dispatch(w) PROVE Goal
  BY <1>3 DEF Dispatch, Poll, PollFails, Push, NotifyOne, DispatchLoopTest, LatePoll, Polls
<1>4. ASSUME NEW w \in Workers, NEW e \in Executors, Execute(w, e) PROVE Goal
  <2>1. execPc[w][e] = "execute" => execTask[w][e] \in Held(w)
    BY DEF Held, Executing
  <2> QED
    BY <1>4, <2>1 DEF Execute, FindNoWork, FallAsleep, WakeSpuriously, TakeTask, Complete,
                      CompleteFails, ExecutorReturns, LateComplete, Completes
<1>5. ASSUME NEW w \in Workers, EndServing(w) PROVE Goal
  BY <1>5 DEF EndServing, BeginEndServing, JoinDispatcher, QueueDrained, StopExecutors,
              NotifyAll, JoinExecutors
<1> QED BY <1>1, <1>2, <1>3, <1>4, <1>5 DEF Next, SchedNext, WorkerNext, Over, vars
-----------------------------------------------------------------------------
\* What the two procedures a worker calls do to the Task table.
LEMMA PollChanges ==
  ASSUME SystemInv, NEW w \in Workers, NEW ids, WorkerSelectTask(PKeyOf(w), w, TopK, ids)
  PROVE  /\ DOMAIN Task' = DOMAIN Task /\ UNCHANGED Worker
         /\ \A j \in DOMAIN Task :
              /\ Task'[j].TaskID = Task[j].TaskID
              /\ Task'[j].WorkerID = Task[j].WorkerID
              /\ \/ Task'[j].State = Task[j].State
                 \/ Task[j].State = PENDING /\ Task'[j].State = RUNNING /\ Task[j].WorkerID = w
<1> USE DEF SystemInv
<1>1. /\ DOMAIN Task' = DOMAIN Task
      /\ \A j \in DOMAIN Task :
           /\ Task'[j].TaskID = Task[j].TaskID
           /\ Task'[j].WorkerID = Task[j].WorkerID
           /\ Task'[j].State =
                IF Task[j].PKey = PKeyOf(w) /\ Task[j].TaskID \in ids /\ Task[j].WorkerID = w
                THEN RUNNING ELSE Task[j].State
  BY SetTaskStateShape DEF WorkerSelectTask, TypeOK
<1>2. \A t \in ids : \E j \in DOMAIN Task : Task[j].TaskID = t /\ Task[j].State = PENDING
  BY DEF WorkerSelectTask, PendingTasks
<1>3. UNCHANGED Worker
  BY DEF WorkerSelectTask
<1> QED BY <1>1, <1>2, <1>3 DEF TaskIdsUnique

LEMMA CompletionChanges ==
  ASSUME SystemInv, NEW w \in Workers, NEW t \in Held(w),
         WorkerUpdateTask(PKeyOf(w), w, t, COMPLETE)
  PROVE  /\ DOMAIN Task' = DOMAIN Task
         /\ \A j \in DOMAIN Task :
              /\ Task'[j].TaskID = Task[j].TaskID
              /\ Task'[j].WorkerID = Task[j].WorkerID
              /\ \/ Task'[j].State = Task[j].State
                 \/ Task[j].State = RUNNING /\ Task'[j].State = COMPLETE /\ Task[j].WorkerID = w
         /\ ~TornDown => \E j \in DOMAIN Task : Task[j].State = RUNNING /\ Task'[j].State = COMPLETE
<1> USE DEF SystemInv
<1>1. /\ DOMAIN Task' = DOMAIN Task
      /\ \A j \in DOMAIN Task :
           /\ Task'[j].TaskID = Task[j].TaskID
           /\ Task'[j].WorkerID = Task[j].WorkerID
           /\ Task'[j].State =
                IF Task[j].PKey = PKeyOf(w) /\ Task[j].TaskID \in {t} /\ Task[j].WorkerID = w
                THEN COMPLETE ELSE Task[j].State
  BY SetTaskStateShape DEF WorkerUpdateTask, TypeOK
<1>2. \A j \in DOMAIN Task : Task[j].TaskID = t => Task[j].WorkerID = w /\ Task[j].State = RUNNING
                                                   /\ Task[j].PKey = PKeyOf(w)
  BY DEF HeldIsRunning, TasksAsAssigned
<1>3. ~TornDown => \E j \in DOMAIN Task : Task[j].TaskID = t
  BY DEF HeldIsRunning
<1> QED BY <1>1, <1>2, <1>3

(* Capacity comes back only with a completion.                             *)

LEMMA CapacityUp ==
  ASSUME SystemInv, ~TornDown, [Next]_vars,
         NEW i \in DOMAIN Worker \cap DOMAIN Worker', Worker'[i].Capacity > Worker[i].Capacity
  PROVE  \E j \in DOMAIN Task \cap DOMAIN Task' :
           Task[j].State = RUNNING /\ Task'[j].State = COMPLETE
<1> USE DEF SystemInv
<1>0. TablesTypeOK /\ Worker[i] \in WorkerRow
  BY DEF TypeOK, TablesTypeOK
<1>1. Worker[i].Capacity \in Int
  BY <1>0 DEF WorkerRow
<1>2. Worker' # Worker
  BY <1>1
<1>3. Worker' # <<>>
  OBVIOUS
<1>4. ~Inserts
  <2>1. ASSUME NEW r, Worker' = Append(Worker, r) PROVE FALSE
    <3>1. Worker'[i] = Worker[i]
      BY <1>0, <2>1 DEF TablesTypeOK
    <3> QED BY <1>1, <3>1
  <2> QED BY <2>1 DEF Inserts
<1>5. ~Assigns
  <2>1. ASSUME NEW s \in Schedulers, NEW k \in DOMAIN Worker, Worker[k] \in WorkerRow,
               Worker[k].PKey = probe[s].pkey,
               SetCapacity(probe[s].pkey, Worker[k].WorkerID, Worker[k].Capacity - 1)
        PROVE  FALSE
    <3>1. Worker[k].Capacity \in Int
      BY <2>1 DEF WorkerRow
    <3>2. Worker'[i].Capacity =
            IF Worker[i].PKey = probe[s].pkey /\ Worker[i].WorkerID = Worker[k].WorkerID
            THEN Worker[k].Capacity - 1 ELSE Worker[i].Capacity
      BY <1>0, <2>1 DEF SetCapacity, WorkerRow
    <3>3. DOMAIN Worker \subseteq Int
      BY <1>0 DEF TablesTypeOK
    <3>4. Worker[i].WorkerID = Worker[k].WorkerID => i = k
      BY <3>3 DEF WorkersAsInserted
    <3> QED BY <1>1, <3>1, <3>2, <3>4
  <2> QED BY <2>1 DEF Assigns
<1>6. ~Polls
  BY <1>2 DEF Polls, WorkerSelectTask
<1>7. Completes
  BY <1>2, <1>3, <1>4, <1>5, <1>6, StepCases DEF tables
<1> QED BY <1>7, CompletionChanges DEF Completes

\* WorkerUpdateTask, which adds a unit of capacity whatever it finds, is called
\* only for a task it turns from RUNNING to COMPLETE: for a scheduler program
\* that is started once and leaves the tables alone when it ends, also when
\* invocations fail and processes die.
THEOREM CapacityComesWithCompletion ==
  ASSUME MaxRuns = 1, CleanDB = FALSE
  PROVE  Spec => CapacityOnlyOnCompletion
<1>1. SystemInv /\ [Next]_vars =>
        [(\E i \in DOMAIN Worker \cap DOMAIN Worker' : Worker'[i].Capacity > Worker[i].Capacity)
         => \E j \in DOMAIN Task \cap DOMAIN Task' :
              Task[j].State = RUNNING /\ Task'[j].State = COMPLETE]_vars
  BY CapacityUp DEF TornDown
<1> QED BY <1>1, SystemInvariant, PTL DEF CapacityOnlyOnCompletion, Spec
-----------------------------------------------------------------------------
(* The refinement.                                                         *)

LEMMA StageOfState ==
  /\ StageOf(PENDING) = "pending" /\ StageOf(RUNNING) = "running"
  /\ StageOf(COMPLETE) = "complete"
BY DEF StageOf, PENDING, RUNNING, COMPLETE

\* A step that moves rows of worker w from one state to the next, as seen in the
\* table and in the life cycle.
Moves(w, from, to) ==
  /\ DOMAIN Task' = DOMAIN Task
  /\ \A j \in DOMAIN Task :
       /\ Task'[j].TaskID = Task[j].TaskID
       /\ Task'[j].WorkerID = Task[j].WorkerID
       /\ \/ Task'[j].State = Task[j].State
          \/ Task[j].State = from /\ Task'[j].State = to /\ Task[j].WorkerID = w

LifeMoves(from, to) ==
  \E S \in SUBSET Life :
    /\ S # {}
    /\ \A r \in S : r.stage = StageOf(from)
    /\ \A r, q \in S : r.worker = q.worker
    /\ Life' = (Life \ S) \cup {[r EXCEPT !.stage = StageOf(to)] : r \in S}

LEMMA MoveStep ==
  ASSUME TaskIdsUnique, NEW w, NEW from, NEW to, from # to, Moves(w, from, to)
  PROVE  Life' = Life \/ LifeMoves(from, to)
<1> USE DEF Moves
<1> DEFINE moved == {j \in DOMAIN Task : Task'[j].State # Task[j].State}
           S == {LifeOf(Task[j]) : j \in moved}
<1>1. \A j \in DOMAIN Task : /\ LifeOf(Task[j]).task = Task[j].TaskID
                             /\ LifeOf(Task[j]).worker = Task[j].WorkerID
                             /\ LifeOf(Task[j]).stage = StageOf(Task[j].State)
  BY DEF LifeOf
<1>2. \A j \in DOMAIN Task : LifeOf(Task'[j]) =
        IF j \in moved THEN [LifeOf(Task[j]) EXCEPT !.stage = StageOf(to)] ELSE LifeOf(Task[j])
  BY DEF LifeOf
<1>3. Life' = {LifeOf(Task'[j]) : j \in DOMAIN Task}
  BY DEF Life, LifeOf
<1>4. \A i, j \in DOMAIN Task : LifeOf(Task[i]) = LifeOf(Task[j]) => i = j
  BY <1>1 DEF TaskIdsUnique
<1>5. CASE moved = {}
  BY <1>2, <1>3, <1>5 DEF Life
<1>6. CASE moved # {}
  <2>1. S \in SUBSET Life /\ S # {}
    BY <1>6 DEF Life
  <2>2. \A r \in S : r.stage = StageOf(from) /\ r.worker = w
    BY <1>1
  <2>3. Life \ S = {LifeOf(Task[j]) : j \in DOMAIN Task \ moved}
    BY <1>4 DEF Life
  <2>4. Life' = (Life \ S) \cup {[r EXCEPT !.stage = StageOf(to)] : r \in S}
    BY <1>2, <1>3, <2>3
  <2> QED BY <2>1, <2>2, <2>4 DEF LifeMoves
<1> QED BY <1>5, <1>6

\* A probe that finds a worker gives it a task nobody has, and had room for it.
LEMMA AssignLife ==
  ASSUME SystemInv, Assigns
  PROVE  Lifecycle!Assign
<1> USE DEF SystemInv
<1>1. PICK s \in Schedulers, i \in DOMAIN Worker :
        /\ schedPc[s] = "probe" /\ ~TornDown
        /\ Worker[i].PKey = probe[s].pkey /\ Worker[i].Capacity > 0 /\ Worker[i] \in WorkerRow
        /\ NewTask(schedTask[s], Worker[i].WorkerID, PENDING, probe[s].pkey)
  BY DEF Assigns
<1>2. PICK v : v = Worker[i].WorkerID
  OBVIOUS
<1>3. PICK n : n = Len(Task) + 1
  OBVIOUS
<1>4. /\ Worker[i].WorkerID \in Nat /\ Worker[i].Capacity \in Int /\ Worker[i].PKey \in Nat
      /\ TablesTypeOK /\ schedTask[s] \in Nat
  BY <1>1 DEF WorkerRow, TypeOK, SchedTypeOK
<1>5. /\ DOMAIN Task' = DOMAIN Task \cup {n} /\ n \notin DOMAIN Task
      /\ \A j \in DOMAIN Task : Task'[j] = Task[j]
      /\ Task'[n].TaskID = schedTask[s] /\ Task'[n].WorkerID = v
      /\ Task'[n].State = PENDING
  BY <1>1, <1>2, <1>3, <1>4, NewTaskShape, ZenonT(60)
<1>6. PICK r : r = LifeOf(Task'[n])
  OBVIOUS
<1>7. r.task = schedTask[s] /\ r.worker = v /\ r.stage = "pending"
  BY <1>5, <1>6, StageOfState DEF LifeOf
<1>8. {LifeOf(Task'[j]) : j \in DOMAIN Task'} = Life \cup {r}
  BY <1>5, <1>6 DEF Life
<1>9. Life' = Life \cup {r}
  BY <1>8 DEF Life, LifeOf
<1>10. v \in Workers
  <2>1. DOMAIN Worker = 1 .. Len(Worker) /\ Len(Worker) \in Nat
    BY <1>4 DEF TablesTypeOK
  <2> QED BY <1>2, <2>1, TablesAssumption DEF WorkersAsInserted, Workers
<1>11. \A q \in Life : q.task # r.task
  <2>1. \A j \in DOMAIN Task : Task[j].TaskID # schedTask[s]
    BY <1>1 DEF FreshTasks, Probing
  <2> QED BY <1>7, <2>1 DEF Life, LifeOf
<1>12. Cardinality({q \in Life : q.worker = v /\ q.stage # "complete"}) < WorkerCapacity
  <2> DEFINE busy == {q \in Life : q.worker = v /\ q.stage # "complete"}
             img == {LifeOf(Task[j]) : j \in ActiveTasks(v)}
  <2>1. busy \subseteq img
    <3>1. \A j \in DOMAIN Task : Task[j] \in TaskRow
      BY <1>4 DEF TablesTypeOK
    <3>2. \A j \in DOMAIN Task : Task[j].State \in {PENDING, RUNNING, COMPLETE}
      BY <3>1 DEF TaskRow
    <3> QED BY <3>2, StageOfState DEF Life, LifeOf, ActiveTasks
  <2>2. IsFiniteSet(ActiveTasks(v)) /\ Cardinality(ActiveTasks(v)) \in Nat
    BY <1>4, ActiveFinite
  <2>3. IsFiniteSet(img) /\ Cardinality(img) <= Cardinality(ActiveTasks(v))
    <3> DEFINE f == [j \in ActiveTasks(v) |-> LifeOf(Task[j])]
    <3>1. f \in Surjection(ActiveTasks(v), img)
      BY DEF Surjection
    <3> QED BY <2>2, <3>1, FS_Surjection
  <2>4. IsFiniteSet(busy) /\ Cardinality(busy) <= Cardinality(img)
    BY <2>1, <2>3, FS_Subset
  <2>5. Cardinality(busy) \in Nat /\ Cardinality(img) \in Nat
    BY <2>3, <2>4, FS_CardinalityType
  <2>6. Worker[i].Capacity + Cardinality(ActiveTasks(v)) = WorkerCapacity
    BY <1>1, <1>2 DEF CapacityConservation
  <2> QED BY <1>1, <1>4, <2>2, <2>3, <2>4, <2>5, <2>6
<1>13. Lifecycle!Busy(r.worker) = {q \in Life : q.worker = v /\ q.stage # "complete"}
  BY <1>7 DEF Lifecycle!Busy
<1>14. Cardinality(Lifecycle!Busy(r.worker)) < WorkerCapacity
  BY <1>12, <1>13
<1>15. r \in Life' /\ r.worker \in Workers /\ r.stage = "pending"
  BY <1>7, <1>9, <1>10
<1>16. Lifecycle!Cardinality(Lifecycle!Busy(r.worker)) = Cardinality(Lifecycle!Busy(r.worker))
  BY DEF Lifecycle!Cardinality, Cardinality
<1> QED
  BY <1>9, <1>11, <1>14, <1>15, <1>16 DEF Lifecycle!Assign

LEMMA NextLife ==
  ASSUME SystemInv, [Next]_vars
  PROVE  [Lifecycle!Next]_Life
<1> USE DEF SystemInv
<1>1. CASE UNCHANGED Task
  BY <1>1 DEF Life, LifeOf
<1>2. CASE Task' = <<>>
  <2>1. Life' = {}
    BY <1>2 DEF Life
  <2> QED BY <2>1 DEF Lifecycle!Next, Lifecycle!Clear
<1>3. CASE Assigns
  BY <1>3, AssignLife DEF Lifecycle!Next
<1>4. CASE Polls
  <2>1. PICK w \in Workers : \E ids : WorkerSelectTask(PKeyOf(w), w, TopK, ids)
    BY <1>4 DEF Polls
  <2>2. Moves(w, PENDING, RUNNING)
    BY <2>1, PollChanges DEF Moves
  <2>3. PENDING # RUNNING
    BY DEF PENDING, RUNNING
  <2>4. Life' = Life \/ LifeMoves(PENDING, RUNNING)
    BY <2>2, <2>3, MoveStep
  <2>5. LifeMoves(PENDING, RUNNING) => Lifecycle!Start
    BY StageOfState DEF LifeMoves, Lifecycle!Start, Lifecycle!Move
  <2> QED BY <2>4, <2>5 DEF Lifecycle!Next
<1>5. CASE Completes
  <2>1. PICK w \in Workers : \E t \in Held(w) : WorkerUpdateTask(PKeyOf(w), w, t, COMPLETE)
    BY <1>5 DEF Completes
  <2>2. Moves(w, RUNNING, COMPLETE)
    BY <2>1, CompletionChanges DEF Moves
  <2>3. RUNNING # COMPLETE
    BY DEF RUNNING, COMPLETE
  <2>4. Life' = Life \/ LifeMoves(RUNNING, COMPLETE)
    BY <2>2, <2>3, MoveStep
  <2>5. LifeMoves(RUNNING, COMPLETE) => Lifecycle!Finish
    BY StageOfState DEF LifeMoves, Lifecycle!Finish, Lifecycle!Move
  <2> QED BY <2>4, <2>5 DEF Lifecycle!Next
<1> QED BY <1>1, <1>2, <1>3, <1>4, <1>5, StepCases DEF tables, Inserts

\* Scheduler program and worker program together implement the life cycle of
\* tasks: one worker per task, never more than its capacity, started once and
\* completed once.
THEOREM LifecycleImplemented ==
  ASSUME MaxRuns = 1
  PROVE  Spec => ImplementsLifecycle
<1>1. Init => Lifecycle!Init
  <2>1. DOMAIN <<>> = {}
    OBVIOUS
  <2> QED BY <2>1 DEF Init, TablesInit, Lifecycle!Init, Life
<1>2. SystemInv /\ [Next]_vars => [Lifecycle!Next]_Life
  BY NextLife
<1> QED BY <1>1, <1>2, SystemInvariant, PTL DEF Spec, ImplementsLifecycle, Lifecycle!Spec
=============================================================================
