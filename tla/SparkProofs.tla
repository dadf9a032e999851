----------------------------- MODULE SparkProofs -----------------------------
(***************************************************************************)
(* Proofs about SparkScheduler and the programs that use it: the queue of  *)
(* pointers into the clients' stacks, the ids of the tasks, and the        *)
(* capacity of the workers.                                                *)
(***************************************************************************)
EXTENDS LoadGenerator, FiniteSetTheorems, TLAPS

SparkRow == [WorkerID : Workers, Capacity : Int, DataShards : Workers, PKey : Nat]

MainPcs == {"truncate", "insert", "run", "teardown", "endServing", "shutdown",
            "notify", "join", "done", "exited", "aborted"}

\* The Worker and DataLocation tables have their types and the rows are in order.
RowsTyped ==
  /\ Worker \in Seq(SparkRow) /\ DataLocation \subseteq [DataShard : Workers, PKey : Nat]
  /\ \A i \in DOMAIN Worker :
       Worker[i].WorkerID = i - 1 /\ Worker[i].PKey = (i - 1) % Partitions

LEMMA ModNat ==
  ASSUME NEW a \in Nat, NEW n \in Nat \ {0}
  PROVE  a % n \in Nat
OBVIOUS

LEMMA InvRows ==
  ASSUME SparkInv
  PROVE  /\ RowsTyped /\ \A i \in DOMAIN Worker : Worker[i] \in SparkRow
         /\ DOMAIN Worker = 1 .. Len(Worker) /\ Len(Worker) \in Nat
<1>1. RowsTyped
  BY DEF SparkInv, SparkTypeOK, RowsInOrder, RowsTyped, SparkRow
<1> QED BY <1>1 DEF RowsTyped

LEMMA ZeroWorker == 0 \in Workers /\ NumWorkers \in Nat \ {0} /\ Partitions \in Nat \ {0}
BY SparkAssumption DEF Workers

\* The process dies.
LEMMA DieInv ==
  ASSUME SparkInv, NEW how \in {"exited", "aborted"}, Die(how), program' = program, RowsTyped'
  PROVE  SparkInv'
<1>1. SparkTypeOK'
  <2>1. NoTask \in TaskData /\ NoCall \in Rpc
    BY ZeroWorker DEF NoTask, NoCall, TaskData, Rpc
  <2>2. 0 \in 0 .. NumWorkers
    BY ZeroWorker
  <2>3. /\ mainPc' \in MainPcs /\ servers' \in 0 .. NumWorkers
        /\ UNCHANGED <<runTaskQueueThread, taskIDs, calls>>
        /\ clientPc' \in [Clients -> {"idle", "enqueue", "check", "recheck", "asleep", "dead"}]
        /\ clientTask' \in [Clients -> TaskData]
        /\ taskQueue' \in Seq(Clients)
        /\ queuePc' = "returned" /\ chosen' \in Workers /\ rpcs' \subseteq Rpc
        /\ finishPc' = "returned" /\ finishing' \in Rpc
        /\ taskCompletionSet' \subseteq Int /\ executed' \subseteq Int
    BY <2>1, <2>2, ZeroWorker DEF Die, MainPcs
  <2> QED BY <2>3 DEF SparkInv, SparkTypeOK, RowsTyped, SparkRow, MainPcs
<1>2. IsFiniteSet(rpcs')
  BY FS_EmptySet DEF Die
<1>3. ~SettingUp' /\ mainPc' \notin {"truncate", "insert", "run"}
  BY DEF Die, SettingUp
<1>4. SetupQuiet' /\ SparkCapacity' /\ RowsInOrder'
  BY <1>3 DEF SetupQuiet, SparkCapacity, RowsInOrder, RowsTyped
<1>5. \A c \in Clients : ~Inside(c)' /\ clientPc'[c] # "enqueue"
  BY DEF Die, Inside
<1>6. taskQueue' = <<>> /\ rpcs' = {} /\ taskCompletionSet' = {} /\ queuePc' = "returned"
      /\ finishPc' = "returned"
  BY DEF Die
<1>7. IdsDistinct'
  BY <1>5, <1>6 DEF IdsDistinct
<1>8. QueuedOnce'
  BY <1>5, <1>6 DEF QueuedOnce
<1>9. ExecutedFirst'
  BY <1>6 DEF ExecutedFirst
<1> QED BY <1>1, <1>2, <1>4, <1>7, <1>8, <1>9 DEF SparkInv

\* Before the first call of schedule no task holds any capacity.
LEMMA QuietAssigned ==
  ASSUME SparkInv, SettingUp, NEW w
  PROVE  Assigned(w) = {}
<1>1. taskQueue = <<>> /\ rpcs = {} /\ finishPc # "update"
  BY DEF SparkInv, SetupQuiet
<1>2. queuePc # "assign"
  BY <1>1 DEF SparkInv, QueuedOnce
<1> QED BY <1>1, <1>2 DEF Assigned

\* What steps have in common that neither touch a task nor take or give capacity.
Passes ==
  /\ program' = program
  /\ UNCHANGED <<calls, clientPc, clientTask, taskQueue, chosen, rpcs, finishing,
                 taskCompletionSet, executed>>
  /\ taskIDs' = taskIDs \/ (SettingUp /\ taskIDs' \in Int)
  /\ \/ queuePc' = queuePc
     \/ /\ queuePc \notin {"assign", "pop"}
        /\ queuePc' \in {"start", "waiting", "woken", "drain", "returned"}
  /\ finishPc' = finishPc \/ (finishPc # "update" /\ finishPc' \in {"next", "returned"})
  /\ servers' \in 0 .. NumWorkers /\ runTaskQueueThread' \in BOOLEAN /\ mainPc' \in MainPcs

LEMMA PassInv ==
  ASSUME SparkInv, Passes, RowsTyped',
         mainPc' = "truncate" => Worker' = <<>> /\ servers' = 0,
         mainPc' = "insert" /\ program # "load-fifo" => Len(Worker') = servers',
         SettingUp' => SettingUp /\ \A i \in DOMAIN Worker' : Worker'[i].Capacity = WorkerCapacity,
         mainPc' = "run" => (mainPc = "run" \/ SettingUp) /\ Worker' = Worker
  PROVE  SparkInv'
<1>1. SparkTypeOK'
  <2>1. /\ taskIDs' \in Int
        /\ queuePc' \in {"start", "waiting", "woken", "drain", "assign", "pop", "returned"}
        /\ finishPc' \in {"next", "update", "returned"}
    BY DEF Passes, SparkInv, SparkTypeOK
  <2> QED BY <2>1 DEF Passes, SparkInv, SparkTypeOK, RowsTyped, SparkRow, MainPcs
<1>2. IsFiniteSet(rpcs') /\ program' \in {"test", "load", "load-fifo"}
  BY DEF Passes, SparkInv
<1>3. RowsInOrder'
  BY DEF RowsInOrder, RowsTyped, Passes
<1>4. SetupQuiet'
  <2>1. SettingUp' => SettingUp /\ finishPc' # "update"
    BY DEF Passes, SparkInv, SetupQuiet
  <2> QED BY <2>1 DEF Passes, SparkInv, SetupQuiet
<1>5. IdsDistinct'
  <2>1. CASE taskIDs' = taskIDs
    BY <2>1 DEF Passes, SparkInv, IdsDistinct, Inside
  <2>2. CASE SettingUp
    <3>1. rpcs' = {} /\ taskCompletionSet' = {} /\ \A c \in Clients : ~Inside(c)'
      BY <2>2 DEF Passes, SparkInv, SetupQuiet, Inside
    <3> QED BY <3>1 DEF IdsDistinct
  <2> QED BY <2>1, <2>2 DEF Passes
<1>6. QueuedOnce'
  <2>1. queuePc' = queuePc \/ (queuePc # "pop" /\ queuePc' \notin {"assign", "pop"})
    BY DEF Passes
  <2>2. InFlight' = InFlight
    BY DEF InFlight, Passes
  <2> QED BY <2>1, <2>2 DEF Passes, SparkInv, QueuedOnce
<1>7. ExecutedFirst'
  BY DEF Passes, SparkInv, ExecutedFirst
<1>8. SparkCapacity'
  <2> SUFFICES ASSUME mainPc' = "run" PROVE SparkCapacity'
    BY DEF SparkCapacity
  <2>1. Worker' = Worker
    OBVIOUS
  <2>2. CASE SettingUp
    <3>1. /\ rpcs' = {} /\ finishPc' # "update" /\ queuePc' # "assign"
          /\ \A i \in DOMAIN Worker : Worker[i].Capacity = WorkerCapacity
      BY <2>2 DEF Passes, SparkInv, SetupQuiet, QueuedOnce
    <3>2. \A w : Assigned(w)' = {}
      BY <3>1 DEF Assigned
    <3> QED BY <2>1, <3>1, <3>2, FS_EmptySet, SparkAssumption DEF SparkCapacity
  <2>3. CASE mainPc = "run"
    <3>1. \A w : Assigned(w)' = Assigned(w)
      BY DEF Passes, Assigned, FrontTask
    <3> QED BY <2>1, <2>3, <3>1 DEF SparkInv, SparkCapacity
  <2> QED BY <2>2, <2>3
<1> QED BY <1>1, <1>2, <1>3, <1>4, <1>5, <1>6, <1>7, <1>8 DEF SparkInv
-----------------------------------------------------------------------------
(* main, of TestSparkScheduler and of LoadGenerator.                       *)

LEMMA TruncateInv ==
  ASSUME SparkInv, program' = program,
         Truncate("truncate", "insert") \/ Truncate("teardown", "endServing")
  PROVE  SparkInv'
<1>1. /\ \/ mainPc = "truncate" /\ mainPc' = "insert"
         \/ mainPc = "teardown" /\ mainPc' = "endServing"
      /\ UNCHANGED <<servers, runTaskQueueThread, clientVars, taskQueue, queueVars, rpcs,
                     finishVars, executed>>
      /\ TruncateWorkerTable \/ UNCHANGED tables
  BY DEF Truncate
<1>2. RowsTyped' /\ (Worker = <<>> => Worker' = <<>>)
  <2>1. CASE TruncateWorkerTable
    BY <2>1 DEF TruncateWorkerTable, RowsTyped
  <2>2. CASE UNCHANGED tables
    BY <2>2, InvRows DEF tables, RowsTyped
  <2> QED BY <1>1, <2>1, <2>2
<1>3. Passes
  BY <1>1 DEF Passes, SparkInv, SparkTypeOK, MainPcs, clientVars, queueVars, finishVars
<1>4. mainPc' = "insert" => Worker' = <<>> /\ servers' = 0 /\ SettingUp
  BY <1>1, <1>2 DEF SparkInv, RowsInOrder, SettingUp
<1>5. mainPc' # "insert" => ~SettingUp'
  BY <1>1 DEF SettingUp
<1>6. mainPc' \notin {"truncate", "run"}
  BY <1>1
<1> QED BY <1>2, <1>3, <1>4, <1>5, <1>6, PassInv

\* The next worker's row.
LEMMA AppendRow ==
  ASSUME SparkInv, mainPc = "insert", Len(Worker) < NumWorkers, NEW d \in Workers,
         Worker' = Append(Worker, [WorkerID |-> Len(Worker), Capacity |-> WorkerCapacity,
                                   DataShards |-> d, PKey |-> Len(Worker) % Partitions]),
         \/ UNCHANGED DataLocation
         \/ DataLocation' = DataLocation \cup {[DataShard |-> d, PKey |-> Len(Worker) % Partitions]}
  PROVE  /\ RowsTyped' /\ Len(Worker') = Len(Worker) + 1
         /\ \A i \in DOMAIN Worker' : Worker'[i].Capacity = WorkerCapacity
<1> DEFINE row == [WorkerID |-> Len(Worker), Capacity |-> WorkerCapacity,
                   DataShards |-> d, PKey |-> Len(Worker) % Partitions]
<1>1. /\ Worker \in Seq(SparkRow) /\ Len(Worker) \in Nat /\ DOMAIN Worker = 1 .. Len(Worker)
      /\ DataLocation \subseteq [DataShard : Workers, PKey : Nat]
      /\ \A i \in DOMAIN Worker :
           Worker[i].WorkerID = i - 1 /\ Worker[i].PKey = (i - 1) % Partitions
  BY InvRows DEF RowsTyped
<1>2. Len(Worker) % Partitions \in Nat /\ WorkerCapacity \in Int /\ Len(Worker) \in Workers
  <2>1. Len(Worker) % Partitions \in Nat
    BY <1>1, ModNat, ZeroWorker
  <2>2. WorkerCapacity \in Int /\ Len(Worker) \in Workers
    BY <1>1, ZeroWorker, SparkAssumption DEF Workers
  <2> QED BY <2>1, <2>2
<1>3. row \in SparkRow
  BY <1>2 DEF SparkRow
<1>4. \A i \in DOMAIN Worker : Worker[i].Capacity = WorkerCapacity
  BY DEF SparkInv, SetupQuiet, SettingUp
<1>5. Worker' = Append(Worker, row)
  OBVIOUS
<1>6. /\ Worker' \in Seq(SparkRow) /\ Len(Worker') = Len(Worker) + 1
      /\ DOMAIN Worker' = 1 .. Len(Worker) + 1
      /\ \A i \in 1 .. Len(Worker) : Worker'[i] = Worker[i]
      /\ Worker'[Len(Worker) + 1] = row
  <2> HIDE DEF row
  <2> QED BY <1>1, <1>3, <1>5
<1>7. DataLocation' \subseteq [DataShard : Workers, PKey : Nat]
  BY <1>1, <1>2
<1>8. ASSUME NEW i \in DOMAIN Worker'
      PROVE  /\ Worker'[i].WorkerID = i - 1 /\ Worker'[i].PKey = (i - 1) % Partitions
             /\ Worker'[i].Capacity = WorkerCapacity
  <2>1. CASE i \in 1 .. Len(Worker)
    BY <1>1, <1>4, <1>6, <2>1
  <2>2. CASE i = Len(Worker) + 1
    <3>1. i - 1 = Len(Worker)
      BY <1>1, <2>2
    <3> QED BY <1>6, <2>2, <3>1
  <2> QED BY <1>1, <1>6, <2>1, <2>2
<1> QED BY <1>6, <1>7, <1>8 DEF RowsTyped

LEMMA InsertInv ==
  ASSUME SparkInv, program' = program, program # "load-fifo", InsertWorker
  PROVE  SparkInv'
<1>1. /\ mainPc = "insert" /\ servers < NumWorkers /\ servers' = servers + 1
      /\ UNCHANGED <<mainPc, runTaskQueueThread, clientVars, taskQueue, queueVars, rpcs,
                     finishVars, executed>>
      /\ InsertSparkWorker(servers, WorkerCapacity, servers, servers % Partitions)
  BY DEF InsertWorker
<1>2. servers = Len(Worker) /\ servers \in Nat /\ servers \in Workers
  BY <1>1, InvRows, ZeroWorker DEF SparkInv, RowsInOrder, Workers
<1>3. /\ RowsTyped' /\ Len(Worker') = servers'
      /\ \A i \in DOMAIN Worker' : Worker'[i].Capacity = WorkerCapacity
  BY <1>1, <1>2, AppendRow DEF InsertSparkWorker
<1>4. servers' \in 0 .. NumWorkers
  BY <1>1, <1>2, ZeroWorker
<1>5. Passes
  BY <1>1, <1>4 DEF Passes, SparkInv, SparkTypeOK, MainPcs, clientVars, queueVars, finishVars
<1>6. SettingUp /\ mainPc' = "insert"
  BY <1>1 DEF SettingUp
<1> QED BY <1>3, <1>5, <1>6, PassInv

LEMMA InsertFailsInv ==
  ASSUME SparkInv, program' = program, program # "load-fifo", InsertWorkerFails
  PROVE  SparkInv'
<1>1. /\ mainPc = "insert" /\ servers < NumWorkers /\ Die("exited")
      /\ \/ InsertSparkWorker(servers, WorkerCapacity, servers, servers % Partitions)
         \/ UNCHANGED tables
  BY DEF InsertWorkerFails
<1>2. servers = Len(Worker) /\ servers \in Workers
  BY <1>1, InvRows, ZeroWorker DEF SparkInv, RowsInOrder, Workers
<1>3. RowsTyped'
  BY <1>1, <1>2, AppendRow, InvRows DEF InsertSparkWorker, RowsTyped, tables
<1> QED BY <1>1, <1>3, DieInv

LEMMA FifoRow ==
  ASSUME SparkInv, mainPc = "insert", Len(Worker) < NumWorkers, InsertFifoWorker
  PROVE  RowsTyped' /\ \A i \in DOMAIN Worker' : Worker'[i].Capacity = WorkerCapacity
BY AppendRow, ZeroWorker DEF InsertFifoWorker

\* The rows stay as they are.
LEMMA SameRows ==
  ASSUME SparkInv, UNCHANGED tables
  PROVE  RowsTyped'
BY InvRows DEF RowsTyped, tables

\* A step of main that changes no table.
LEMMA MainMoves ==
  ASSUME SparkInv, Passes, UNCHANGED tables, mainPc' \notin {"truncate", "insert"},
         SettingUp' => SettingUp, mainPc' = "run" => SettingUp
  PROVE  SparkInv'
<1>1. Worker' = Worker /\ RowsTyped'
  BY SameRows DEF tables
<1>2. SettingUp => \A i \in DOMAIN Worker : Worker[i].Capacity = WorkerCapacity
  BY DEF SparkInv, SetupQuiet
<1> QED BY <1>1, <1>2, PassInv

LEMMA FifoSetupInv ==
  ASSUME SparkInv, program' = program, program = "load-fifo", FifoSetup
  PROVE  SparkInv'
<1>1. CASE Truncate("truncate", "insert")
  BY <1>1, TruncateInv
<1>2. CASE mainPc = "insert" /\ Len(Worker) < NumWorkers /\ InsertFifoWorker /\ UNCHANGED notTables
  <2>1. Passes /\ mainPc' = "insert"
    BY <1>2 DEF Passes, SparkInv, SparkTypeOK, MainPcs, clientVars, queueVars, finishVars,
                notTables, mainVars
  <2>2. SettingUp
    BY <1>2 DEF SettingUp
  <2> QED BY <1>2, <2>1, <2>2, FifoRow, PassInv
<1>3. CASE /\ mainPc = "insert" /\ Len(Worker) = NumWorkers /\ mainPc' = "join"
           /\ UNCHANGED <<tables, servers, runTaskQueueThread, clientVars, taskQueue, queueVars,
                          rpcs, finishVars, executed>>
  <2>1. Passes
    BY <1>3 DEF Passes, SparkInv, SparkTypeOK, MainPcs, clientVars, queueVars, finishVars
  <2>2. SettingUp
    BY <1>3 DEF SettingUp
  <2> QED BY <1>3, <2>1, <2>2, MainMoves
<1> QED BY <1>1, <1>2, <1>3 DEF FifoSetup

LEMMA SetupDoneInv ==
  ASSUME SparkInv, program' = program,
         (program = "test" /\ SetupDone("run")) \/ (program # "test" /\ SetupDone("shutdown"))
  PROVE  SparkInv'
<1>1. /\ mainPc = "insert" /\ mainPc' \in {"run", "shutdown"}
      /\ UNCHANGED <<tables, servers, runTaskQueueThread, clientVars, taskQueue, queueVars,
                     rpcs, finishVars, executed>>
  BY DEF SetupDone
<1>2. Passes /\ SettingUp
  BY <1>1 DEF Passes, SparkInv, SparkTypeOK, MainPcs, clientVars, queueVars, finishVars, SettingUp
<1> QED BY <1>1, <1>2, MainMoves

LEMMA DestructorInv ==
  ASSUME SparkInv, program' = program,
         \/ Shutdown \/ NotifyQueueThread \/ Join \/ RunDone \/ JoinClients
         \/ (EndServing("shutdown") /\ program = "test") \/ EndServing("done")
  PROVE  SparkInv'
<1>1. /\ \/ mainPc = "shutdown" /\ mainPc' = "notify"
         \/ mainPc = "notify" /\ mainPc' = "join"
         \/ mainPc' \in {"done", "teardown"}
         \/ mainPc' = "shutdown" /\ program = "test"
      /\ UNCHANGED <<tables, clientVars, taskQueue, chosen, rpcs, finishVars, executed>>
      /\ queuePc' = queuePc \/ (queuePc = "waiting" /\ queuePc' = "woken")
      /\ servers' = servers \/ servers' = 0
      /\ runTaskQueueThread' = runTaskQueueThread \/ runTaskQueueThread' = FALSE
  BY DEF Shutdown, NotifyQueueThread, Join, RunDone, JoinClients, EndServing, queueVars
<1>2. servers' \in 0 .. NumWorkers
  BY <1>1, ZeroWorker DEF SparkInv, SparkTypeOK
<1>3. Passes
  BY <1>1, <1>2 DEF Passes, SparkInv, SparkTypeOK, MainPcs, clientVars, finishVars
<1>4. SettingUp' => SettingUp
  BY <1>1 DEF SettingUp
<1> QED BY <1>1, <1>3, <1>4, MainMoves

LEMMA StartSchedulerInv ==
  ASSUME SparkInv, program' = program, program # "test", StartScheduler
  PROVE  SparkInv'
<1>1. SettingUp
  BY DEF StartScheduler, SettingUp
<1>2. taskIDs' \in Int
  BY SparkAssumption DEF StartScheduler
<1>3. Passes
  BY <1>1, <1>2 DEF StartScheduler, Passes, SparkInv, SparkTypeOK, MainPcs
<1>4. UNCHANGED tables /\ mainPc' = "run" /\ ~SettingUp'
  BY DEF StartScheduler, SettingUp
<1> QED BY <1>1, <1>3, <1>4, MainMoves
-----------------------------------------------------------------------------
(* Clients, and the threads of the scheduler, at work.                     *)

\* What these steps leave alone in main and in the tables.
LEMMA WorkFrame ==
  ASSUME SparkInv, UNCHANGED <<mainVars, program>>, ~SettingUp, RowsTyped'
  PROVE  SetupQuiet' /\ RowsInOrder' /\ ~SettingUp'
<1>1. ~SettingUp'
  BY DEF SettingUp, mainVars
<1>2. mainPc' \notin {"truncate", "insert"}
  BY DEF SettingUp, mainVars
<1> QED BY <1>1, <1>2 DEF SetupQuiet, RowsInOrder, RowsTyped

\* The same tasks hold the same capacity.
LEMMA CapacityFrame ==
  ASSUME SparkInv, UNCHANGED <<mainVars, Worker>>, \A w \in Workers : Assigned(w)' = Assigned(w)
  PROVE  SparkCapacity'
<1>1. \A i \in DOMAIN Worker : Worker[i].WorkerID \in Workers
  BY InvRows DEF SparkRow
<1> QED BY <1>1 DEF SparkInv, SparkCapacity, mainVars

LEMMA FrontIs ==
  ASSUME SparkInv, taskQueue # <<>>
  PROVE  /\ 1 \in DOMAIN taskQueue /\ FrontTask = clientTask[taskQueue[1]]
         /\ taskQueue[1] \in Clients /\ FrontTask \in TaskData
<1>1. taskQueue \in Seq(Clients) /\ clientTask \in [Clients -> TaskData]
  BY DEF SparkInv, SparkTypeOK
<1>2. 1 \in DOMAIN taskQueue /\ Head(taskQueue) = taskQueue[1] /\ taskQueue[1] \in Clients
  BY <1>1
<1> QED BY <1>1, <1>2 DEF FrontTask

LEMMA ScheduleInv ==
  ASSUME SparkInv, program' = program, NEW c \in Clients, Schedule(c)
  PROVE  SparkInv'
<1>1. PICK d \in Workers :
        clientTask' = [clientTask EXCEPT ![c] = [taskID |-> taskIDs, targetData |-> d]]
  BY DEF Schedule
<1>2. /\ mainPc = "run" /\ clientPc[c] = "idle" /\ taskIDs' = taskIDs + 1 /\ calls' = calls + 1
      /\ clientPc' = [clientPc EXCEPT ![c] = "enqueue"]
      /\ UNCHANGED <<tables, mainVars, taskQueue, queueVars, rpcs, finishVars, executed>>
  BY DEF Schedule
<1>3. /\ taskIDs \in Int /\ calls \in Nat /\ clientTask \in [Clients -> TaskData]
      /\ clientPc \in [Clients -> {"idle", "enqueue", "check", "recheck", "asleep", "dead"}]
      /\ taskQueue \in Seq(Clients) /\ rpcs \subseteq Rpc /\ taskCompletionSet \subseteq Int
  BY DEF SparkInv, SparkTypeOK
<1>4. clientTask'[c].taskID = taskIDs /\ \A e \in Clients \ {c} : clientTask'[e] = clientTask[e]
  BY <1>1, <1>3
<1>5. clientPc'[c] = "enqueue" /\ \A e \in Clients \ {c} : clientPc'[e] = clientPc[e]
  BY <1>2, <1>3
<1>6. SparkTypeOK'
  <2>1. [taskID |-> taskIDs, targetData |-> d] \in TaskData
    BY <1>3 DEF TaskData
  <2>2. clientTask' \in [Clients -> TaskData]
    BY <1>1, <1>3, <2>1
  <2>3. clientPc' \in [Clients -> {"idle", "enqueue", "check", "recheck", "asleep", "dead"}]
    BY <1>2, <1>3
  <2>4. taskIDs' \in Int /\ calls' \in Nat
    BY <1>2, <1>3
  <2> QED BY <1>2, <2>2, <2>3, <2>4
        DEF SparkInv, SparkTypeOK, tables, mainVars, queueVars, finishVars
<1>7. SetupQuiet' /\ RowsInOrder'
  <2>1. ~SettingUp
    BY <1>2 DEF SettingUp
  <2> QED BY <1>2, <2>1, SameRows, WorkFrame
<1>8. /\ \A r \in rpcs : r.taskID < taskIDs /\ r.taskID \in Int
      /\ \A id \in taskCompletionSet : id < taskIDs
      /\ \A e \in Clients : Inside(e) => clientTask[e].taskID < taskIDs /\ clientTask[e].taskID \in Int
  BY <1>3 DEF SparkInv, IdsDistinct, Rpc, TaskData
<1>9. IdsDistinct'
  <2>1. \A e \in Clients : Inside(e)' => e = c \/ (Inside(e) /\ e # c)
    BY <1>5 DEF Inside
  <2>2. ASSUME NEW e \in Clients, Inside(e)' PROVE clientTask'[e].taskID < taskIDs'
    BY <1>2, <1>3, <1>4, <1>8, <2>1, <2>2
  <2>3. ASSUME NEW e \in Clients, NEW f \in Clients, Inside(e)', Inside(f)',
               clientTask'[e].taskID = clientTask'[f].taskID
        PROVE  e = f
    <3>1. CASE e = c
      BY <1>3, <1>4, <1>8, <2>1, <2>3, <3>1
    <3>2. CASE f = c
      BY <1>3, <1>4, <1>8, <2>1, <2>3, <3>2
    <3>3. CASE e # c /\ f # c
      BY <1>4, <2>1, <2>3, <3>3 DEF SparkInv, IdsDistinct
    <3> QED BY <3>1, <3>2, <3>3
  <2>4. \A r \in rpcs : r.taskID < taskIDs'
    BY <1>2, <1>3, <1>8
  <2>5. \A id \in taskCompletionSet : id < taskIDs'
    BY <1>2, <1>3, <1>8
  <2>6. rpcs' = rpcs /\ taskCompletionSet' = taskCompletionSet
    BY <1>2 DEF finishVars
  <2> QED BY <2>2, <2>3, <2>4, <2>5, <2>6 DEF SparkInv, IdsDistinct
<1>10. QueuedOnce'
  <2>1. taskQueue' = taskQueue /\ rpcs' = rpcs /\ taskCompletionSet' = taskCompletionSet
        /\ queuePc' = queuePc
    BY <1>2 DEF finishVars, queueVars
  <2>2. taskIDs \notin taskCompletionSet \cup InFlight
    BY <1>3, <1>8 DEF InFlight
  <2>3. \A i \in DOMAIN taskQueue : taskQueue[i] \in Clients
    BY <1>3
  <2>4. \A i \in DOMAIN taskQueue :
          clientPc[taskQueue[i]] \in {"check", "recheck", "asleep"} => taskQueue[i] # c
    BY <1>2
  <2>5. InFlight' = InFlight
    BY <2>1 DEF InFlight
  <2>6. \A e \in Clients : clientPc'[e] = "enqueue" =>
          clientTask'[e].taskID \notin taskCompletionSet' \cup InFlight'
    BY <1>4, <1>5, <2>1, <2>2, <2>5 DEF SparkInv, QueuedOnce
  <2> QED BY <1>4, <1>5, <2>1, <2>3, <2>4, <2>5, <2>6 DEF SparkInv, QueuedOnce
<1>11. ExecutedFirst'
  BY <1>2 DEF SparkInv, ExecutedFirst, finishVars
<1>12. SparkCapacity'
  <2>1. queuePc = "assign" => FrontTask' = FrontTask
    <3> SUFFICES ASSUME queuePc = "assign" PROVE FrontTask' = FrontTask
      OBVIOUS
    <3>1. taskQueue # <<>>
      BY DEF SparkInv, QueuedOnce
    <3>2. clientPc[taskQueue[1]] \in {"check", "recheck", "asleep"} /\ taskQueue[1] \in Clients
      BY <3>1, FrontIs DEF SparkInv, QueuedOnce
    <3>3. Head(taskQueue) = taskQueue[1]
      BY <1>3, <3>1
    <3> QED BY <1>2, <1>4, <3>2, <3>3 DEF FrontTask
  <2>2. \A w \in Workers : Assigned(w)' = Assigned(w)
    BY <1>2, <2>1 DEF Assigned, queueVars, finishVars
  <2> QED BY <1>2, <2>2, CapacityFrame DEF tables
<1>13. IsFiniteSet(rpcs')
  BY <1>2 DEF SparkInv
<1> QED BY <1>6, <1>7, <1>9, <1>10, <1>11, <1>12, <1>13 DEF SparkInv

LEMMA BusyNotSettingUp ==
  ASSUME SparkInv
  PROVE  /\ \A c \in Clients : clientPc[c] # "idle" => ~SettingUp
         /\ taskQueue # <<>> => ~SettingUp
         /\ rpcs # {} => ~SettingUp
         /\ finishPc = "update" => ~SettingUp
BY DEF SparkInv, SetupQuiet

LEMMA EnqueueInv ==
  ASSUME SparkInv, program' = program, NEW c \in Clients, Enqueue(c)
  PROVE  SparkInv'
<1>1. /\ clientPc[c] = "enqueue" /\ ProcessMutexFree
      /\ taskQueue' = Append(taskQueue, c)
      /\ queuePc' = IF queuePc = "waiting" THEN "woken" ELSE queuePc
      /\ clientPc' = [clientPc EXCEPT ![c] = "check"]
      /\ UNCHANGED <<tables, mainVars, taskIDs, calls, clientTask, chosen, rpcs, finishVars,
                     executed>>
  BY DEF Enqueue
<1>2. /\ clientPc \in [Clients -> {"idle", "enqueue", "check", "recheck", "asleep", "dead"}]
      /\ taskQueue \in Seq(Clients)
      /\ queuePc \in {"start", "waiting", "woken", "drain", "assign", "pop", "returned"}
  BY DEF SparkInv, SparkTypeOK
<1>3. queuePc \notin {"drain", "assign", "pop"} /\ queuePc' \notin {"drain", "assign", "pop"}
  BY <1>1 DEF ProcessMutexFree
<1>4. clientPc'[c] = "check" /\ \A e \in Clients \ {c} : clientPc'[e] = clientPc[e]
  BY <1>1, <1>2
<1>5. /\ taskQueue' \in Seq(Clients) /\ Len(taskQueue) \in Nat
      /\ DOMAIN taskQueue = 1 .. Len(taskQueue) /\ DOMAIN taskQueue' = 1 .. Len(taskQueue) + 1
      /\ \A i \in DOMAIN taskQueue : taskQueue'[i] = taskQueue[i] /\ taskQueue[i] \in Clients
      /\ taskQueue'[Len(taskQueue) + 1] = c
  BY <1>1, <1>2
<1>6. \A i \in DOMAIN taskQueue' : i \in DOMAIN taskQueue \/ i = Len(taskQueue) + 1
  BY <1>5
<1>7. \A i \in DOMAIN taskQueue :
        /\ clientPc[taskQueue[i]] \in {"check", "recheck", "asleep"}
        /\ clientTask[taskQueue[i]].taskID \notin taskCompletionSet \cup InFlight
  BY <1>3 DEF SparkInv, QueuedOnce
<1>8. \A i \in DOMAIN taskQueue : taskQueue[i] # c
  BY <1>1, <1>7
<1>9. SparkTypeOK'
  <2>1. clientPc' \in [Clients -> {"idle", "enqueue", "check", "recheck", "asleep", "dead"}]
    BY <1>1, <1>2
  <2>2. queuePc' \in {"start", "waiting", "woken", "drain", "assign", "pop", "returned"}
    BY <1>1, <1>2
  <2> QED BY <1>1, <1>5, <2>1, <2>2 DEF SparkInv, SparkTypeOK, tables, mainVars, finishVars
<1>10. SetupQuiet' /\ RowsInOrder'
  <2>1. ~SettingUp
    BY <1>1, BusyNotSettingUp
  <2> QED BY <1>1, <2>1, SameRows, WorkFrame
<1>11. IdsDistinct'
  <2>1. \A e \in Clients : Inside(e)' <=> Inside(e)
    BY <1>1, <1>4 DEF Inside
  <2> QED BY <1>1, <2>1 DEF SparkInv, IdsDistinct, finishVars
<1>12. QueuedOnce'
  <2>1. InFlight' = InFlight /\ taskCompletionSet' = taskCompletionSet /\ clientTask' = clientTask
    BY <1>1 DEF InFlight, finishVars
  <2>2. clientTask[c].taskID \notin taskCompletionSet \cup InFlight
    BY <1>1 DEF SparkInv, QueuedOnce
  <2>3. \A e \in Clients : clientPc'[e] = "enqueue" =>
          clientTask'[e].taskID \notin taskCompletionSet' \cup InFlight'
    BY <1>4, <2>1 DEF SparkInv, QueuedOnce
  <2>4. ASSUME NEW i \in DOMAIN taskQueue'
        PROVE  /\ clientPc'[taskQueue'[i]] \in {"check", "recheck", "asleep"}
               /\ clientTask'[taskQueue'[i]].taskID \notin taskCompletionSet' \cup InFlight'
    <3>1. CASE i \in DOMAIN taskQueue
      BY <1>4, <1>5, <1>7, <1>8, <2>1, <3>1
    <3>2. CASE i = Len(taskQueue) + 1
      BY <1>4, <1>5, <2>1, <2>2, <3>2
    <3> QED BY <1>6, <3>1, <3>2
  <2>5. ASSUME NEW i \in DOMAIN taskQueue', NEW j \in DOMAIN taskQueue', taskQueue'[i] = taskQueue'[j]
        PROVE  i = j
    BY <1>5, <1>6, <1>8, <2>5 DEF SparkInv, QueuedOnce
  <2> QED BY <1>3, <2>3, <2>4, <2>5 DEF QueuedOnce
<1>13. ExecutedFirst'
  BY <1>1 DEF SparkInv, ExecutedFirst, finishVars
<1>14. SparkCapacity'
  <2>1. \A w \in Workers : Assigned(w)' = Assigned(w)
    BY <1>1, <1>3 DEF Assigned, finishVars
  <2> QED BY <1>1, <2>1, CapacityFrame DEF tables
<1>15. IsFiniteSet(rpcs')
  BY <1>1 DEF SparkInv
<1> QED BY <1>9, <1>10, <1>11, <1>12, <1>13, <1>14, <1>15 DEF SparkInv

LEMMA ClientMoves ==
  ASSUME SparkInv, program' = program, NEW c \in Clients,
         clientPc[c] \in {"check", "recheck", "asleep"},
         NEW p \in {"idle", "recheck", "asleep"},
         p = "idle" => clientTask[c].taskID \in taskCompletionSet,
         clientPc' = [clientPc EXCEPT ![c] = p],
         UNCHANGED <<tables, mainVars, taskIDs, calls, clientTask, taskQueue, queueVars, rpcs,
                     finishVars, executed>>
  PROVE  SparkInv'
<1>1. /\ clientPc \in [Clients -> {"idle", "enqueue", "check", "recheck", "asleep", "dead"}]
      /\ taskQueue \in Seq(Clients)
  BY DEF SparkInv, SparkTypeOK
<1>2. clientPc'[c] = p /\ \A e \in Clients \ {c} : clientPc'[e] = clientPc[e]
  BY <1>1
<1>3. SparkTypeOK'
  <2>1. clientPc' \in [Clients -> {"idle", "enqueue", "check", "recheck", "asleep", "dead"}]
    BY <1>1
  <2> QED BY <2>1 DEF SparkInv, SparkTypeOK, tables, mainVars, finishVars, queueVars
<1>4. SetupQuiet' /\ RowsInOrder'
  <2>1. ~SettingUp
    BY BusyNotSettingUp
  <2> QED BY <2>1, SameRows, WorkFrame
<1>5. IdsDistinct'
  <2>1. \A e \in Clients : Inside(e)' => Inside(e)
    BY <1>2 DEF Inside
  <2> QED BY <2>1 DEF SparkInv, IdsDistinct, finishVars
<1>6. QueuedOnce'
  <2>1. /\ InFlight' = InFlight /\ taskCompletionSet' = taskCompletionSet
        /\ clientTask' = clientTask /\ taskQueue' = taskQueue /\ queuePc' = queuePc
    BY DEF InFlight, finishVars, queueVars
  <2>2. \A e \in Clients : clientPc'[e] = "enqueue" => clientPc[e] = "enqueue"
    BY <1>2
  <2>3. \A i \in DOMAIN taskQueue : taskQueue[i] \in Clients
    BY <1>1
  <2>4. ASSUME NEW i \in DOMAIN taskQueue, ~(i = 1 /\ queuePc = "pop")
        PROVE  clientPc'[taskQueue[i]] \in {"check", "recheck", "asleep"}
    BY <1>2, <2>3, <2>4 DEF SparkInv, QueuedOnce
  <2> QED BY <2>1, <2>2, <2>4 DEF SparkInv, QueuedOnce
<1>7. ExecutedFirst'
  BY DEF SparkInv, ExecutedFirst, finishVars
<1>8. SparkCapacity'
  <2>1. \A w \in Workers : Assigned(w)' = Assigned(w)
    BY DEF Assigned, finishVars, queueVars, FrontTask
  <2> QED BY <2>1, CapacityFrame DEF tables
<1>9. IsFiniteSet(rpcs')
  BY DEF SparkInv
<1> QED BY <1>3, <1>4, <1>5, <1>6, <1>7, <1>8, <1>9 DEF SparkInv

LEMMA ClientInv ==
  ASSUME SparkInv, program' = program, NEW c \in Clients,
         Enqueue(c) \/ CheckCompletion(c) \/ ClientWakes(c)
  PROVE  SparkInv'
<1>1. CASE Enqueue(c)
  BY <1>1, EnqueueInv
<1>2. CASE CheckCompletion(c)
  <2>1. PICK p : /\ p = IF clientTask[c].taskID \in taskCompletionSet THEN "idle" ELSE "asleep"
                 /\ clientPc' = [clientPc EXCEPT ![c] = p]
    BY <1>2 DEF CheckCompletion
  <2> QED BY <1>2, <2>1, ClientMoves DEF CheckCompletion
<1>3. CASE ClientWakes(c)
  BY <1>3, ClientMoves DEF ClientWakes
<1> QED BY <1>1, <1>2, <1>3
-----------------------------------------------------------------------------
(* Capacity, taken by the queue thread and given back by the reply thread. *)

LEMMA SetsCapacity ==
  ASSUME SparkInv, NEW w \in Workers, NEW c \in Int, SetCapacity(w % Partitions, w, c),
         UNCHANGED DataLocation
  PROVE  /\ RowsTyped' /\ DOMAIN Worker' = DOMAIN Worker
         /\ \A i \in DOMAIN Worker :
              /\ Worker'[i].WorkerID = Worker[i].WorkerID
              /\ Worker'[i].Capacity = IF Worker[i].WorkerID = w THEN c ELSE Worker[i].Capacity
<1>1. /\ Worker \in Seq(SparkRow) /\ DataLocation \subseteq [DataShard : Workers, PKey : Nat]
      /\ \A i \in DOMAIN Worker : /\ Worker[i] \in SparkRow
                                  /\ Worker[i].WorkerID = i - 1 /\ Worker[i].PKey = (i - 1) % Partitions
      /\ DOMAIN Worker = 1 .. Len(Worker) /\ Len(Worker) \in Nat
  BY InvRows DEF RowsTyped
<1>2. ASSUME NEW i \in DOMAIN Worker
      PROVE  /\ Worker'[i] \in SparkRow /\ Worker'[i].WorkerID = Worker[i].WorkerID
             /\ Worker'[i].PKey = Worker[i].PKey
             /\ Worker'[i].Capacity = IF Worker[i].WorkerID = w THEN c ELSE Worker[i].Capacity
  <2>1. Worker[i] \in SparkRow
    BY <1>1
  <2>2. Worker[i].WorkerID = w => Worker[i].PKey = w % Partitions
    BY <1>1
  <2>3. CASE Worker[i].WorkerID = w
    <3>1. Worker'[i] = [Worker[i] EXCEPT !.Capacity = c]
      BY <2>2, <2>3 DEF SetCapacity
    <3> QED BY <2>1, <2>3, <3>1 DEF SparkRow
  <2>4. CASE Worker[i].WorkerID # w
    <3>1. Worker'[i] = Worker[i]
      BY <2>4 DEF SetCapacity
    <3> QED BY <2>1, <2>4, <3>1
  <2> QED BY <2>3, <2>4
<1>3. DOMAIN Worker' = DOMAIN Worker
  BY DEF SetCapacity
<1>4. Worker' \in [1 .. Len(Worker) -> SparkRow]
  BY <1>1, <1>2 DEF SetCapacity
<1>5. Worker' \in Seq(SparkRow)
  BY <1>1, <1>4
<1> QED BY <1>1, <1>2, <1>3, <1>5 DEF RowsTyped

LEMMA AssignedFinite ==
  ASSUME SparkInv, NEW w
  PROVE  IsFiniteSet(Assigned(w)) /\ Cardinality(Assigned(w)) \in Nat
<1> DEFINE Q == {q \in rpcs : q.workerID = w}
           T == {r.taskID : r \in Q}
<1>1. IsFiniteSet(Q)
  BY FS_Subset DEF SparkInv
<1>2. [r \in Q |-> r.taskID] \in Surjection(Q, T)
  BY DEF Surjection
<1>3. IsFiniteSet(T)
  BY <1>1, <1>2, FS_Surjection
<1>4. IsFiniteSet(T \cup {FrontTask.taskID}) /\ IsFiniteSet(T \cup {finishing.taskID})
      /\ IsFiniteSet((T \cup {FrontTask.taskID}) \cup {finishing.taskID})
  BY <1>3, FS_AddElement
<1>5. Assigned(w) \subseteq (T \cup {FrontTask.taskID}) \cup {finishing.taskID}
  BY DEF Assigned
<1>6. IsFiniteSet(Assigned(w))
  BY <1>4, <1>5, FS_Subset
<1> QED BY <1>6, FS_CardinalityType

\* Members of InFlight and of Assigned, as the proofs use them.
LEMMA AssignedIs ==
  ASSUME NEW w
  PROVE  \A id : id \in Assigned(w) <=>
           \/ \E r \in rpcs : r.workerID = w /\ r.taskID = id
           \/ queuePc = "assign" /\ chosen = w /\ id = FrontTask.taskID
           \/ finishPc = "update" /\ finishing.workerID = w /\ id = finishing.taskID
BY DEF Assigned

\* A row's share of SparkCapacity, for the worker it belongs to.
RowOK(k, w) ==
  Worker[k].WorkerID = w =>
    /\ Worker[k].Capacity >= 0
    /\ Worker[k].Capacity + Cardinality(Assigned(w)) <= WorkerCapacity
    /\ ~AllowFailures => Worker[k].Capacity + Cardinality(Assigned(w)) = WorkerCapacity

LEMMA CapacityIs ==
  RowsTyped =>
    (SparkCapacity <=> (mainPc = "run" => \A k \in DOMAIN Worker, w \in Workers : RowOK(k, w)))
<1> SUFFICES ASSUME RowsTyped
    PROVE  SparkCapacity <=> (mainPc = "run" => \A k \in DOMAIN Worker, w \in Workers : RowOK(k, w))
  OBVIOUS
<1>1. \A k \in DOMAIN Worker : Worker[k].WorkerID \in Workers
  <2>1. \A k \in DOMAIN Worker : Worker[k] \in SparkRow
    BY DEF RowsTyped
  <2> QED BY <2>1 DEF SparkRow
<1> QED BY <1>1 DEF SparkCapacity, RowOK

LEMMA CapacityStep ==
  ASSUME SparkInv, RowsTyped', UNCHANGED mainVars, DOMAIN Worker' = DOMAIN Worker,
         mainPc = "run" => \A k \in DOMAIN Worker, w \in Workers : RowOK(k, w) => RowOK(k, w)'
  PROVE  SparkCapacity'
<1>1. mainPc = "run" => \A k \in DOMAIN Worker, w \in Workers : RowOK(k, w)
  BY InvRows, CapacityIs DEF SparkInv
<1>2. (mainPc = "run" => \A k \in DOMAIN Worker, w \in Workers : RowOK(k, w))'
  BY <1>1 DEF mainVars
<1> QED BY <1>2, CapacityIs, PTL

LEMMA StillInv ==
  ASSUME SparkInv, UNCHANGED vars, program' = program
  PROVE  SparkInv'
<1>1. UNCHANGED <<Worker, DataLocation, mainPc, servers, runTaskQueueThread, taskIDs, calls,
                  clientPc, clientTask, taskQueue, queuePc, chosen, rpcs, finishPc, finishing,
                  taskCompletionSet, executed>>
  BY DEF vars, tables, mainVars, clientVars, queueVars, finishVars
<1>2. SparkTypeOK' /\ IsFiniteSet(rpcs') /\ program' \in {"test", "load", "load-fifo"}
  BY <1>1 DEF SparkInv, SparkTypeOK
<1>3. SetupQuiet' /\ RowsInOrder'
  BY <1>1 DEF SparkInv, SetupQuiet, RowsInOrder, SettingUp
<1>4. IdsDistinct' /\ QueuedOnce' /\ ExecutedFirst'
  BY <1>1 DEF SparkInv, IdsDistinct, QueuedOnce, ExecutedFirst, Inside, InFlight
<1>5. SparkCapacity'
  <2>1. \A w \in Workers : Assigned(w)' = Assigned(w)
    BY <1>1 DEF Assigned, FrontTask
  <2> QED BY <1>1, <2>1, CapacityFrame DEF mainVars
<1> QED BY <1>2, <1>3, <1>4, <1>5 DEF SparkInv

\* A partition of the data and a worker in it: the procedure takes a unit of a
\* worker that has one.
LEMMA SelectTakes ==
  ASSUME SparkInv, NEW p, NEW d, NEW w \in Workers, SelectSparkWorker(p, d, w)
  PROVE  \E i \in DOMAIN Worker :
           /\ Worker[i].WorkerID = w /\ Worker[i].Capacity > 0 /\ Worker[i].Capacity - 1 \in Int
           /\ SetCapacity(w % Partitions, w, Worker[i].Capacity - 1) /\ UNCHANGED DataLocation
<1>1. w # -1
  BY ZeroWorker DEF Workers
<1>2. PICK i \in DOMAIN Worker :
        /\ Worker[i].PKey = p /\ Worker[i].Capacity > 0 /\ w = Worker[i].WorkerID
        /\ SetCapacity(p, w, Worker[i].Capacity - 1) /\ UNCHANGED DataLocation
  BY <1>1 DEF SelectSparkWorker
<1>3. Worker[i] \in SparkRow /\ Worker[i].WorkerID = i - 1 /\ Worker[i].PKey = (i - 1) % Partitions
  BY InvRows DEF RowsTyped
<1>4. Worker[i].Capacity - 1 \in Int
  BY <1>3 DEF SparkRow
<1> QED BY <1>2, <1>3, <1>4

LEMMA SelectInv ==
  ASSUME SparkInv, program' = program, SelectWorker
  PROVE  SparkInv'
<1>1. PICK p \in SelectDataShardPartition(FrontTask.targetData), w \in Workers \cup {-1} :
        /\ SelectSparkWorker(p, FrontTask.targetData, w)
        /\ IF w = -1 THEN UNCHANGED queueVars ELSE queuePc' = "assign" /\ chosen' = w
  BY DEF SelectWorker
<1>2. /\ queuePc = "drain" /\ taskQueue # <<>>
      /\ UNCHANGED <<mainVars, clientVars, taskQueue, rpcs, finishVars, executed>>
  BY DEF SelectWorker
<1>3. ~SettingUp
  BY <1>2, BusyNotSettingUp
<1>4. CASE w \in Workers
  <2>1. PICK i \in DOMAIN Worker :
          /\ Worker[i].WorkerID = w /\ Worker[i].Capacity > 0 /\ Worker[i].Capacity - 1 \in Int
          /\ SetCapacity(w % Partitions, w, Worker[i].Capacity - 1) /\ UNCHANGED DataLocation
    BY <1>1, <1>4, SelectTakes
  <2>2. /\ RowsTyped' /\ DOMAIN Worker' = DOMAIN Worker
        /\ \A k \in DOMAIN Worker :
             /\ Worker'[k].WorkerID = Worker[k].WorkerID
             /\ Worker'[k].Capacity = IF Worker[k].WorkerID = w THEN Worker[i].Capacity - 1
                                      ELSE Worker[k].Capacity
    BY <1>4, <2>1, SetsCapacity
  <2>3. queuePc' = "assign" /\ chosen' = w
    BY <1>1, <1>4, ZeroWorker DEF Workers
  <2>4. SparkTypeOK'
    BY <1>2, <1>4, <2>2, <2>3
       DEF SparkInv, SparkTypeOK, RowsTyped, SparkRow, mainVars, clientVars, finishVars
  <2>5. SetupQuiet' /\ RowsInOrder'
    BY <1>2, <1>3, <2>2, WorkFrame
  <2>6. IdsDistinct'
    BY <1>2 DEF SparkInv, IdsDistinct, Inside, clientVars, finishVars
  <2>7. QueuedOnce'
    <3>1. InFlight' = InFlight
      BY <1>2 DEF InFlight
    <3> QED BY <1>2, <2>3, <3>1 DEF SparkInv, QueuedOnce, clientVars, finishVars
  <2>8. ExecutedFirst' /\ IsFiniteSet(rpcs')
    BY <1>2 DEF SparkInv, ExecutedFirst, finishVars
  <2>9. SparkCapacity'
    <3>1. FrontTask.taskID \notin taskCompletionSet \cup InFlight
      BY <1>2, FrontIs DEF SparkInv, QueuedOnce
    <3>2. finishPc = "update" => finishing.taskID \in taskCompletionSet
      BY DEF SparkInv, ExecutedFirst
    <3>3. FrontTask' = FrontTask
      BY <1>2 DEF FrontTask, clientVars
    <3>4. ASSUME NEW v \in Workers
          PROVE  Assigned(v)' = IF v = w THEN Assigned(v) \cup {FrontTask.taskID} ELSE Assigned(v)
      BY <1>2, <2>3, <3>3 DEF Assigned, finishVars
    <3>5. FrontTask.taskID \notin Assigned(w)
      BY <1>2, <3>1, <3>2 DEF Assigned, InFlight
    <3>6. ASSUME mainPc = "run", NEW k \in DOMAIN Worker, NEW v \in Workers, RowOK(k, v)
          PROVE  RowOK(k, v)'
      <4>1. Worker[k] \in SparkRow /\ Worker[i] \in SparkRow
        BY InvRows
      <4>2. CASE Worker[k].WorkerID = w /\ v = w
        <5>1. k = i
          BY <2>1, <4>2, InvRows DEF RowsTyped
        <5>2. PICK n \in Nat : n = Cardinality(Assigned(w))
          BY AssignedFinite
        <5>3. Cardinality(Assigned(w)') = n + 1
          BY <1>4, <3>4, <3>5, <5>2, AssignedFinite, FS_AddElement
        <5>4. Worker'[k].Capacity = Worker[k].Capacity - 1 /\ Worker[k].Capacity > 0
          BY <2>1, <2>2, <4>2, <5>1
        <5>5. PICK x \in Int : x = Worker[k].Capacity
          BY <4>1 DEF SparkRow
        <5> QED BY <3>6, <4>2, <5>2, <5>3, <5>4, <5>5, SparkAssumption DEF RowOK
      <4>3. CASE Worker[k].WorkerID = v /\ v # w
        <5>1. Worker'[k].Capacity = Worker[k].Capacity /\ Assigned(v)' = Assigned(v)
          BY <2>2, <3>4, <4>3
        <5> QED BY <3>6, <4>3, <5>1 DEF RowOK
      <4>4. CASE Worker[k].WorkerID # v
        BY <2>2, <4>4 DEF RowOK
      <4> QED BY <4>2, <4>3, <4>4
    <3> QED BY <1>2, <2>2, <3>6, CapacityStep
  <2> QED BY <2>4, <2>5, <2>6, <2>7, <2>8, <2>9 DEF SparkInv
<1>5. CASE w = -1
  <2>1. \A i \in DOMAIN Worker : Worker[i].WorkerID # -1
    BY InvRows, ZeroWorker DEF SparkRow, Workers
  <2>2. UNCHANGED tables /\ UNCHANGED queueVars
    BY <1>1, <1>5, <2>1 DEF SelectSparkWorker
  <2> QED BY <1>2, <2>2, StillInv DEF vars
<1> QED BY <1>4, <1>5

LEMMA AbortInv ==
  ASSUME SparkInv, program' = program,
         \/ SelectWorkerFails
         \/ Abort /\ UNCHANGED tables
         \/ Die("exited") /\ UNCHANGED tables
  PROVE  SparkInv'
<1>1. CASE SelectWorkerFails
  <2>1. RowsTyped'
    <3>1. CASE \E p \in SelectDataShardPartition(FrontTask.targetData), w \in Workers :
                 SelectSparkWorker(p, FrontTask.targetData, w)
      BY <3>1, SelectTakes, SetsCapacity
    <3>2. CASE UNCHANGED tables
      BY <3>2, SameRows
    <3> QED BY <1>1, <3>1, <3>2 DEF SelectWorkerFails
  <2> QED BY <1>1, <2>1, DieInv DEF SelectWorkerFails, Abort
<1>2. CASE Abort /\ UNCHANGED tables
  BY <1>2, SameRows, DieInv DEF Abort
<1>3. CASE Die("exited") /\ UNCHANGED tables
  BY <1>3, SameRows, DieInv
<1> QED BY <1>1, <1>2, <1>3

LEMMA AssignInv ==
  ASSUME SparkInv, program' = program, AssignTaskToWorker
  PROVE  SparkInv'
<1> DEFINE r == [taskID |-> FrontTask.taskID, workerID |-> chosen, replied |-> FALSE]
<1>1. /\ queuePc = "assign" /\ rpcs' = rpcs \cup {r} /\ queuePc' = "pop"
      /\ UNCHANGED <<tables, mainVars, clientVars, taskQueue, chosen, finishVars, executed>>
  BY DEF AssignTaskToWorker
<1>2. taskQueue # <<>> /\ ~SettingUp
  BY <1>1, BusyNotSettingUp DEF SparkInv, QueuedOnce
<1>3. /\ clientPc[taskQueue[1]] \in {"check", "recheck", "asleep"} /\ taskQueue[1] \in Clients
      /\ FrontTask = clientTask[taskQueue[1]] /\ 1 \in DOMAIN taskQueue
      /\ FrontTask.taskID \notin taskCompletionSet \cup InFlight
      /\ FrontTask \in TaskData
  BY <1>1, <1>2, FrontIs DEF SparkInv, QueuedOnce
<1>4. FrontTask.taskID < taskIDs
  BY <1>3 DEF SparkInv, IdsDistinct, Inside
<1>5. r \in Rpc /\ r.taskID = FrontTask.taskID /\ r.workerID = chosen /\ r.replied = FALSE
  BY <1>3 DEF TaskData, Rpc, SparkInv, SparkTypeOK
<1> HIDE DEF r
<1>6. SparkTypeOK'
  BY <1>1, <1>5 DEF SparkInv, SparkTypeOK, tables, mainVars, clientVars, finishVars
<1>7. SetupQuiet' /\ RowsInOrder'
  BY <1>1, <1>2, SameRows, WorkFrame
<1>8. \A q \in rpcs : q.taskID # r.taskID
  BY <1>3, <1>5 DEF InFlight
<1>9. IdsDistinct'
  <2>1. \A c \in Clients : Inside(c)' <=> Inside(c)
    BY <1>1 DEF Inside, clientVars
  <2>2. \A q \in rpcs' : q.taskID < taskIDs' /\ q.taskID \notin taskCompletionSet'
    BY <1>1, <1>3, <1>4, <1>5 DEF SparkInv, IdsDistinct, clientVars, finishVars
  <2>3. \A q, s \in rpcs' : q.taskID = s.taskID => q = s
    BY <1>1, <1>8 DEF SparkInv, IdsDistinct
  <2> QED BY <1>1, <2>1, <2>2, <2>3 DEF SparkInv, IdsDistinct, clientVars, finishVars
<1>10. QueuedOnce'
  <2>1. InFlight' = InFlight \cup {FrontTask.taskID}
    BY <1>1, <1>5 DEF InFlight
  <2>2. /\ clientPc' = clientPc /\ clientTask' = clientTask /\ taskQueue' = taskQueue
        /\ taskCompletionSet' = taskCompletionSet
    BY <1>1 DEF clientVars, finishVars
  <2>3. ASSUME NEW c \in Clients, Inside(c), c # taskQueue[1]
        PROVE  clientTask[c].taskID # FrontTask.taskID
    BY <1>3, <2>3 DEF SparkInv, IdsDistinct, Inside
  <2>4. \A c \in Clients : clientPc'[c] = "enqueue" =>
          clientTask'[c].taskID \notin taskCompletionSet' \cup InFlight'
    BY <1>3, <2>1, <2>2, <2>3 DEF SparkInv, QueuedOnce, Inside
  <2>5. ASSUME NEW i \in DOMAIN taskQueue, i # 1
        PROVE  /\ clientPc[taskQueue[i]] \in {"check", "recheck", "asleep"}
               /\ clientTask[taskQueue[i]].taskID \notin taskCompletionSet \cup InFlight'
    <3>1. taskQueue[i] # taskQueue[1] /\ taskQueue[i] \in Clients
      BY <1>3, <2>5 DEF SparkInv, QueuedOnce, SparkTypeOK
    <3>2. /\ clientPc[taskQueue[i]] \in {"check", "recheck", "asleep"}
          /\ clientTask[taskQueue[i]].taskID \notin taskCompletionSet \cup InFlight
      BY <2>5 DEF SparkInv, QueuedOnce
    <3> QED BY <2>1, <2>3, <3>1, <3>2 DEF Inside
  <2> QED BY <1>1, <1>2, <2>2, <2>4, <2>5 DEF SparkInv, QueuedOnce
<1>11. ExecutedFirst'
  BY <1>1, <1>5 DEF SparkInv, ExecutedFirst, finishVars
<1>12. SparkCapacity'
  <2>1. ASSUME NEW w \in Workers PROVE Assigned(w)' = Assigned(w)
    BY <1>1, <1>5 DEF Assigned, finishVars
  <2> QED BY <1>1, <2>1, CapacityFrame DEF tables
<1>13. IsFiniteSet(rpcs')
  BY <1>1, FS_AddElement DEF SparkInv
<1> QED BY <1>6, <1>7, <1>9, <1>10, <1>11, <1>12, <1>13 DEF SparkInv

LEMMA PopInv ==
  ASSUME SparkInv, program' = program, Pop
  PROVE  SparkInv'
<1>1. /\ queuePc = "pop" /\ taskQueue' = Tail(taskQueue) /\ queuePc' = "drain"
      /\ UNCHANGED <<tables, mainVars, clientVars, chosen, rpcs, finishVars, executed>>
  BY DEF Pop
<1>2. taskQueue # <<>> /\ ~SettingUp /\ taskQueue \in Seq(Clients)
  BY <1>1, BusyNotSettingUp DEF SparkInv, QueuedOnce, SparkTypeOK
<1>3. /\ taskQueue' \in Seq(Clients)
      /\ \A i \in DOMAIN taskQueue' :
           i \in Nat \ {0} /\ i + 1 \in DOMAIN taskQueue /\ taskQueue'[i] = taskQueue[i + 1]
  BY <1>1, <1>2
<1>4. SparkTypeOK'
  BY <1>1, <1>3 DEF SparkInv, SparkTypeOK, tables, mainVars, clientVars, finishVars
<1>5. SetupQuiet' /\ RowsInOrder'
  BY <1>1, <1>2, SameRows, WorkFrame
<1>6. IdsDistinct'
  BY <1>1 DEF SparkInv, IdsDistinct, Inside, clientVars, finishVars
<1>7. QueuedOnce'
  <2>1. /\ InFlight' = InFlight /\ clientPc' = clientPc /\ clientTask' = clientTask
        /\ taskCompletionSet' = taskCompletionSet
    BY <1>1 DEF clientVars, finishVars, InFlight
  <2>2. ASSUME NEW i \in DOMAIN taskQueue'
        PROVE  /\ clientPc[taskQueue'[i]] \in {"check", "recheck", "asleep"}
               /\ clientTask[taskQueue'[i]].taskID \notin taskCompletionSet \cup InFlight
    <3>1. i + 1 # 1
      BY <1>3
    <3> QED BY <1>3, <3>1 DEF SparkInv, QueuedOnce
  <2>3. ASSUME NEW i \in DOMAIN taskQueue', NEW j \in DOMAIN taskQueue', taskQueue'[i] = taskQueue'[j]
        PROVE  i = j
    <3>1. i + 1 = j + 1
      BY <1>3, <2>3 DEF SparkInv, QueuedOnce
    <3> QED BY <1>3, <3>1
  <2> QED BY <1>1, <2>1, <2>2, <2>3 DEF SparkInv, QueuedOnce
<1>8. ExecutedFirst' /\ IsFiniteSet(rpcs')
  BY <1>1 DEF SparkInv, ExecutedFirst, finishVars
<1>9. SparkCapacity'
  <2>1. \A w \in Workers : Assigned(w)' = Assigned(w)
    BY <1>1 DEF Assigned, finishVars
  <2> QED BY <1>1, <2>1, CapacityFrame DEF tables
<1> QED BY <1>4, <1>5, <1>6, <1>7, <1>8, <1>9 DEF SparkInv

LEMMA SubmitInv ==
  ASSUME SparkInv, program' = program, NEW r \in rpcs, SubmitTask(r)
  PROVE  SparkInv'
<1> DEFINE s == [r EXCEPT !.replied = TRUE]
<1>1. /\ rpcs' = (rpcs \ {r}) \cup {s} /\ executed' = executed \cup {r.taskID}
      /\ UNCHANGED <<tables, mainVars, clientVars, taskQueue, queueVars, finishVars>>
  BY DEF SubmitTask
<1>2. r \in Rpc
  BY DEF SparkInv, SparkTypeOK
<1>3. s \in Rpc /\ s.taskID = r.taskID /\ s.workerID = r.workerID
  BY <1>2 DEF Rpc
<1> HIDE DEF s
<1>4. ~SettingUp
  BY BusyNotSettingUp
<1>5. SparkTypeOK'
  <2>1. rpcs' \subseteq Rpc /\ executed' \subseteq Int
    BY <1>1, <1>2, <1>3 DEF SparkInv, SparkTypeOK, Rpc
  <2> QED BY <1>1, <2>1 DEF SparkInv, SparkTypeOK, tables, mainVars, clientVars, queueVars, finishVars
<1>6. SetupQuiet' /\ RowsInOrder'
  BY <1>1, <1>4, SameRows, WorkFrame
<1>7. IdsDistinct'
  <2>1. \A c \in Clients : Inside(c)' <=> Inside(c)
    BY <1>1 DEF Inside, clientVars
  <2>2. \A q \in rpcs' : q.taskID < taskIDs' /\ q.taskID \notin taskCompletionSet'
    BY <1>1, <1>3 DEF SparkInv, IdsDistinct, clientVars, finishVars
  <2>3. \A q, t \in rpcs' : q.taskID = t.taskID => q = t
    BY <1>1, <1>3 DEF SparkInv, IdsDistinct
  <2> QED BY <1>1, <2>1, <2>2, <2>3 DEF SparkInv, IdsDistinct, clientVars, finishVars
<1>8. QueuedOnce'
  <2>1. InFlight' = InFlight
    BY <1>1, <1>3 DEF InFlight
  <2> QED BY <1>1, <2>1 DEF SparkInv, QueuedOnce, clientVars, queueVars, finishVars
<1>9. ExecutedFirst'
  BY <1>1, <1>3 DEF SparkInv, ExecutedFirst, finishVars
<1>10. SparkCapacity'
  <2>1. ASSUME NEW w \in Workers
        PROVE  {q.taskID : q \in {t \in rpcs' : t.workerID = w}} = {q.taskID : q \in {t \in rpcs : t.workerID = w}}
    BY <1>1, <1>3
  <2>2. \A w \in Workers : Assigned(w)' = Assigned(w)
    BY <1>1, <2>1 DEF Assigned, finishVars, queueVars, clientVars, FrontTask
  <2> QED BY <1>1, <2>2, CapacityFrame DEF tables
<1>11. IsFiniteSet(rpcs')
  BY <1>1, FS_AddElement, FS_RemoveElement DEF SparkInv
<1> QED BY <1>5, <1>6, <1>7, <1>8, <1>9, <1>10, <1>11 DEF SparkInv

LEMMA CompleteInv ==
  ASSUME SparkInv, program' = program, NEW r \in rpcs, CompleteTask(r)
  PROVE  SparkInv'
<1>1. /\ finishPc = "next" /\ r.replied /\ rpcs' = rpcs \ {r} /\ finishing' = r
      /\ taskCompletionSet' = taskCompletionSet \cup {r.taskID}
      /\ clientPc' = [c \in Clients |-> IF clientPc[c] = "asleep" THEN "recheck" ELSE clientPc[c]]
      /\ finishPc' = "update"
      /\ UNCHANGED <<tables, mainVars, taskIDs, calls, clientTask, taskQueue, queueVars, executed>>
  BY DEF CompleteTask
<1>2. /\ r \in Rpc /\ taskQueue \in Seq(Clients)
      /\ clientPc \in [Clients -> {"idle", "enqueue", "check", "recheck", "asleep", "dead"}]
  BY DEF SparkInv, SparkTypeOK
<1>3. ~SettingUp
  BY BusyNotSettingUp
<1>4. \A c \in Clients : /\ Inside(c)' <=> Inside(c)
                         /\ clientPc'[c] = "enqueue" <=> clientPc[c] = "enqueue"
                         /\ clientPc[c] \in {"check", "recheck", "asleep"} =>
                              clientPc'[c] \in {"check", "recheck", "asleep"}
  BY <1>1 DEF Inside
<1>5. SparkTypeOK'
  <2>1. /\ rpcs' \subseteq Rpc /\ finishing' \in Rpc /\ taskCompletionSet' \subseteq Int
        /\ clientPc' \in [Clients -> {"idle", "enqueue", "check", "recheck", "asleep", "dead"}]
    BY <1>1, <1>2 DEF SparkInv, SparkTypeOK, Rpc
  <2> QED BY <1>1, <2>1 DEF SparkInv, SparkTypeOK, tables, mainVars, queueVars
<1>6. SetupQuiet' /\ RowsInOrder'
  BY <1>1, <1>3, SameRows, WorkFrame
<1>7. r.taskID < taskIDs /\ r.taskID \in InFlight /\ \A q \in rpcs' : q.taskID # r.taskID
  BY <1>1 DEF SparkInv, IdsDistinct, InFlight
<1>8. IdsDistinct'
  BY <1>1, <1>4, <1>7 DEF SparkInv, IdsDistinct
<1>9. QueuedOnce'
  <2>1. InFlight' \cup taskCompletionSet' = InFlight \cup taskCompletionSet
    BY <1>1 DEF InFlight
  <2>2. /\ clientTask' = clientTask /\ taskQueue' = taskQueue /\ queuePc' = queuePc
        /\ \A i \in DOMAIN taskQueue : taskQueue[i] \in Clients
    BY <1>1, <1>2 DEF queueVars
  <2>3. \A x : x \notin taskCompletionSet' \cup InFlight' <=> x \notin taskCompletionSet \cup InFlight
    BY <2>1
  <2> QED BY <1>4, <2>2, <2>3 DEF SparkInv, QueuedOnce
<1>10. ExecutedFirst'
  BY <1>1 DEF SparkInv, ExecutedFirst
<1>11. SparkCapacity'
  <2>1. ASSUME NEW w \in Workers PROVE Assigned(w)' = Assigned(w)
    BY <1>1 DEF Assigned, queueVars, FrontTask
  <2> QED BY <1>1, <2>1, CapacityFrame DEF tables
<1>12. IsFiniteSet(rpcs')
  BY <1>1, FS_RemoveElement DEF SparkInv
<1> QED BY <1>5, <1>6, <1>8, <1>9, <1>10, <1>11, <1>12 DEF SparkInv

\* The reply thread is done with a call; whether or not the worker has its
\* capacity back, the task no longer holds it.
LEMMA UpdateInv ==
  ASSUME SparkInv, program' = program, UpdateWorker \/ UpdateWorkerFails
  PROVE  SparkInv'
<1> DEFINE w == finishing.workerID
<1>1. /\ finishPc = "update" /\ finishPc' = "next"
      /\ UNCHANGED <<mainVars, clientVars, taskQueue, queueVars, rpcs, finishing,
                     taskCompletionSet, executed>>
      /\ \/ FinishWorkerTask(w, w % Partitions)
         \/ AllowFailures /\ UNCHANGED tables
  BY DEF UpdateWorker, UpdateWorkerFails
<1>2. ~SettingUp /\ finishing \in Rpc /\ w \in Workers
  BY <1>1, BusyNotSettingUp DEF SparkInv, SparkTypeOK, Rpc
<1> HIDE DEF w
<1>3. /\ RowsTyped' /\ DOMAIN Worker' = DOMAIN Worker
      /\ \A k \in DOMAIN Worker :
           /\ Worker'[k].WorkerID = Worker[k].WorkerID
           /\ Worker[k].WorkerID # w => Worker'[k].Capacity = Worker[k].Capacity
           /\ Worker[k].WorkerID = w =>
                \/ Worker'[k].Capacity = Worker[k].Capacity + 1
                \/ AllowFailures /\ Worker'[k].Capacity = Worker[k].Capacity
  <2>1. CASE \E i \in DOMAIN Worker : /\ Worker[i].WorkerID = w
                                      /\ SetCapacity(w % Partitions, w, Worker[i].Capacity + 1)
                                      /\ UNCHANGED DataLocation
    <3>1. PICK i \in DOMAIN Worker : /\ Worker[i].WorkerID = w
                                     /\ SetCapacity(w % Partitions, w, Worker[i].Capacity + 1)
                                     /\ UNCHANGED DataLocation
      BY <2>1
    <3>2. Worker[i].Capacity + 1 \in Int
      BY InvRows DEF SparkRow
    <3>3. \A k \in DOMAIN Worker : Worker[k].WorkerID = w => k = i
      BY <3>1, InvRows DEF RowsTyped
    <3> QED BY <1>2, <3>1, <3>2, <3>3, SetsCapacity
  <2>2. CASE UNCHANGED tables /\ (AllowFailures \/ \A k \in DOMAIN Worker : Worker[k].WorkerID # w)
    BY <2>2, SameRows DEF tables
  <2>3. \A k \in DOMAIN Worker : Worker[k].WorkerID = w => Worker[k].PKey = w % Partitions
    BY InvRows DEF RowsTyped
  <2> QED BY <1>1, <2>1, <2>2, <2>3 DEF FinishWorkerTask, tables
<1>4. SparkTypeOK'
  BY <1>1, <1>3 DEF SparkInv, SparkTypeOK, RowsTyped, SparkRow, mainVars, clientVars, queueVars
<1>5. SetupQuiet' /\ RowsInOrder'
  BY <1>1, <1>2, <1>3, WorkFrame
<1>6. IdsDistinct'
  BY <1>1 DEF SparkInv, IdsDistinct, Inside, clientVars
<1>7. QueuedOnce'
  <2>1. InFlight' = InFlight
    BY <1>1 DEF InFlight
  <2> QED BY <1>1, <2>1 DEF SparkInv, QueuedOnce, clientVars, queueVars
<1>8. ExecutedFirst' /\ IsFiniteSet(rpcs')
  BY <1>1 DEF SparkInv, ExecutedFirst
<1>9. SparkCapacity'
  <2>1. finishing.taskID \in taskCompletionSet
    BY <1>1 DEF SparkInv, ExecutedFirst
  <2>2. \A r \in rpcs : r.taskID # finishing.taskID
    BY <2>1 DEF SparkInv, IdsDistinct
  <2>3. queuePc = "assign" => FrontTask.taskID # finishing.taskID
    <3> SUFFICES ASSUME queuePc = "assign" PROVE FrontTask.taskID # finishing.taskID
      OBVIOUS
    <3>1. taskQueue # <<>>
      BY DEF SparkInv, QueuedOnce
    <3>2. FrontTask.taskID \notin taskCompletionSet
      BY <3>1, FrontIs DEF SparkInv, QueuedOnce
    <3> QED BY <2>1, <3>2
  <2>4. FrontTask' = FrontTask
    BY <1>1 DEF FrontTask, clientVars
  <2>5. ASSUME NEW v \in Workers
        PROVE  Assigned(v)' = IF v = w THEN Assigned(v) \ {finishing.taskID} ELSE Assigned(v)
    BY <1>1, <2>2, <2>3, <2>4 DEF Assigned, queueVars, w
  <2>6. finishing.taskID \in Assigned(w)
    BY <1>1 DEF Assigned, w
  <2>7. ASSUME NEW k \in DOMAIN Worker, NEW v \in Workers, RowOK(k, v)
        PROVE  RowOK(k, v)'
    <3>1. PICK n \in Nat : n = Cardinality(Assigned(v))
      BY AssignedFinite
    <3>2. PICK x \in Int : x = Worker[k].Capacity
      BY InvRows DEF SparkRow
    <3>3. CASE Worker[k].WorkerID = w /\ v = w
      <4>1. Cardinality(Assigned(v)') = n - 1
        BY <1>2, <2>5, <2>6, <3>1, <3>3, AssignedFinite, FS_RemoveElement
      <4>2. CASE Worker'[k].Capacity = x + 1
        BY <2>7, <3>1, <3>2, <3>3, <4>1, <4>2, SparkAssumption DEF RowOK
      <4>3. CASE AllowFailures /\ Worker'[k].Capacity = x
        BY <2>7, <3>1, <3>2, <3>3, <4>1, <4>3, SparkAssumption DEF RowOK
      <4> QED BY <1>3, <3>2, <3>3, <4>2, <4>3
    <3>4. CASE Worker[k].WorkerID = v /\ v # w
      <4>1. Worker'[k].Capacity = Worker[k].Capacity /\ Assigned(v)' = Assigned(v)
        BY <1>3, <2>5, <3>4
      <4> QED BY <2>7, <3>4, <4>1 DEF RowOK
    <3>5. CASE Worker[k].WorkerID # v
      BY <1>3, <3>5 DEF RowOK
    <3> QED BY <3>3, <3>4, <3>5
  <2> QED BY <1>1, <1>3, <2>7, CapacityStep
<1> QED BY <1>4, <1>5, <1>6, <1>7, <1>8, <1>9 DEF SparkInv

\* The steps of the two threads that touch neither a task nor a table.
LEMMA IdleMoves ==
  ASSUME SparkInv, program' = program,
         LoopTest \/ QueueThreadWakes \/ Drain \/ FinishRequestsReturns
  PROVE  SparkInv'
<1>1. /\ UNCHANGED <<tables, mainVars, clientVars, taskQueue, chosen, rpcs, finishing,
                     taskCompletionSet, executed>>
      /\ \/ queuePc' = queuePc
         \/ /\ queuePc \notin {"assign", "pop"}
            /\ queuePc' \in {"start", "waiting", "woken", "drain", "returned"}
      /\ finishPc' = finishPc \/ (finishPc # "update" /\ finishPc' \in {"next", "returned"})
  BY DEF LoopTest, QueueThreadWakes, Drain, FinishRequestsReturns, queueVars, finishVars
<1>2. Passes
  BY <1>1 DEF Passes, SparkInv, SparkTypeOK, MainPcs, mainVars, clientVars
<1>3. RowsTyped' /\ Worker' = Worker /\ mainPc' = mainPc /\ servers' = servers
  BY <1>1, SameRows DEF tables, mainVars
<1>4. SettingUp' <=> SettingUp
  BY <1>3 DEF SettingUp
<1>5. /\ mainPc = "truncate" => Worker = <<>> /\ servers = 0
      /\ mainPc = "insert" /\ program # "load-fifo" => Len(Worker) = servers
      /\ SettingUp => \A i \in DOMAIN Worker : Worker[i].Capacity = WorkerCapacity
  BY DEF SparkInv, RowsInOrder, SetupQuiet
<1> QED BY <1>2, <1>3, <1>4, <1>5, PassInv

LEMMA ThreadsInv ==
  ASSUME SparkInv, program' = program, Threads
  PROVE  SparkInv'
<1>1. CASE LoopTest \/ Drain \/ QueueThreadWakes \/ FinishRequestsReturns
  BY <1>1, IdleMoves
<1>2. CASE SelectWorker
  BY <1>2, SelectInv
<1>3. CASE NoTargetPartition \/ SelectWorkerFails \/ \E r \in rpcs : RpcFails(r)
  BY <1>3, AbortInv DEF NoTargetPartition, RpcFails
<1>4. CASE AssignTaskToWorker
  BY <1>4, AssignInv
<1>5. CASE Pop
  BY <1>5, PopInv
<1>6. CASE \E r \in rpcs : CompleteTask(r)
  BY <1>6, CompleteInv
<1>7. CASE UpdateWorker \/ UpdateWorkerFails
  BY <1>7, UpdateInv
<1>8. CASE \E r \in rpcs : SubmitTask(r)
  BY <1>8, SubmitInv
<1> QED BY <1>1, <1>2, <1>3, <1>4, <1>5, <1>6, <1>7, <1>8
      DEF Threads, ProcessTaskQueue, FinishRequests, Unasked
-----------------------------------------------------------------------------
(* The programs.                                                           *)

LEMMA TestStep ==
  ASSUME SparkInv, program = "test", Next, UNCHANGED loadVars
  PROVE  SparkInv'
<1>1. program' = program
  BY DEF loadVars
<1>2. CASE Truncate("truncate", "insert") \/ Truncate("teardown", "endServing")
  BY <1>1, <1>2, TruncateInv
<1>3. CASE InsertWorker
  BY <1>1, <1>3, InsertInv
<1>4. CASE SetupDone("run")
  BY <1>1, <1>4, SetupDoneInv
<1>5. CASE \/ Shutdown \/ NotifyQueueThread \/ Join \/ RunDone \/ EndServing("shutdown")
  BY <1>1, <1>5, DestructorInv
<1>6. CASE InsertWorkerFails
  BY <1>1, <1>6, InsertFailsInv
<1>7. CASE \E c \in Clients : Client(c)
  BY <1>1, <1>7, ScheduleInv, ClientInv DEF Client
<1>8. CASE Threads
  BY <1>1, <1>8, ThreadsInv
<1>9. CASE Over
  BY <1>1, <1>9, StillInv DEF Over
<1> QED BY <1>2, <1>3, <1>4, <1>5, <1>6, <1>7, <1>8, <1>9 DEF Next, Main

LEMMA LoadStep ==
  ASSUME SparkInv, program # "test",
         \/ LoadMain \/ FinishLoad
         \/ (LoadSetupFails \/ Threads \/ Over) /\ UNCHANGED loadVars
         \/ \E c \in Clients : ClientThread(c)
  PROVE  SparkInv'
<1>1. program' = program
  BY DEF LoadMain, FinishLoad, ClientThread, Submit, ArrayFull, Serve, Answered,
         SubmitFails, Goto, loadVars
<1>2. CASE LoadSetup
  <2>1. CASE program = "load-fifo" /\ FifoSetup
    BY <1>1, <2>1, FifoSetupInv
  <2>2. CASE program = "load" /\ Truncate("truncate", "insert")
    BY <1>1, <2>2, TruncateInv
  <2>3. CASE program = "load" /\ InsertWorker
    BY <1>1, <2>3, InsertInv
  <2>4. CASE program = "load" /\ SetupDone("shutdown")
    BY <1>1, <2>4, SetupDoneInv
  <2>5. CASE Shutdown \/ NotifyQueueThread
    BY <1>1, <2>5, DestructorInv
  <2> QED BY <1>2, <2>1, <2>2, <2>3, <2>4, <2>5 DEF LoadSetup
<1>3. CASE StartScheduler
  BY <1>1, <1>3, StartSchedulerInv
<1>4. CASE JoinClients \/ EndServing("done")
  BY <1>1, <1>4, DestructorInv
<1>5. CASE Truncate("teardown", "endServing")
  BY <1>1, <1>5, TruncateInv
<1>6. CASE LoadSetupFails
  <2>1. CASE program = "load" /\ InsertWorkerFails
    BY <1>1, <2>1, InsertFailsInv
  <2>2. CASE /\ mainPc = "insert" /\ Len(Worker) < NumWorkers
             /\ InsertFifoWorker \/ UNCHANGED tables
             /\ Die("exited")
    BY <1>1, <2>2, FifoRow, SameRows, DieInv
  <2> QED BY <1>6, <2>1, <2>2 DEF LoadSetupFails
<1>7. CASE Threads
  BY <1>1, <1>7, ThreadsInv
<1>8. CASE UNCHANGED vars
  BY <1>1, <1>8, StillInv
<1>9. CASE \E c \in Clients : ClientThread(c)
  <2> SUFFICES ASSUME NEW c \in Clients, ClientThread(c) PROVE SparkInv'
    BY <1>9
  <2>1. CASE Submit(c)
    BY <1>1, <2>1, ScheduleInv DEF Submit
  <2>2. CASE Serve(c)
    BY <1>1, <2>2, ClientInv DEF Serve
  <2>3. CASE ArrayFull(c) \/ SubmitFails(c)
    BY <1>1, <2>3, AbortInv DEF ArrayFull, SubmitFails
  <2>4. CASE Answered(c)
    BY <1>1, <2>4, StillInv DEF Answered
  <2> QED BY <2>1, <2>2, <2>3, <2>4 DEF ClientThread
<1> QED BY <1>2, <1>3, <1>4, <1>5, <1>6, <1>7, <1>8, <1>9
      DEF LoadMain, LoadTeardown, FinishLoad, Over

LEMMA SparkInitial == LoadInit => SparkInv
<1> SUFFICES ASSUME LoadInit PROVE SparkInv
  OBVIOUS
<1>1. PICK q \in {"start", "returned"}, f \in {"next", "returned"} : InitWith(q, f)
  BY DEF LoadInit, Init
<1>2. /\ Worker = <<>> /\ DataLocation = {} /\ mainPc = "truncate" /\ servers = 0
      /\ runTaskQueueThread = TRUE /\ taskIDs \in Int /\ calls = 0
      /\ clientPc = [c \in Clients |-> "idle"] /\ clientTask = [c \in Clients |-> NoTask]
      /\ taskQueue = <<>> /\ queuePc \in {"start", "returned"} /\ chosen = 0 /\ rpcs = {}
      /\ finishPc \in {"next", "returned"} /\ finishing = NoCall /\ taskCompletionSet = {}
      /\ executed = {}
  BY <1>1, SparkAssumption DEF InitWith
<1>3. SparkTypeOK
  <2>1. NoTask \in TaskData /\ NoCall \in Rpc /\ 0 \in 0 .. NumWorkers
    BY ZeroWorker DEF NoTask, NoCall, TaskData, Rpc
  <2>2. clientTask \in [Clients -> TaskData]
    BY <1>2, <2>1
  <2>3. Worker \in Seq([WorkerID : Workers, Capacity : Int, DataShards : Workers, PKey : Nat])
    BY <1>2
  <2> QED BY <1>2, <2>1, <2>2, <2>3, ZeroWorker DEF SparkTypeOK
<1>4. IsFiniteSet(rpcs) /\ program \in {"test", "load", "load-fifo"}
  BY <1>2, FS_EmptySet, LoadAssumption DEF LoadInit
<1>5. SetupQuiet /\ RowsInOrder /\ SparkCapacity
  BY <1>2 DEF SetupQuiet, RowsInOrder, SparkCapacity
<1>6. IdsDistinct /\ QueuedOnce /\ ExecutedFirst
  BY <1>2 DEF IdsDistinct, QueuedOnce, ExecutedFirst, Inside
<1> QED BY <1>3, <1>4, <1>5, <1>6 DEF SparkInv

LEMMA SparkNext ==
  ASSUME SparkInv, [LoadNext]_allVars
  PROVE  SparkInv'
<1>1. CASE program = "test" /\ Next /\ UNCHANGED loadVars
  BY <1>1, TestStep
<1>2. CASE /\ program # "test"
           /\ \/ LoadMain \/ FinishLoad
              \/ (LoadSetupFails \/ Threads \/ Over) /\ UNCHANGED loadVars
              \/ \E c \in Clients : ClientThread(c)
  BY <1>2, LoadStep
<1>3. CASE UNCHANGED allVars
  BY <1>3, StillInv DEF allVars, loadVars
<1> QED BY <1>1, <1>2, <1>3 DEF LoadNext

\* The inductive invariant of TestSparkScheduler and LoadGenerator, for any
\* number of clients, workers, partitions and calls, with and without failures.
THEOREM SparkInvariant == LoadSpec => []SparkInv
<1>1. LoadInit => SparkInv
  BY SparkInitial
<1>2. SparkInv /\ [LoadNext]_allVars => SparkInv'
  BY SparkNext
<1> QED BY <1>1, <1>2, PTL DEF LoadSpec

\* Every variable of SparkScheduler and every row keep their types.
THEOREM SparkTypeCorrect == LoadSpec => []SparkTypeOK
<1>1. SparkInv => SparkTypeOK
  BY DEF SparkInv
<1> QED BY <1>1, SparkInvariant, PTL

\* The pointers processTaskQueue follows lead to TaskData of clients that are
\* still inside schedule.
THEOREM PointersStayValid == LoadSpec => []FramesAlive
<1>1. SparkInv => FramesAlive
  BY DEF SparkInv, QueuedOnce, FramesAlive
<1> QED BY <1>1, SparkInvariant, PTL

\* What selectWorker takes and finishTask gives back adds up.
THEOREM SparkCapacityBalances == LoadSpec => []SparkCapacity
<1>1. SparkInv => SparkCapacity
  BY DEF SparkInv
<1> QED BY <1>1, SparkInvariant, PTL

\* Who moves a client.
ClientAction ==
  \/ \E e \in Clients : Schedule(e) \/ Enqueue(e) \/ CheckCompletion(e) \/ ClientWakes(e)
  \/ \E r \in rpcs : CompleteTask(r)
  \/ Die("exited") \/ Die("aborted")

LEMMA ThreadsMoveClients == Threads => ClientAction \/ clientPc' = clientPc
BY DEF Threads, ProcessTaskQueue, FinishRequests, Unasked, LoopTest, Drain, SelectWorker,
       NoTargetPartition, AssignTaskToWorker, Pop, UpdateWorker, FinishRequestsReturns,
       QueueThreadWakes, SelectWorkerFails, UpdateWorkerFails, RpcFails, SubmitTask, ClientAction,
       Abort, clientVars

LEMMA StepMovesClients == [LoadNext]_allVars => ClientAction \/ clientPc' = clientPc
<1> SUFFICES ASSUME [LoadNext]_allVars PROVE ClientAction \/ clientPc' = clientPc
  OBVIOUS
<1>1. CASE Next
  <2>1. CASE Main \/ InsertWorkerFails \/ RunDone
    BY <2>1 DEF Main, Truncate, InsertWorker, SetupDone, EndServing, Shutdown, NotifyQueueThread,
                Join, InsertWorkerFails, RunDone, ClientAction, clientVars
  <2>2. CASE \E c \in Clients : Client(c)
    BY <2>2 DEF Client, ClientAction
  <2>3. CASE Over
    BY <2>3 DEF Over, vars, clientVars
  <2> QED BY <1>1, <2>1, <2>2, <2>3, ThreadsMoveClients DEF Next
<1>2. CASE LoadMain \/ LoadSetupFails
  BY <1>2 DEF LoadMain, LoadSetup, FifoSetup, StartScheduler, JoinClients, LoadTeardown,
              LoadSetupFails, Truncate, InsertWorker, SetupDone, EndServing, Shutdown,
              NotifyQueueThread, InsertWorkerFails, ClientAction, clientVars, notTables
<1>3. CASE FinishLoad \/ Over \/ UNCHANGED allVars
  BY <1>3 DEF FinishLoad, Over, allVars, vars, clientVars
<1>4. CASE \E c \in Clients : ClientThread(c)
  BY <1>4 DEF ClientThread, Submit, ArrayFull, Serve, Answered, SubmitFails, Abort, ClientAction,
              vars, clientVars
<1> QED BY <1>1, <1>2, <1>3, <1>4, ThreadsMoveClients DEF LoadNext

\* schedule returns to its caller only when a worker has executed the caller's
\* own task.
THEOREM ScheduleWaitsForExecution == LoadSpec => ReturnsAfterExecution
<1>1. ASSUME SparkInv, [LoadNext]_allVars
      PROVE  [\A c \in Clients : clientPc[c] # "idle" /\ clientPc'[c] = "idle"
                                => clientTask[c].taskID \in executed]_vars
  <2> SUFFICES ASSUME NEW c \in Clients, clientPc[c] # "idle", clientPc'[c] = "idle"
               PROVE  clientTask[c].taskID \in executed
    OBVIOUS
  <2>1. clientPc \in [Clients -> {"idle", "enqueue", "check", "recheck", "asleep", "dead"}]
    BY <1>1 DEF SparkInv, SparkTypeOK
  <2>2. ClientAction
    BY <1>1, StepMovesClients
  <2>3. ~Die("exited") /\ ~Die("aborted")
    BY DEF Die
  <2>4. ASSUME NEW e \in Clients, Schedule(e) \/ Enqueue(e) \/ ClientWakes(e) PROVE FALSE
    BY <2>1, <2>4 DEF Schedule, Enqueue, ClientWakes
  <2>5. ASSUME NEW r \in rpcs, CompleteTask(r) PROVE FALSE
    BY <2>5 DEF CompleteTask
  <2>6. PICK e \in Clients : CheckCompletion(e)
    BY <2>2, <2>3, <2>4, <2>5 DEF ClientAction
  <2>7. e = c /\ clientTask[c].taskID \in taskCompletionSet
    BY <2>1, <2>6 DEF CheckCompletion
  <2> QED BY <1>1, <2>7 DEF SparkInv, ExecutedFirst
<1> QED BY <1>1, SparkInvariant, PTL DEF LoadSpec, ReturnsAfterExecution
=============================================================================
