------------------------------ MODULE PushProofs ------------------------------
(***************************************************************************)
(* Proofs about PushPipeline: what becomes of the tasks that are pushed to *)
(* HTTP workers, for any number of threads, workers and deliveries.        *)
(***************************************************************************)
EXTENDS PushPipeline, PartitionedProofs

(* What the invariant says of single rows.                                 *)

StreamRow == [TaskID : TaskIds, Url : Workers, sent : 0 .. MaxDeliveries - 1]

LEMMA PushConstants ==
  /\ MaxEntries \in Nat \ {0} /\ TaskIds \subseteq Nat /\ 0 \in TaskIds
  /\ MaxDeliveries \in Nat \ {0} /\ HttpCapacity \in Nat
  /\ NumWorkers \in Nat \ {0} /\ Partitions \in Nat \ {0} /\ Workers \subseteq Nat
BY PushAssumption, PartitionedAssumption, TablesAssumption DEF TaskIds, Workers

LEMMA EmptyTasks == <<>> \in Seq(TaskRow)
OBVIOUS

LEMMA PushParts ==
  ASSUME PushInv
  PROVE  /\ Worker \in Seq(WorkerRow) /\ \A k \in DOMAIN Worker : Worker[k] \in WorkerRow
         /\ Task \in Seq(TaskRow) /\ \A j \in DOMAIN Task : Task[j] \in TaskRow
         /\ TaskAssign \subseteq StreamRow /\ lost \subseteq TaskIds
         /\ updates \in [TaskIds -> 0 .. MaxDeliveries]
         /\ dispatch \in [Workers -> {"none", "init", "poll", "update", "returned"}]
         /\ handling \in [Workers -> TaskIds]
         /\ \A row \in TaskAssign : row.TaskID \in TaskIds /\ row.Url \in Workers /\ row.sent \in Nat
<1>1. /\ Worker \in Seq(WorkerRow) /\ Task \in Seq(TaskRow)
      /\ TaskAssign \subseteq StreamRow /\ lost \subseteq TaskIds
      /\ updates \in [TaskIds -> 0 .. MaxDeliveries]
      /\ dispatch \in [Workers -> {"none", "init", "poll", "update", "returned"}]
      /\ handling \in [Workers -> TaskIds]
  BY DEF PushInv, PushTypeOK, StreamRow
<1>2. \A row \in TaskAssign : row.TaskID \in TaskIds /\ row.Url \in Workers /\ row.sent \in Nat
  BY <1>1 DEF StreamRow
<1> QED BY <1>1, <1>2

\* The task rows of a worker that are RUNNING.
RunningAt(v) == {j \in DOMAIN Task : Task[j].WorkerID = v /\ Task[j].State = RUNNING}

\* What PushCapacity says of a row.
Balanced(k) ==
  (\A j \in DOMAIN Task : Task[j].WorkerID = Worker[k].WorkerID => updates[Task[j].TaskID] <= 1)
  => Worker[k].Capacity + Cardinality(RunningAt(Worker[k].WorkerID)) = HttpCapacity

LEMMA CapacityIs ==
  /\ PushCapacity <=> (mainPc # "done" => \A k \in DOMAIN Worker : Balanced(k))
  /\ PushCapacity' <=> (mainPc' # "done" => \A k \in DOMAIN Worker' : Balanced(k)')
<1>1. ASSUME NEW v
      PROVE  {j \in {l \in DOMAIN Task : Task[l].WorkerID = v} : Task[j].State = RUNNING} = RunningAt(v)
  BY DEF RunningAt
<1>2. ASSUME NEW v
      PROVE  {j \in {l \in DOMAIN Task' : Task'[l].WorkerID = v} : Task'[j].State = RUNNING} = RunningAt(v)'
  BY DEF RunningAt
<1>3. PushCapacity <=> (mainPc # "done" => \A k \in DOMAIN Worker : Balanced(k))
  BY <1>1 DEF PushCapacity, Balanced
<1>4. PushCapacity' <=> (mainPc' # "done" => \A k \in DOMAIN Worker' : Balanced(k)')
  BY <1>2 DEF PushCapacity, Balanced
<1> QED BY <1>3, <1>4

LEMMA RunningAtFinite ==
  ASSUME Task \in Seq(TaskRow), NEW v
  PROVE  IsFiniteSet(RunningAt(v)) /\ Cardinality(RunningAt(v)) \in Nat
<1>1. DOMAIN Task = 1 .. Len(Task) /\ Len(Task) \in Nat
  OBVIOUS
<1>2. IsFiniteSet(1 .. Len(Task))
  BY <1>1, FS_Interval
<1>3. RunningAt(v) \subseteq 1 .. Len(Task)
  BY <1>1 DEF RunningAt
<1> QED BY <1>2, <1>3, FS_Subset, FS_CardinalityType

\* A task that is accounted for.
Tracked(i) ==
  i \in lost \/ (\E row \in TaskAssign : row.TaskID = i) \/ \E w \in Workers : Handles(w, i)

LEMMA ForgottenIs ==
  /\ NoTaskForgotten <=> (WorkerUp => \A i \in TaskIds : InState(i, RUNNING) => Tracked(i))
  /\ NoTaskForgotten' <=> (WorkerUp' => \A i \in TaskIds : InState(i, RUNNING)' => Tracked(i)')
BY DEF NoTaskForgotten, Tracked, Handles

LEMMA StreamUnique ==
  ASSUME PushInv, NEW r1 \in TaskAssign, NEW r2 \in TaskAssign, r1.TaskID = r2.TaskID
  PROVE  r1 = r2
<1>1. Underway(r1.TaskID, r1.Url) /\ r1.TaskID \in TaskIds /\ r1.Url \in Workers
  BY PushParts DEF Underway
<1> QED BY <1>1 DEF PushInv, OneWorker
-----------------------------------------------------------------------------
(* Steps that push no task.                                                *)

SameIds ==
  /\ DOMAIN Task' = DOMAIN Task
  /\ \A j \in DOMAIN Task : Task'[j].TaskID = Task[j].TaskID /\ Task'[j].WorkerID = Task[j].WorkerID

LEMMA UnusedStill ==
  ASSUME PushInv, \A i \in TaskIds : Unused(i)' => Unused(i),
         SameIds \/ Task' = <<>>,
         \A i \in TaskIds, w \in Workers : Underway(i, w)' => Underway(i, w),
         \A i \in TaskIds : updates'[i] = updates[i] \/ \E w \in Workers : Underway(i, w)
  PROVE  UnusedNowhere'
<1> SUFFICES ASSUME NEW i \in TaskIds, Unused(i)'
             PROVE  /\ \A j \in DOMAIN Task' : Task'[j].TaskID # i
                    /\ \A w \in Workers : ~Underway(i, w)'
                    /\ updates'[i] = 0
  BY DEF UnusedNowhere
<1>1. /\ \A j \in DOMAIN Task : Task[j].TaskID # i
      /\ \A w \in Workers : ~Underway(i, w)
      /\ updates[i] = 0
  BY DEF PushInv, UnusedNowhere
<1>2. \A j \in DOMAIN Task' : Task'[j].TaskID # i
  BY <1>1 DEF SameIds
<1> QED BY <1>1, <1>2

LEMMA OneWorkerStill ==
  ASSUME PushInv, \A i \in TaskIds, w \in Workers : Underway(i, w)' => Underway(i, w),
         SameIds \/ (Task' = <<>> /\ mainPc' = "done"), mainPc' # "done" => mainPc # "done",
         \A r1, r2 \in TaskAssign' : r1.TaskID = r2.TaskID => r1 = r2
  PROVE  OneWorker'
<1> SUFFICES ASSUME NEW i \in TaskIds, NEW w \in Workers, Underway(i, w)'
             PROVE  /\ \A v \in Workers : Underway(i, v)' => v = w
                    /\ \A j \in DOMAIN Task' : Task'[j].TaskID = i => Task'[j].WorkerID = w
                    /\ mainPc' # "done" => \E j \in DOMAIN Task' : Task'[j].TaskID = i
                    /\ \A r1, r2 \in TaskAssign' : r1.TaskID = i /\ r2.TaskID = i => r1 = r2
  BY DEF OneWorker
<1>1. /\ \A v \in Workers : Underway(i, v) => v = w
      /\ \A j \in DOMAIN Task : Task[j].TaskID = i => Task[j].WorkerID = w
      /\ mainPc # "done" => \E j \in DOMAIN Task : Task[j].TaskID = i
  BY DEF PushInv, OneWorker
<1>2. CASE SameIds
  BY <1>1, <1>2 DEF SameIds
<1>3. CASE Task' = <<>> /\ mainPc' = "done"
  BY <1>1, <1>3
<1> QED BY <1>2, <1>3

LEMMA WorkerRowsStill ==
  ASSUME PushInv, DOMAIN Worker' = DOMAIN Worker,
         \A k \in DOMAIN Worker : /\ Worker'[k].WorkerID = Worker[k].WorkerID
                                  /\ Worker'[k].PKey = Worker[k].PKey,
         \A w \in Workers : control'[w] = "insert" =>
           control[w] = "insert" /\ (dispatch[w] = "none" => dispatch'[w] = "none")
  PROVE  PushWorkerRows'
BY DEF PushInv, PushWorkerRows

LEMMA TaskRowsStill ==
  ASSUME PushInv, Task' \in {Task, <<>>}, updates' = updates,
         \A k \in DOMAIN Worker : k \in DOMAIN Worker' /\ Worker'[k].WorkerID = Worker[k].WorkerID
  PROVE  PushTaskRows'
<1>1. CASE Task' = Task
  BY <1>1 DEF PushInv, PushTaskRows
<1>2. CASE Task' = <<>>
  BY <1>2 DEF PushTaskRows
<1> QED BY <1>1, <1>2

LEMMA CapacityStill ==
  ASSUME PushInv, Worker' = Worker, Task' = Task \/ mainPc' = "done", updates' = updates,
         mainPc' # "done" => mainPc # "done"
  PROVE  PushCapacity'
<1>1. CASE mainPc' = "done"
  BY <1>1 DEF PushCapacity
<1>2. CASE mainPc' # "done"
  <2>1. ASSUME NEW k \in DOMAIN Worker PROVE Balanced(k)'
    BY <1>2, <2>1, CapacityIs DEF PushInv, Balanced, RunningAt
  <2> QED BY <1>2, <2>1, CapacityIs
<1> QED BY <1>1, <1>2

LEMMA TrackedStill ==
  ASSUME PushInv, Task' \in {Task, <<>>}, WorkerUp' => WorkerUp,
         \A i \in TaskIds : WorkerUp' /\ Tracked(i) => Tracked(i)'
  PROVE  NoTaskForgotten'
<1>1. WorkerUp' => \A i \in TaskIds : InState(i, RUNNING)' => Tracked(i)'
  BY ForgottenIs DEF PushInv, InState
<1> QED BY <1>1, ForgottenIs

\* A step of the scheduler or of a control thread that touches none of this.
LEMMA QuietStep ==
  ASSUME PushInv, UNCHANGED <<Worker, TaskAssign, updates, lost>>,
         Task' = Task \/ (Task' = <<>> /\ mainPc' = "done"), mainPc' # "done" => mainPc # "done",
         \A i \in TaskIds, w \in Workers : Handles(w, i)' <=> Handles(w, i),
         \A i \in TaskIds : Unused(i)' => Unused(i),
         \A w \in Workers : control'[w] = "insert" =>
           control[w] = "insert" /\ (dispatch[w] = "none" => dispatch'[w] = "none"),
         WorkerUp' => WorkerUp
  PROVE  /\ UnusedNowhere' /\ PushWorkerRows' /\ PushTaskRows'
         /\ OneWorker' /\ DeliveriesCounted' /\ PushCapacity' /\ NoTaskForgotten'
<1>1. \A i \in TaskIds, w \in Workers : Underway(i, w)' <=> Underway(i, w)
  BY DEF Underway
<1>2. SameIds \/ (Task' = <<>> /\ mainPc' = "done")
  BY DEF SameIds
<1>3. UnusedNowhere'
  BY <1>1, <1>2, UnusedStill
<1>4. \A r1, r2 \in TaskAssign' : r1.TaskID = r2.TaskID => r1 = r2
  BY StreamUnique
<1>5. OneWorker'
  BY <1>1, <1>2, <1>4, OneWorkerStill
<1>6. \A i \in TaskIds : InHand(i)' = InHand(i) /\ (Tracked(i) <=> Tracked(i)')
  BY DEF InHand, Tracked
<1>7. DeliveriesCounted'
  BY <1>6, PushParts DEF PushInv, DeliveriesCounted
<1>8. NoTaskForgotten'
  BY <1>6, TrackedStill
<1> QED BY <1>3, <1>5, <1>7, <1>8, WorkerRowsStill, TaskRowsStill, CapacityStill
-----------------------------------------------------------------------------
(* The exporter and the workers.                                           *)

LEMMA SchedulerStill ==
  ASSUME PushInv, UNCHANGED <<mainVars, thrVars>>
  PROVE  PushThreadsOK' /\ mainPc' = mainPc /\ \A i : Unused(i)' <=> Unused(i)
<1>1. UNCHANGED <<scheduleAlgo, mainPc, mainFinished, schedLatsArrayIndex, taskindex, pc, taskID, probe>>
  BY DEF mainVars, options, thrVars
<1>2. PushThreadsOK'
  BY <1>1 DEF PushInv, PushThreadsOK
<1> QED BY <1>1, <1>2 DEF Unused

LEMMA DispatchPlace ==
  ASSUME PushInv, NEW w \in Workers, NEW place \in {"none", "init", "poll", "update", "returned"}, NEW i \in TaskIds,
         dispatch' = [dispatch EXCEPT ![w] = place], handling' = [handling EXCEPT ![w] = i]
  PROVE  /\ dispatch' \in [Workers -> {"none", "init", "poll", "update", "returned"}]
         /\ handling' \in [Workers -> TaskIds]
         /\ \A v \in Workers, l \in TaskIds :
              Handles(v, l)' <=> IF v = w THEN place = "update" /\ l = i ELSE Handles(v, l)
<1>1. /\ dispatch \in [Workers -> {"none", "init", "poll", "update", "returned"}]
      /\ handling \in [Workers -> TaskIds]
  BY PushParts
<1> QED BY <1>1 DEF Handles

LEMMA DeliverStep ==
  ASSUME PushInv, NEW row \in TaskAssign, ProcessRow(row)
  PROVE  PushInv'
<1> DEFINE i == row.TaskID
           w == row.Url
           again == [row EXCEPT !.sent = @ + 1]
<1>1. /\ dispatch[w] = "poll" /\ WorkerUp /\ WorkerUp'
      /\ dispatch' = [dispatch EXCEPT ![w] = "update"] /\ handling' = [handling EXCEPT ![w] = i]
      /\ UNCHANGED <<Worker, Task, mainVars, thrVars, lost, updates, workerMain, workersFinished, control,
                     stopDispatch, freed>>
  BY DEF ProcessRow, vars, tables, workerProg, WorkerUp
<1>2. /\ row \in StreamRow /\ i \in TaskIds /\ w \in Workers /\ row.sent \in 0 .. MaxDeliveries - 1
      /\ MaxDeliveries \in Nat \ {0}
  BY PushParts, PushConstants DEF StreamRow
<1>3. row.sent + 1 < MaxDeliveries => again \in StreamRow
  BY <1>2 DEF StreamRow
<1>4. again.TaskID = i /\ again.Url = w /\ again.sent = row.sent + 1
  BY <1>2 DEF StreamRow
<1>5. \/ TaskAssign' = TaskAssign \ {row}
      \/ row.sent + 1 < MaxDeliveries /\ TaskAssign' = (TaskAssign \ {row}) \cup {again}
  BY DEF ProcessRow, Exported
<1> HIDE DEF i, w, again
<1>6. \A r \in TaskAssign' : (r \in TaskAssign /\ r # row) \/ (r = again /\ again \in StreamRow)
  BY <1>3, <1>5
<1>7. /\ dispatch' \in [Workers -> {"none", "init", "poll", "update", "returned"}]
      /\ handling' \in [Workers -> TaskIds]
      /\ \A v \in Workers, l \in TaskIds :
              Handles(v, l)' <=> IF v = w THEN l = i ELSE Handles(v, l)
  BY <1>1, <1>2, DispatchPlace
<1>8. PushTypeOK'
  <2>1. TaskAssign' \subseteq StreamRow
    BY <1>6, PushParts
  <2> QED BY <1>1, <1>7, <2>1 DEF PushInv, PushTypeOK, StreamRow
<1>9. PushThreadsOK' /\ mainPc' = mainPc /\ \A l : Unused(l)' <=> Unused(l)
  BY <1>1, SchedulerStill
<1>10. Underway(i, w)
  BY DEF Underway, i, w
<1>11. \A l \in TaskIds, v \in Workers : Underway(l, v)' => Underway(l, v)
  <2> SUFFICES ASSUME NEW l \in TaskIds, NEW v \in Workers, Underway(l, v)' PROVE Underway(l, v)
    OBVIOUS
  <2>1. CASE Handles(v, l)'
    BY <1>7, <1>10, <2>1 DEF Underway
  <2>2. CASE \E r \in TaskAssign' : r.TaskID = l /\ r.Url = v
    BY <1>4, <1>6, <1>10, <2>2 DEF Underway
  <2> QED BY <2>1, <2>2 DEF Underway
<1>12. UnusedNowhere' /\ PushWorkerRows' /\ PushTaskRows' /\ PushCapacity'
  BY <1>1, <1>9, <1>11, UnusedStill, WorkerRowsStill, TaskRowsStill, CapacityStill DEF SameIds
<1>13. \A r \in TaskAssign : r.TaskID = i => r = row
  BY StreamUnique DEF i
<1>14. OneWorker'
  <2>1. \A r1, r2 \in TaskAssign' : r1.TaskID = r2.TaskID => r1 = r2
    BY <1>4, <1>6, <1>13, StreamUnique
  <2> QED BY <1>1, <1>9, <1>11, <2>1, OneWorkerStill DEF SameIds
<1>15. ~\E v \in Workers : Handles(v, i)
  <2>1. ASSUME NEW v \in Workers, Handles(v, i) PROVE FALSE
    <3>1. v = w
      BY <1>2, <1>10, <2>1 DEF PushInv, OneWorker, Underway
    <3> QED BY <1>1, <2>1, <3>1 DEF Handles
  <2> QED BY <2>1
<1>16. /\ InHand(i) = 0 /\ InHand(i)' = 1
       /\ \A l \in TaskIds : l # i => InHand(l)' = InHand(l)
  <2>1. InHand(i) = 0 /\ InHand(i)' = 1
    BY <1>2, <1>7, <1>15 DEF InHand
  <2>2. ASSUME NEW l \in TaskIds, l # i PROVE (\E v \in Workers : Handles(v, l)') <=> \E v \in Workers : Handles(v, l)
    <3>1. \A v \in Workers : Handles(v, l)' => v # w /\ Handles(v, l)
      BY <1>7, <2>2
    <3>2. \A v \in Workers : Handles(v, l) => v # w
      BY <1>1, <2>2 DEF Handles
    <3>3. \A v \in Workers : Handles(v, l) => Handles(v, l)'
      BY <1>7, <3>2
    <3> QED BY <3>1, <3>3
  <2>3. ASSUME NEW l \in TaskIds, l # i PROVE InHand(l)' = InHand(l)
    BY <2>2, <2>3 DEF InHand
  <2> QED BY <2>1, <2>3
<1>17. DeliveriesCounted'
  <2>1. PICK n \in Nat, s \in Nat : n = updates[i] /\ s = row.sent /\ s + 1 <= MaxDeliveries /\ n <= s
    <3>1. updates[i] \in Nat /\ row.sent \in Nat /\ row.sent + 1 <= MaxDeliveries
      BY <1>2, PushParts
    <3>2. updates[i] + 0 <= row.sent
      BY <1>16 DEF PushInv, DeliveriesCounted, i
    <3> QED BY <3>1, <3>2
  <2>2. n + 1 <= s + 1 /\ n + 1 <= MaxDeliveries
    BY <1>2, <2>1
  <2>3. \A l \in TaskIds : updates'[l] + InHand(l)' <= MaxDeliveries
    BY <1>1, <1>16, <2>1, <2>2 DEF PushInv, DeliveriesCounted
  <2>4. ASSUME NEW r \in TaskAssign' PROVE updates'[r.TaskID] + InHand(r.TaskID)' <= r.sent
    <3>1. CASE r = again
      BY <1>1, <1>4, <1>16, <2>1, <2>2, <3>1
    <3>2. CASE r \in TaskAssign /\ r # row
      <4>1. r.TaskID # i /\ r.TaskID \in TaskIds
        BY <1>13, <3>2, PushParts
      <4>2. updates[r.TaskID] + InHand(r.TaskID) <= r.sent
        BY <3>2 DEF PushInv, DeliveriesCounted
      <4> DEFINE x == r.TaskID
      <4>3. x \in TaskIds /\ x # i
        BY <4>1
      <4> HIDE DEF x
      <4>4. InHand(x)' = InHand(x)
        BY <1>16, <4>3
      <4>5. updates'[x] + InHand(x)' <= r.sent
        BY <1>1, <4>2, <4>4 DEF x
      <4> QED BY <4>5 DEF x
    <3> QED BY <1>6, <3>1, <3>2
  <2> QED BY <2>3, <2>4 DEF DeliveriesCounted
<1>18. NoTaskForgotten'
  <2>1. ASSUME NEW l \in TaskIds, Tracked(l) PROVE Tracked(l)'
    <3>1. CASE l = i
      BY <1>2, <1>7, <3>1 DEF Tracked
    <3>2. CASE l \in lost
      BY <1>1, <3>2 DEF Tracked
    <3>3. CASE l # i /\ \E v \in Workers : Handles(v, l)
      <4>1. PICK v \in Workers : Handles(v, l)
        BY <3>3
      <4>2. v # w
        BY <1>1, <4>1 DEF Handles
      <4>3. Handles(v, l)'
        BY <1>7, <4>1, <4>2
      <4> QED BY <4>3 DEF Tracked
    <3>4. CASE l # i /\ \E r \in TaskAssign : r.TaskID = l
      <4>1. PICK r \in TaskAssign : r.TaskID = l
        BY <3>4
      <4>2. r \in TaskAssign'
        BY <1>5, <3>4, <4>1 DEF i
      <4> QED BY <4>1, <4>2 DEF Tracked
    <3> QED BY <2>1, <3>1, <3>2, <3>3, <3>4 DEF Tracked
  <2> QED BY <1>1, <2>1, TrackedStill
<1> QED BY <1>8, <1>9, <1>12, <1>14, <1>17, <1>18 DEF PushInv

\* Something is no longer on its way, and nothing was done about it.
LEMMA DropParts ==
  ASSUME PushInv, UNCHANGED <<Worker, Task, updates, mainVars, thrVars>>, TaskAssign' \subseteq TaskAssign,
         \A v \in Workers, l \in TaskIds : Handles(v, l)' => Handles(v, l),
         WorkerUp' => WorkerUp, \A l \in TaskIds : WorkerUp' /\ Tracked(l) => Tracked(l)',
         \A w \in Workers : control'[w] = "insert" =>
           control[w] = "insert" /\ (dispatch[w] = "none" => dispatch'[w] = "none")
  PROVE  /\ PushThreadsOK' /\ UnusedNowhere' /\ PushWorkerRows' /\ PushTaskRows'
         /\ OneWorker' /\ DeliveriesCounted' /\ PushCapacity' /\ NoTaskForgotten'
<1>1. PushThreadsOK' /\ mainPc' = mainPc /\ \A l : Unused(l)' <=> Unused(l)
  BY SchedulerStill
<1>2. \A l \in TaskIds, v \in Workers : Underway(l, v)' => Underway(l, v)
  BY DEF Underway
<1>3. SameIds /\ \A r1, r2 \in TaskAssign' : r1.TaskID = r2.TaskID => r1 = r2
  BY StreamUnique DEF SameIds
<1>4. UnusedNowhere' /\ OneWorker'
  BY <1>1, <1>2, <1>3, UnusedStill, OneWorkerStill
<1>5. PushWorkerRows' /\ PushTaskRows' /\ PushCapacity' /\ NoTaskForgotten'
  BY <1>1, WorkerRowsStill, TaskRowsStill, CapacityStill, TrackedStill
<1>6. DeliveriesCounted'
  <2>1. ASSUME NEW l \in TaskIds
        PROVE  updates'[l] = updates[l] /\ updates[l] \in Nat /\ InHand(l) \in {0, 1} /\ InHand(l)' \in {0, InHand(l)}
    BY PushParts DEF InHand
  <2>2. ASSUME NEW l \in TaskIds, NEW n \in Int, updates[l] + InHand(l) <= n
        PROVE  updates'[l] + InHand(l)' <= n
    BY <2>1, <2>2
  <2>3. \A l \in TaskIds : updates'[l] + InHand(l)' <= MaxDeliveries
    BY <2>2, PushConstants DEF PushInv, DeliveriesCounted
  <2>4. ASSUME NEW r \in TaskAssign' PROVE updates'[r.TaskID] + InHand(r.TaskID)' <= r.sent
    <3>1. /\ r.TaskID \in TaskIds /\ r.sent \in Int
          /\ updates[r.TaskID] + InHand(r.TaskID) <= r.sent
      BY PushParts DEF PushInv, DeliveriesCounted
    <3> QED BY <2>2, <3>1
  <2> QED BY <2>3, <2>4 DEF DeliveriesCounted
<1> QED BY <1>1, <1>4, <1>5, <1>6

LEMMA DropStep ==
  ASSUME PushInv, NEW row \in TaskAssign, ProcessRowFails(row)
  PROVE  PushInv'
<1>1. /\ TaskAssign' = TaskAssign \ {row} /\ lost' = lost \cup {row.TaskID}
      /\ UNCHANGED <<Worker, Task, mainVars, thrVars, updates, workerMain, workersFinished, control,
                     dispatch, handling, stopDispatch, freed>>
  BY DEF ProcessRowFails, vars, tables, workerProg, server
<1>2. \A v, l : Handles(v, l)' <=> Handles(v, l)
  BY <1>1 DEF Handles
<1>3. \A l : Tracked(l) => Tracked(l)'
  BY <1>1, <1>2 DEF Tracked
<1>4. PushTypeOK'
  BY <1>1, PushParts DEF PushInv, PushTypeOK
<1>5. WorkerUp' => WorkerUp
  BY <1>1 DEF WorkerUp
<1> QED BY <1>1, <1>2, <1>3, <1>4, <1>5, DropParts DEF PushInv

\* The threads of the worker program are gone.
LEMMA GoneStep ==
  ASSUME PushInv, ThreadsGone, workerMain' \in {"done", "crashed"},
         UNCHANGED <<vars, stream, updates, workersFinished, stopDispatch, freed>>
  PROVE  PushInv'
<1>1. UNCHANGED <<Worker, Task, mainVars, thrVars, TaskAssign, lost>>
  BY DEF vars, tables, stream
<1>2. ~WorkerUp' /\ \A v \in Workers : control'[v] # "insert" /\ \A l : ~Handles(v, l)'
  BY DEF ThreadsGone, WorkerUp, Handles
<1>3. PushTypeOK'
  <2>1. /\ control' \in [Workers -> {"insert", "look", "sleepy", "asleep", "end", "delete", "returned"}]
        /\ dispatch' \in [Workers -> {"none", "init", "poll", "update", "returned"}]
        /\ handling' \in [Workers -> TaskIds]
    BY PushConstants DEF ThreadsGone
  <2> QED BY <1>1, <2>1 DEF PushInv, PushTypeOK
<1> QED BY <1>1, <1>2, <1>3, DropParts DEF PushInv

\* A worker has done with its task, without a report that the database executed.
LEMMA ReleaseStep ==
  ASSUME PushInv, NEW w \in Workers, dispatch[w] = "update", Handled(w),
         UNCHANGED <<Worker, Task, mainVars, thrVars, updates, TaskAssign, workerProg, stopDispatch, freed>>,
         lost' = lost \cup {handling[w]}
  PROVE  PushInv'
<1>1. UNCHANGED <<workerMain, workersFinished, control>>
  BY DEF workerProg
<1>2. /\ dispatch' \in [Workers -> {"none", "init", "poll", "update", "returned"}]
      /\ handling' \in [Workers -> TaskIds]
      /\ \A v \in Workers, l \in TaskIds : Handles(v, l)' <=> v # w /\ Handles(v, l)
  <2>1. 0 \in TaskIds /\ dispatch' = [dispatch EXCEPT ![w] = "poll"] /\ handling' = [handling EXCEPT ![w] = 0]
    BY PushConstants DEF Handled
  <2> QED BY <2>1, DispatchPlace, ZenonT(60)
<1>3. \A v \in Workers, l \in TaskIds : Handles(v, l) => Handles(v, l)' \/ l \in lost'
  BY <1>2 DEF Handles
<1>4. \A l \in TaskIds : Tracked(l) => Tracked(l)'
  BY <1>2, <1>3 DEF Tracked
<1>5. PushTypeOK'
  BY <1>1, <1>2, PushParts DEF PushInv, PushTypeOK
<1>6. WorkerUp' => WorkerUp
  BY <1>1 DEF WorkerUp
<1>7. \A v \in Workers : dispatch[v] = "none" => dispatch'[v] = "none"
  BY PushParts DEF Handled
<1> QED BY <1>1, <1>2, <1>4, <1>5, <1>6, <1>7, DropParts DEF PushInv
-----------------------------------------------------------------------------
(* A report that the database executes.                                    *)

LEMMA ReportTables ==
  ASSUME PushInv, NEW w \in Workers, NEW i \in TaskIds, WorkerUpdateTask(PKeyOf(w), w, i, COMPLETE)
  PROVE  /\ Worker' \in Seq(WorkerRow) /\ DOMAIN Worker' = DOMAIN Worker
         /\ \A k \in DOMAIN Worker :
              /\ Worker'[k].WorkerID = Worker[k].WorkerID /\ Worker'[k].PKey = Worker[k].PKey
              /\ Worker'[k].Capacity = IF Worker[k].WorkerID = w THEN Worker[k].Capacity + 1
                                       ELSE Worker[k].Capacity
         /\ Task' \in Seq(TaskRow) /\ DOMAIN Task' = DOMAIN Task
         /\ \A j \in DOMAIN Task :
              /\ Task'[j].TaskID = Task[j].TaskID /\ Task'[j].WorkerID = Task[j].WorkerID
              /\ Task'[j].PKey = Task[j].PKey
              /\ Task'[j].State = IF Task[j].TaskID = i /\ Task[j].WorkerID = w THEN COMPLETE
                                  ELSE Task[j].State
<1>1. /\ \A k \in DOMAIN Worker : Worker[k] \in WorkerRow /\ (Worker[k].WorkerID = w => Worker[k].PKey = PKeyOf(w))
      /\ \A j \in DOMAIN Task : Task[j] \in TaskRow /\ (Task[j].WorkerID = w => Task[j].PKey = PKeyOf(w))
  BY PushParts DEF PushInv, PushWorkerRows, PushTaskRows
<1>2. Worker' = [k \in DOMAIN Worker |-> Worker'[k]] /\ Task' = [j \in DOMAIN Task |-> Task'[j]]
  BY DEF WorkerUpdateTask, SetTaskState
<1>3. ASSUME NEW k \in DOMAIN Worker
      PROVE  /\ Worker'[k] \in WorkerRow
             /\ Worker'[k].WorkerID = Worker[k].WorkerID /\ Worker'[k].PKey = Worker[k].PKey
             /\ Worker'[k].Capacity = IF Worker[k].WorkerID = w THEN Worker[k].Capacity + 1
                                      ELSE Worker[k].Capacity
  BY <1>1 DEF WorkerUpdateTask, WorkerRow
<1>4. ASSUME NEW j \in DOMAIN Task
      PROVE  /\ Task'[j] \in TaskRow
             /\ Task'[j].TaskID = Task[j].TaskID /\ Task'[j].WorkerID = Task[j].WorkerID
             /\ Task'[j].PKey = Task[j].PKey
             /\ Task'[j].State = IF Task[j].TaskID = i /\ Task[j].WorkerID = w THEN COMPLETE
                                 ELSE Task[j].State
  BY <1>1 DEF WorkerUpdateTask, SetTaskState, TaskRow
<1>5. Worker' \in Seq(WorkerRow) /\ DOMAIN Worker' = DOMAIN Worker
  BY <1>2, <1>3, MapOfSeq, PushParts
<1>6. Task' \in Seq(TaskRow) /\ DOMAIN Task' = DOMAIN Task
  BY <1>2, <1>4, MapOfSeq, PushParts
<1> QED BY <1>3, <1>4, <1>5, <1>6

LEMMA ReportStep ==
  ASSUME PushInv, NEW w \in Workers, dispatch[w] = "update",
         WorkerUpdateTask(PKeyOf(w), w, handling[w], COMPLETE), Counted(handling[w]), Handled(w),
         UNCHANGED <<mainVars, thrVars, TaskAssign, workerProg, stopDispatch, freed>>,
         lost' \in {lost, lost \cup {handling[w]}}
  PROVE  PushInv'
<1>0. PICK i \in TaskIds : i = handling[w]
  BY PushParts
<1>1. UNCHANGED <<workerMain, workersFinished, control>> /\ (WorkerUp' <=> WorkerUp)
  BY DEF workerProg, WorkerUp
<1>2. i \in TaskIds /\ Handles(w, i)
  BY <1>0 DEF Handles
<1>3. /\ dispatch' \in [Workers -> {"none", "init", "poll", "update", "returned"}]
      /\ handling' \in [Workers -> TaskIds]
      /\ \A v \in Workers, l \in TaskIds : Handles(v, l)' <=> v # w /\ Handles(v, l)
  <2>1. 0 \in TaskIds /\ dispatch' = [dispatch EXCEPT ![w] = "poll"] /\ handling' = [handling EXCEPT ![w] = 0]
    BY PushConstants DEF Handled
  <2> QED BY <2>1, DispatchPlace, ZenonT(60)
<1>4. WorkerUpdateTask(PKeyOf(w), w, i, COMPLETE) /\ updates' = [updates EXCEPT ![i] = @ + 1]
      /\ lost' \in {lost, lost \cup {i}} /\ \A l : Handles(w, l) => l = i
  BY <1>0 DEF Counted, Handles
<1>5. /\ Worker' \in Seq(WorkerRow) /\ DOMAIN Worker' = DOMAIN Worker
      /\ \A k \in DOMAIN Worker :
           /\ Worker'[k].WorkerID = Worker[k].WorkerID /\ Worker'[k].PKey = Worker[k].PKey
           /\ Worker'[k].Capacity = IF Worker[k].WorkerID = w THEN Worker[k].Capacity + 1
                                    ELSE Worker[k].Capacity
      /\ Task' \in Seq(TaskRow) /\ DOMAIN Task' = DOMAIN Task
      /\ \A j \in DOMAIN Task :
           /\ Task'[j].TaskID = Task[j].TaskID /\ Task'[j].WorkerID = Task[j].WorkerID
           /\ Task'[j].PKey = Task[j].PKey
           /\ Task'[j].State = IF Task[j].TaskID = i /\ Task[j].WorkerID = w THEN COMPLETE
                               ELSE Task[j].State
  BY <1>2, <1>4, ReportTables
<1>6. /\ \A v \in Workers : Underway(i, v) => v = w
      /\ \A j \in DOMAIN Task : Task[j].TaskID = i => Task[j].WorkerID = w
      /\ mainPc # "done" => \E j \in DOMAIN Task : Task[j].TaskID = i
  BY <1>2 DEF PushInv, OneWorker, Underway
<1>7. PushThreadsOK' /\ mainPc' = mainPc /\ \A l : Unused(l)' <=> Unused(l)
  BY SchedulerStill
<1>8. /\ InHand(i) = 1 /\ InHand(i)' = 0
      /\ \A l \in TaskIds : l # i => InHand(l)' = InHand(l)
  <2>1. InHand(i) = 1 /\ InHand(i)' = 0
    BY <1>2, <1>3, <1>6 DEF InHand, Underway
  <2>2. ASSUME NEW l \in TaskIds, l # i PROVE \A v \in Workers : Handles(v, l)' <=> Handles(v, l)
    BY <1>3, <1>4, <2>2
  <2>3. ASSUME NEW l \in TaskIds, l # i PROVE InHand(l)' = InHand(l)
    BY <2>2, <2>3 DEF InHand
  <2> QED BY <2>1, <2>3
<1>9. PICK n \in Nat : n = updates[i] /\ n + 1 <= MaxDeliveries
  <2>1. updates[i] \in Nat
    BY <1>2, PushParts
  <2>2. updates[i] + 1 <= MaxDeliveries
    BY <1>2, <1>8 DEF PushInv, DeliveriesCounted
  <2> QED BY <2>1, <2>2
<1>10. /\ updates' \in [TaskIds -> 0 .. MaxDeliveries] /\ updates'[i] = n + 1
       /\ \A l \in TaskIds : l # i => updates'[l] = updates[l]
  <2>1. n + 1 \in 0 .. MaxDeliveries
    BY <1>9, PushConstants
  <2>2. updates' = [updates EXCEPT ![i] = n + 1] /\ updates \in [TaskIds -> 0 .. MaxDeliveries]
    BY <1>4, <1>9, PushParts
  <2> QED BY <1>2, <2>1, <2>2
<1>11. PushTypeOK'
  <2>1. lost' \subseteq TaskIds
    BY <1>2, <1>4, PushParts
  <2> QED BY <1>1, <1>3, <1>5, <1>10, <2>1 DEF PushInv, PushTypeOK
<1>12. \A l \in TaskIds, v \in Workers : Underway(l, v)' => Underway(l, v)
  BY <1>3 DEF Underway
<1>13. SameIds
  BY <1>5 DEF SameIds
<1>14. UnusedNowhere'
  <2>1. \A l \in TaskIds : updates'[l] = updates[l] \/ \E v \in Workers : Underway(l, v)
    BY <1>2, <1>10 DEF Underway
  <2> QED BY <1>7, <1>12, <1>13, <2>1, UnusedStill
<1>15. PushWorkerRows'
  <2>1. \A v \in Workers : dispatch[v] = "none" => dispatch'[v] = "none"
    BY PushParts DEF Handled
  <2> QED BY <1>1, <1>5, <2>1, WorkerRowsStill
<1>16. OneWorker'
  BY <1>7, <1>12, <1>13, StreamUnique, OneWorkerStill
<1>17. PushTaskRows'
  <2>1. ASSUME NEW j \in DOMAIN Task'
        PROVE  /\ Task'[j].TaskID \in TaskIds /\ Task'[j].PKey = PKeyOf(Task'[j].WorkerID)
               /\ Task'[j].State = IF updates'[Task'[j].TaskID] = 0 THEN RUNNING ELSE COMPLETE
               /\ \E k \in DOMAIN Worker' : Worker'[k].WorkerID = Task'[j].WorkerID
    <3>1. /\ Task[j].TaskID \in TaskIds /\ Task[j].PKey = PKeyOf(Task[j].WorkerID)
          /\ Task[j].State = IF updates[Task[j].TaskID] = 0 THEN RUNNING ELSE COMPLETE
          /\ \E k \in DOMAIN Worker : Worker[k].WorkerID = Task[j].WorkerID
      BY <1>5 DEF PushInv, PushTaskRows
    <3>2. CASE Task[j].TaskID = i
      BY <1>5, <1>6, <1>9, <1>10, <3>1, <3>2
    <3>3. CASE Task[j].TaskID # i
      BY <1>5, <1>10, <3>1, <3>3
    <3> QED BY <3>2, <3>3
  <2>2. \A j, l \in DOMAIN Task' : Task'[j].TaskID = Task'[l].TaskID => j = l
    BY <1>5 DEF PushInv, PushTaskRows
  <2> QED BY <2>1, <2>2 DEF PushTaskRows
<1>18. DeliveriesCounted'
  <2>1. ASSUME NEW l \in TaskIds, NEW m \in Int, updates[l] + InHand(l) <= m
        PROVE  updates'[l] + InHand(l)' <= m
    <3>1. CASE l = i
      <4>1. n + 1 <= m
        BY <1>8, <1>9, <2>1, <3>1
      <4>2. (n + 1) + 0 <= m
        BY <4>1
      <4>3. updates'[l] = n + 1 /\ InHand(l)' = 0
        BY <1>8, <1>10, <3>1
      <4> QED BY <4>2, <4>3
    <3>2. CASE l # i
      BY <1>8, <1>10, <2>1, <3>2
    <3> QED BY <3>1, <3>2
  <2>2. \A l \in TaskIds : updates'[l] + InHand(l)' <= MaxDeliveries
    BY <2>1, PushConstants DEF PushInv, DeliveriesCounted
  <2>3. ASSUME NEW r \in TaskAssign' PROVE updates'[r.TaskID] + InHand(r.TaskID)' <= r.sent
    <3>1. /\ r.TaskID \in TaskIds /\ r.sent \in Int
          /\ updates[r.TaskID] + InHand(r.TaskID) <= r.sent
      BY PushParts DEF PushInv, DeliveriesCounted
    <3> QED BY <2>1, <3>1
  <2> QED BY <2>2, <2>3 DEF DeliveriesCounted
<1>19. PushCapacity'
  <2> SUFFICES ASSUME mainPc # "done", NEW k \in DOMAIN Worker, NEW x, x = Worker[k].WorkerID,
                      \A j \in DOMAIN Task : Task[j].WorkerID = x => updates'[Task[j].TaskID] <= 1
               PROVE  Worker'[k].Capacity + Cardinality(RunningAt(x)') = HttpCapacity
    BY <1>5, <1>7, CapacityIs, ZenonT(60) DEF Balanced
  <2>1. PICK jj \in DOMAIN Task : Task[jj].TaskID = i /\ Task[jj].WorkerID = w
    BY <1>6
  <2>2. Balanced(k)
    BY CapacityIs DEF PushInv
  <2>3. \A j \in DOMAIN Task : Task[j].TaskID \in TaskIds /\ (Task[j].TaskID = i => j = jj)
    BY <2>1 DEF PushInv, PushTaskRows
  <2>4. PICK c \in Int : c = Worker[k].Capacity
    BY PushParts DEF WorkerRow
  <2>5. CASE x = w
    <3>1. n = 0
      BY <1>9, <1>10, <2>1, <2>5
    <3>2. Task[jj].State = RUNNING
      BY <1>9, <2>1, <3>1 DEF PushInv, PushTaskRows
    <3>3. \A j \in DOMAIN Task : Task[j].WorkerID = w => updates[Task[j].TaskID] <= 1
      <4>1. \A j \in DOMAIN Task : updates[Task[j].TaskID] \in {0, updates'[Task[j].TaskID]}
        BY <1>9, <1>10, <2>3, <3>1
      <4>2. 0 <= 1
        OBVIOUS
      <4> QED BY <2>5, <4>1, <4>2
    <3>4. c + Cardinality(RunningAt(w)) = HttpCapacity
      BY <2>2, <2>4, <2>5, <3>3 DEF Balanced
    <3>5. RunningAt(w)' = RunningAt(w) \ {jj}
      BY <1>5, <2>1, <2>3 DEF RunningAt, RUNNING, COMPLETE
    <3>6. jj \in RunningAt(w)
      BY <2>1, <3>2 DEF RunningAt
    <3>7. Cardinality(RunningAt(w)') = Cardinality(RunningAt(w)) - 1 /\ Cardinality(RunningAt(w)) \in Nat
      BY <3>5, <3>6, FS_RemoveElement, RunningAtFinite, PushParts, ZenonT(60)
    <3>8. Worker'[k].Capacity = c + 1
      BY <1>5, <2>4, <2>5
    <3>9. PICK d \in Nat : d = Cardinality(RunningAt(w)) /\ Cardinality(RunningAt(w)') = d - 1
      BY <3>7
    <3>10. (c + 1) + (d - 1) = c + d
      BY <2>4, <3>9
    <3> QED BY <2>5, <3>4, <3>8, <3>9, <3>10
  <2>6. CASE x # w
    <3>1. \A j \in DOMAIN Task : Task[j].WorkerID = x =>
            Task[j].TaskID # i /\ updates'[Task[j].TaskID] = updates[Task[j].TaskID]
      BY <1>6, <1>10, <2>3, <2>6
    <3>2. RunningAt(x)' = RunningAt(x)
      BY <1>5, <2>6 DEF RunningAt
    <3> QED BY <1>5, <2>2, <2>6, <3>1, <3>2 DEF Balanced
  <2> QED BY <2>5, <2>6
<1>20. NoTaskForgotten'
  <2> SUFFICES ASSUME WorkerUp, NEW l \in TaskIds, InState(l, RUNNING)' PROVE Tracked(l)'
    BY <1>1, ForgottenIs
  <2>1. l # i /\ InState(l, RUNNING)
    BY <1>5, <1>6 DEF InState, RUNNING, COMPLETE
  <2>2. Tracked(l)
    BY <2>1, ForgottenIs DEF PushInv
  <2>3. \A v \in Workers : Handles(v, l) => Handles(v, l)'
    BY <1>3, <1>4, <2>1
  <2> QED BY <1>4, <2>2, <2>3 DEF Tracked
<1> QED BY <1>7, <1>11, <1>14, <1>15, <1>16, <1>17, <1>18, <1>19, <1>20 DEF PushInv
-----------------------------------------------------------------------------
(* A task is pushed.                                                       *)

\* The tables after task i was pushed to worker w, whose row is k.
PlacedAt(i, w, p, k) ==
  /\ w \in Workers /\ p = PKeyOf(w)
  /\ Worker' \in Seq(WorkerRow) /\ DOMAIN Worker' = DOMAIN Worker
  /\ \A l \in DOMAIN Worker :
       /\ Worker'[l].WorkerID = Worker[l].WorkerID /\ Worker'[l].PKey = Worker[l].PKey
       /\ Worker'[l].Capacity = IF l = k THEN Worker[l].Capacity - 1 ELSE Worker[l].Capacity
  /\ Task' \in Seq(TaskRow) /\ Len(Task) + 1 \notin DOMAIN Task
  /\ DOMAIN Task' = DOMAIN Task \cup {Len(Task) + 1}
  /\ \A j \in DOMAIN Task : Task'[j] = Task[j]
  /\ Task'[Len(Task) + 1] = [TaskID |-> i, WorkerID |-> w, State |-> RUNNING, PKey |-> p]

LEMMA PlacedTables ==
  ASSUME PushInv, NEW i \in TaskIds, NEW p, NEW k \in AvailableWorkers(p), NEW w, w = Worker[k].WorkerID,
         NEW c, c = Worker[k].Capacity - 1, NewTask(i, w, RUNNING, p), SetCapacity(p, w, c)
  PROVE  PlacedAt(i, w, p, k)
<1> DEFINE row == [TaskID |-> i, WorkerID |-> w, State |-> RUNNING, PKey |-> p]
<1>1. k \in DOMAIN Worker /\ Worker[k].PKey = p
  BY DEF AvailableWorkers
<1>2. /\ w \in Workers /\ p = PKeyOf(w) /\ \A l \in DOMAIN Worker : Worker[l].WorkerID = w => l = k
      /\ \A l \in DOMAIN Worker : Worker[l] \in WorkerRow
  BY <1>1, PushParts DEF PushInv, PushWorkerRows
<1>3. w \in Nat /\ i \in Nat /\ p \in Nat
  BY <1>1, <1>2, PushConstants DEF WorkerRow
<1>4. ASSUME NEW l \in DOMAIN Worker
      PROVE  /\ Worker'[l] \in WorkerRow
             /\ Worker'[l].WorkerID = Worker[l].WorkerID /\ Worker'[l].PKey = Worker[l].PKey
             /\ Worker'[l].Capacity = IF l = k THEN Worker[l].Capacity - 1 ELSE Worker[l].Capacity
  <2>1. CASE l = k
    <3>1. Worker'[l] = [Worker[l] EXCEPT !.Capacity = Worker[k].Capacity - 1] /\ Worker[l] \in WorkerRow
      BY <1>1, <1>2, <2>1 DEF SetCapacity
    <3> QED BY <2>1, <3>1 DEF WorkerRow
  <2>2. CASE l # k
    <3>1. Worker'[l] = Worker[l] /\ Worker[l] \in WorkerRow
      BY <1>1, <1>2, <2>2 DEF SetCapacity
    <3> QED BY <2>2, <3>1
  <2> QED BY <2>1, <2>2
<1>5. Worker' = [l \in DOMAIN Worker |-> Worker'[l]]
  BY DEF SetCapacity
<1>6. Worker' \in Seq(WorkerRow) /\ DOMAIN Worker' = DOMAIN Worker
  BY <1>4, <1>5, MapOfSeq, PushParts
<1>7. row \in TaskRow
  BY <1>3 DEF TaskRow
<1>8. Task' = Append(Task, row) /\ Task \in Seq(TaskRow)
  BY PushParts DEF NewTask
<1> HIDE DEF row
<1>9. /\ Task' \in Seq(TaskRow) /\ Len(Task) + 1 \notin DOMAIN Task
      /\ DOMAIN Task' = DOMAIN Task \cup {Len(Task) + 1}
      /\ \A j \in DOMAIN Task : Task'[j] = Task[j]
      /\ Task'[Len(Task) + 1] = row
  BY <1>7, <1>8
<1> QED BY <1>2, <1>4, <1>6, <1>9 DEF PlacedAt, row

LEMMA PlaceParts ==
  ASSUME PushInv, NEW i \in TaskIds, Unused(i), NEW p, NEW k \in AvailableWorkers(p),
         NEW w, w = Worker[k].WorkerID,
         NEW c, c = Worker[k].Capacity - 1, NewTask(i, w, RUNNING, p), SetCapacity(p, w, c),
         TaskAssign' = TaskAssign \cup {[TaskID |-> i, Url |-> w, sent |-> 0]},
         UNCHANGED <<updates, lost, workerProg, server>>,
         \A l \in TaskIds : Unused(l)' => Unused(l) /\ l # i, mainPc # "done", mainPc' # "done"
  PROVE  /\ PushTypeOK' /\ UnusedNowhere' /\ PushWorkerRows' /\ PushTaskRows'
         /\ OneWorker' /\ DeliveriesCounted' /\ PushCapacity' /\ NoTaskForgotten'
<1> DEFINE row == [TaskID |-> i, Url |-> w, sent |-> 0]
<1>0. PICK n \in Nat : n = Len(Task) + 1
  BY PushParts
<1>1. UNCHANGED <<workerMain, workersFinished, control, dispatch, handling, stopDispatch, freed>>
  BY DEF workerProg, server
<1>2. /\ w \in Workers /\ p = PKeyOf(w) /\ k \in DOMAIN Worker
      /\ Worker' \in Seq(WorkerRow) /\ DOMAIN Worker' = DOMAIN Worker
      /\ \A l \in DOMAIN Worker :
           /\ Worker'[l].WorkerID = Worker[l].WorkerID /\ Worker'[l].PKey = Worker[l].PKey
           /\ Worker'[l].Capacity = IF l = k THEN Worker[l].Capacity - 1 ELSE Worker[l].Capacity
      /\ Task' \in Seq(TaskRow) /\ n \notin DOMAIN Task /\ DOMAIN Task' = DOMAIN Task \cup {n}
      /\ \A j \in DOMAIN Task : Task'[j] = Task[j]
      /\ Task'[n].TaskID = i /\ Task'[n].WorkerID = w /\ Task'[n].State = RUNNING /\ Task'[n].PKey = p
  <2>1. k \in DOMAIN Worker
    BY DEF AvailableWorkers
  <2>2. PlacedAt(i, w, p, k)
    BY PlacedTables
  <2>3. /\ Task' \in Seq(TaskRow) /\ n \notin DOMAIN Task /\ DOMAIN Task' = DOMAIN Task \cup {n}
        /\ \A j \in DOMAIN Task : Task'[j] = Task[j]
        /\ Task'[n] = [TaskID |-> i, WorkerID |-> w, State |-> RUNNING, PKey |-> p]
    BY <1>0, <2>2 DEF PlacedAt
  <2>4. Task'[n].TaskID = i /\ Task'[n].WorkerID = w /\ Task'[n].State = RUNNING /\ Task'[n].PKey = p
    BY <2>3
  <2> QED BY <2>1, <2>2, <2>3, <2>4 DEF PlacedAt
<1>3. row \in StreamRow /\ row.TaskID = i /\ row.Url = w /\ row.sent = 0
      /\ TaskAssign' = TaskAssign \cup {row}
  BY <1>2, PushConstants DEF StreamRow
<1> HIDE DEF row
<1>5. /\ \A j \in DOMAIN Task : Task[j].TaskID # i
      /\ \A v \in Workers : ~Underway(i, v)
      /\ updates[i] = 0
  BY DEF PushInv, UnusedNowhere
<1>6. \A l, v : Handles(v, l)' <=> Handles(v, l)
  BY <1>1 DEF Handles
<1>7. \A l \in TaskIds, v \in Workers : Underway(l, v)' <=> Underway(l, v) \/ (l = i /\ v = w)
  BY <1>3, <1>6 DEF Underway
<1>8. PushTypeOK'
  <2>1. TaskAssign' \subseteq StreamRow
    BY <1>3, PushParts
  <2> QED BY <1>1, <1>2, <2>1 DEF PushInv, PushTypeOK, StreamRow
<1>9. UnusedNowhere'
  <2> SUFFICES ASSUME NEW l \in TaskIds, Unused(l)'
               PROVE  /\ \A j \in DOMAIN Task' : Task'[j].TaskID # l
                      /\ \A v \in Workers : ~Underway(l, v)'
                      /\ updates'[l] = 0
    BY DEF UnusedNowhere
  <2>1. /\ l # i /\ \A j \in DOMAIN Task : Task[j].TaskID # l
        /\ \A v \in Workers : ~Underway(l, v)
        /\ updates[l] = 0
    BY DEF PushInv, UnusedNowhere
  <2> QED BY <1>2, <1>7, <2>1
<1>10. PushWorkerRows'
  BY <1>1, <1>2, WorkerRowsStill
<1>11. PushTaskRows'
  <2>1. ASSUME NEW j \in DOMAIN Task'
        PROVE  /\ Task'[j].TaskID \in TaskIds /\ Task'[j].PKey = PKeyOf(Task'[j].WorkerID)
               /\ Task'[j].State = IF updates'[Task'[j].TaskID] = 0 THEN RUNNING ELSE COMPLETE
               /\ \E l \in DOMAIN Worker' : Worker'[l].WorkerID = Task'[j].WorkerID
    <3>1. CASE j \in DOMAIN Task
      BY <1>2, <3>1 DEF PushInv, PushTaskRows
    <3>2. CASE j = n
      BY <1>2, <1>5, <3>2
    <3> QED BY <1>2, <3>1, <3>2
  <2>2. \A j, l \in DOMAIN Task' : Task'[j].TaskID = Task'[l].TaskID => j = l
    BY <1>2, <1>5 DEF PushInv, PushTaskRows
  <2> QED BY <2>1, <2>2 DEF PushTaskRows
<1>12. OneWorker'
  <2> SUFFICES ASSUME NEW l \in TaskIds, NEW v \in Workers, Underway(l, v)'
               PROVE  /\ \A u \in Workers : Underway(l, u)' => u = v
                      /\ \A j \in DOMAIN Task' : Task'[j].TaskID = l => Task'[j].WorkerID = v
                      /\ mainPc' # "done" => \E j \in DOMAIN Task' : Task'[j].TaskID = l
                      /\ \A r1, r2 \in TaskAssign' : r1.TaskID = l /\ r2.TaskID = l => r1 = r2
    BY DEF OneWorker
  <2>1. \A r \in TaskAssign : r.TaskID # i
    BY <1>5, PushParts DEF Underway
  <2>2. CASE l = i
    <3>1. v = w
      BY <1>5, <1>7, <2>2
    <3> QED BY <1>2, <1>3, <1>5, <1>7, <2>1, <2>2, <3>1
  <2>3. CASE l # i
    <3>1. Underway(l, v)
      BY <1>7, <2>3
    <3>2. /\ \A u \in Workers : Underway(l, u) => u = v
          /\ \A j \in DOMAIN Task : Task[j].TaskID = l => Task[j].WorkerID = v
          /\ \E j \in DOMAIN Task : Task[j].TaskID = l
          /\ \A r1, r2 \in TaskAssign : r1.TaskID = l /\ r2.TaskID = l => r1 = r2
      BY <3>1 DEF PushInv, OneWorker
    <3> QED BY <1>2, <1>3, <1>7, <2>3, <3>2
  <2> QED BY <2>2, <2>3
<1>13. DeliveriesCounted'
  <2>1. \A l : InHand(l)' = InHand(l)
    BY <1>6 DEF InHand
  <2>2. InHand(i) = 0 /\ 0 + 0 <= 0
    BY <1>5 DEF InHand, Underway
  <2>3. ASSUME NEW r \in TaskAssign' PROVE updates'[r.TaskID] + InHand(r.TaskID)' <= r.sent
    <3>1. CASE r \in TaskAssign
      BY <2>1, <3>1 DEF PushInv, DeliveriesCounted
    <3>2. CASE r = row
      BY <1>3, <1>5, <2>1, <2>2, <3>2
    <3> QED BY <1>3, <3>1, <3>2
  <2> QED BY <2>1, <2>3 DEF PushInv, DeliveriesCounted
<1>14. PushCapacity'
  <2> SUFFICES ASSUME NEW l \in DOMAIN Worker, NEW x, x = Worker[l].WorkerID,
                      \A j \in DOMAIN Task' : Task'[j].WorkerID = x => updates'[Task'[j].TaskID] <= 1
               PROVE  Worker'[l].Capacity + Cardinality(RunningAt(x)') = HttpCapacity
    BY <1>2, CapacityIs DEF Balanced
  <2>1. Worker[l].Capacity + Cardinality(RunningAt(x)) = HttpCapacity
    <3>1. Balanced(l)
      BY CapacityIs DEF PushInv
    <3>2. \A j \in DOMAIN Task : Task[j].WorkerID = x => updates[Task[j].TaskID] <= 1
      BY <1>2
    <3> QED BY <3>1, <3>2 DEF Balanced
  <2>2. PICK b \in Int : b = Worker[l].Capacity
    BY PushParts DEF WorkerRow
  <2>3. CASE l = k
    <3>1. RunningAt(x)' = RunningAt(x) \cup {n} /\ n \notin RunningAt(x)
      BY <1>2, <2>3 DEF RunningAt
    <3>2. PICK d \in Nat : d = Cardinality(RunningAt(x)) /\ Cardinality(RunningAt(x)') = d + 1
      <4>1. IsFiniteSet(RunningAt(x)) /\ Cardinality(RunningAt(x)) \in Nat
        BY RunningAtFinite, PushParts
      <4>2. Cardinality(RunningAt(x)') = Cardinality(RunningAt(x)) + 1
        BY <3>1, <4>1, FS_AddElement
      <4> QED BY <4>1, <4>2
    <3>3. Worker'[l].Capacity = b - 1
      BY <1>2, <2>2, <2>3
    <3>4. (b - 1) + (d + 1) = b + d
      BY <2>2, <3>2
    <3> QED BY <2>1, <2>2, <3>2, <3>3, <3>4
  <2>4. CASE l # k
    <3>1. x # w
      BY <1>2, <2>4 DEF PushInv, PushWorkerRows
    <3>2. RunningAt(x)' = RunningAt(x)
      BY <1>2, <3>1 DEF RunningAt
    <3> QED BY <1>2, <2>1, <2>4, <3>2
  <2> QED BY <2>3, <2>4
<1>15. NoTaskForgotten'
  <2> SUFFICES ASSUME WorkerUp, NEW l \in TaskIds, InState(l, RUNNING)' PROVE Tracked(l)'
    BY <1>1, ForgottenIs DEF WorkerUp
  <2>1. CASE l = i
    BY <1>3, <2>1 DEF Tracked
  <2>2. CASE l # i
    <3>1. InState(l, RUNNING)
      BY <1>2, <2>2 DEF InState
    <3>2. Tracked(l)
      BY <3>1, ForgottenIs DEF PushInv
    <3> QED BY <1>3, <1>6, <3>2 DEF Tracked
  <2> QED BY <2>1, <2>2
<1> QED BY <1>8, <1>9, <1>10, <1>11, <1>12, <1>13, <1>14, <1>15
-----------------------------------------------------------------------------
(* The scheduler.                                                          *)

LEMMA SchedulerParts ==
  ASSUME PushInv
  PROVE  /\ scheduleAlgo = "push-fifo" /\ mainFinished \in BOOLEAN
         /\ mainPc \in {"truncateWorkers", "startThreads", "run", "join", "teardownWorkers"} \cup Ended
         /\ schedLatsArrayIndex \in Nat /\ taskindex \in Nat /\ taskindex <= schedLatsArrayIndex
         /\ pc \in [Threads -> {"notStarted", "turn", "probe", "gaveUp", "loopTest", "finished", "dead"}]
         /\ taskID \in [Threads -> Nat] /\ probe \in [Threads -> [pkey : AllPKeys, count : Nat]]
         /\ \A t \in Threads : pc[t] = "probe" => taskID[t] \in TaskIds /\ taskID[t] < taskindex
         /\ \A t, u \in Threads : pc[t] = "probe" /\ pc[u] = "probe" /\ taskID[t] = taskID[u] => t = u
         /\ mainPc \in {"truncateWorkers", "startThreads"} =>
              taskindex = 0 /\ \A t \in Threads : pc[t] = "notStarted"
         /\ mainPc \in {"teardownWorkers", "done"} => \A t \in Threads : pc[t] = "finished"
BY DEF PushInv, PushThreadsOK

\* Nothing but the scheduler's own variables changes, or the task table goes.
LEMMA SchedulerStep ==
  ASSUME PushInv, PushThreadsOK', UNCHANGED pipeVars, Worker' = Worker,
         Task' = Task \/ (Task' = <<>> /\ mainPc' = "done"), mainPc' # "done" => mainPc # "done",
         \A i \in TaskIds : Unused(i)' => Unused(i)
  PROVE  PushInv'
<1>1. UNCHANGED <<TaskAssign, lost, updates, workerMain, workersFinished, control,
                  dispatch, handling, stopDispatch, freed>>
  BY DEF pipeVars, stream, workerProg, server
<1>2. Task' \in Seq(TaskRow)
  BY PushParts, EmptyTasks
<1>3. PushTypeOK'
  BY <1>1, <1>2 DEF PushInv, PushTypeOK
<1>4. /\ \A i \in TaskIds, w \in Workers : Handles(w, i)' <=> Handles(w, i)
      /\ WorkerUp' => WorkerUp
  BY <1>1 DEF Handles, WorkerUp
<1> QED BY <1>1, <1>3, <1>4, QuietStep DEF PushInv

\* A thread goes on to a place where it asks nobody.
LEMMA ThreadMoves ==
  ASSUME PushInv, NEW t \in Threads, mainPc \in {"run", "join", "exited", "aborted"},
         NEW place \in {"turn", "gaveUp", "loopTest", "finished", "dead"}, Goto(t, place),
         UNCHANGED <<mainVars, schedLatsArrayIndex, taskindex, taskID>>,
         probe' \in [Threads -> [pkey : AllPKeys, count : Nat]]
  PROVE  /\ PushThreadsOK' /\ mainPc' = mainPc
         /\ \A i \in TaskIds : Unused(i)' => Unused(i) /\ (pc[t] = "probe" => i # taskID[t])
<1>1. UNCHANGED <<scheduleAlgo, mainPc, mainFinished>>
  BY DEF mainVars, options
<1>2. /\ pc' \in [Threads -> {"notStarted", "turn", "probe", "gaveUp", "loopTest", "finished", "dead"}]
      /\ \A u \in Threads : pc'[u] = "probe" => u # t /\ pc[u] = "probe"
  BY SchedulerParts DEF Goto
<1>3. PushThreadsOK'
  BY <1>1, <1>2, SchedulerParts DEF PushThreadsOK
<1>4. ASSUME NEW i \in TaskIds, Unused(i)' PROVE Unused(i) /\ (pc[t] = "probe" => i # taskID[t])
  <2>1. CASE i >= taskindex
    <3>1. pc[t] = "probe" => taskID[t] < taskindex /\ taskID[t] \in Nat /\ taskindex \in Nat /\ i \in Nat
      BY SchedulerParts, PushConstants
    <3> QED BY <2>1, <3>1 DEF Unused
  <2>2. CASE \E u \in Threads : pc'[u] = "probe" /\ taskID'[u] = i
    BY <1>2, <2>2, SchedulerParts DEF Unused
  <2> QED BY <1>4, <2>1, <2>2 DEF Unused
<1> QED BY <1>1, <1>3, <1>4

\* A thread ends the process.
LEMMA ThreadDies ==
  ASSUME PushInv, NEW t \in Threads, Die(t), mainPc' \in {"exited", "aborted"},
         schedLatsArrayIndex' \in {schedLatsArrayIndex, schedLatsArrayIndex + 1},
         UNCHANGED <<options, mainFinished, taskindex, taskID, probe>>
  PROVE  /\ PushThreadsOK'
         /\ \A i \in TaskIds : Unused(i)' => Unused(i) /\ (pc[t] = "probe" => i # taskID[t])
<1>1. UNCHANGED scheduleAlgo
  BY DEF options
<1>2. /\ pc' \in [Threads -> {"notStarted", "turn", "probe", "gaveUp", "loopTest", "finished", "dead"}]
      /\ \A u \in Threads : pc'[u] = "probe" => u # t /\ pc[u] = "probe"
  BY SchedulerParts DEF Die, Asking
<1>3. schedLatsArrayIndex' \in Nat /\ taskindex' \in Nat /\ taskindex' <= schedLatsArrayIndex'
  BY SchedulerParts
<1>4. PushThreadsOK'
  BY <1>1, <1>2, <1>3, SchedulerParts DEF PushThreadsOK, Ended
<1>5. ASSUME NEW i \in TaskIds, Unused(i)' PROVE Unused(i) /\ (pc[t] = "probe" => i # taskID[t])
  <2>1. CASE i >= taskindex
    <3>1. pc[t] = "probe" => taskID[t] < taskindex /\ taskID[t] \in Nat /\ taskindex \in Nat /\ i \in Nat
      BY SchedulerParts, PushConstants
    <3> QED BY <2>1, <3>1 DEF Unused
  <2>2. CASE \E u \in Threads : pc'[u] = "probe" /\ taskID'[u] = i
    BY <1>2, <2>2, SchedulerParts DEF Unused
  <2> QED BY <1>5, <2>1, <2>2 DEF Unused
<1> QED BY <1>4, <1>5

LEMMA PushScheduleStep ==
  ASSUME PushInv, NEW t \in Threads, PushSchedule(t)
  PROVE  PushInv'
<1>1. /\ mainPc \in {"run", "join"} /\ pc[t] = "turn" /\ schedLatsArrayIndex < MaxEntries
      /\ schedLatsArrayIndex' = schedLatsArrayIndex + 1 /\ taskindex' = taskindex + 1
      /\ taskID' = [taskID EXCEPT ![t] = taskindex] /\ pc' = [pc EXCEPT ![t] = "probe"]
      /\ Worker' = Worker /\ Task' = Task /\ UNCHANGED pipeVars
      /\ UNCHANGED <<scheduleAlgo, mainPc, mainFinished>>
  BY DEF PushSchedule, Alive, Goto, tables, mainVars, options
<1>2. PICK p \in AllPKeys : probe' = [probe EXCEPT ![t] = [pkey |-> p, count |-> 1]]
  BY DEF PushSchedule
<1>3. probe' \in [Threads -> [pkey : AllPKeys, count : Nat]]
  BY <1>2, SchedulerParts
<1>4. PICK n \in Nat, s \in Nat : /\ n = taskindex /\ s = schedLatsArrayIndex /\ n <= s /\ s < MaxEntries
  BY <1>1, SchedulerParts
<1>5. n \in TaskIds /\ n < n + 1 /\ n + 1 \in Nat /\ s + 1 \in Nat /\ n + 1 <= s + 1
  BY <1>4, PushConstants DEF TaskIds
<1>6. /\ pc' \in [Threads -> {"notStarted", "turn", "probe", "gaveUp", "loopTest", "finished", "dead"}]
      /\ taskID' \in [Threads -> Nat] /\ pc'[t] = "probe" /\ taskID'[t] = n
      /\ \A u \in Threads : u # t => pc'[u] = pc[u] /\ taskID'[u] = taskID[u]
  BY <1>1, <1>4, SchedulerParts
<1>7. \A u \in Threads : pc[u] = "probe" => taskID[u] \in TaskIds /\ taskID[u] \in Nat /\ taskID[u] < n
  BY <1>4, SchedulerParts
<1>8. \A u \in Threads : pc[u] = "probe" => taskID[u] < n + 1 /\ taskID[u] # n
  BY <1>4, <1>7
<1>9. PushThreadsOK'
  <2>1. \A u \in Threads : pc'[u] = "probe" => taskID'[u] \in TaskIds /\ taskID'[u] < taskindex'
    BY <1>1, <1>4, <1>5, <1>6, <1>7, <1>8
  <2>2. \A u, v \in Threads : pc'[u] = "probe" /\ pc'[v] = "probe" /\ taskID'[u] = taskID'[v] => u = v
    BY <1>6, <1>8, SchedulerParts
  <2>3. schedLatsArrayIndex' \in Nat /\ taskindex' \in Nat /\ taskindex' <= schedLatsArrayIndex'
    BY <1>1, <1>4, <1>5
  <2> QED BY <1>1, <1>3, <1>6, <2>1, <2>2, <2>3, SchedulerParts DEF PushThreadsOK
<1>10. \A i \in TaskIds : Unused(i)' => Unused(i)
  <2> SUFFICES ASSUME NEW i \in TaskIds, Unused(i)' PROVE Unused(i)
    OBVIOUS
  <2>1. i \in Nat
    BY PushConstants
  <2>2. CASE i >= n + 1
    <3>1. i >= n
      BY <1>4, <2>1, <2>2
    <3> QED BY <1>4, <3>1 DEF Unused
  <2>3. CASE i = n
    BY <1>4, <2>1, <2>3 DEF Unused
  <2>4. CASE \E u \in Threads : u # t /\ pc[u] = "probe" /\ taskID[u] = i
    BY <2>4 DEF Unused
  <2> QED BY <1>1, <1>4, <1>6, <2>2, <2>3, <2>4 DEF Unused
<1> QED BY <1>1, <1>9, <1>10, SchedulerStep

\* What the procedure PushTask does, whatever the thread makes of the answer.
LEMMA PushTaskStep ==
  ASSUME PushInv, NEW t \in Threads, pc[t] = "probe", NEW status,
         PushTask(probe[t].pkey, taskID[t], status), UNCHANGED <<updates, lost, workerProg, server>>,
         PushThreadsOK', mainPc' # "done",
         \A i \in TaskIds : Unused(i)' => Unused(i) /\ (status = SUCCESS => i # taskID[t])
  PROVE  PushInv'
<1>1. mainPc # "done"
  BY SchedulerParts
<1>2. CASE UNCHANGED <<tables, TaskAssign>>
  BY <1>1, <1>2, SchedulerStep DEF tables, pipeVars, stream
<1>3. CASE \E k \in AvailableWorkers(probe[t].pkey) :
             /\ status = SUCCESS
             /\ NewTask(taskID[t], Worker[k].WorkerID, RUNNING, probe[t].pkey)
             /\ SetCapacity(probe[t].pkey, Worker[k].WorkerID, Worker[k].Capacity - 1)
             /\ TaskAssign' = TaskAssign \cup {[TaskID |-> taskID[t], Url |-> Worker[k].WorkerID,
                                               sent |-> 0]}
  <2>1. PICK i \in TaskIds, p \in AllPKeys : i = taskID[t] /\ p = probe[t].pkey /\ Unused(i)
    BY SchedulerParts DEF Unused
  <2>2. PICK k \in AvailableWorkers(p) :
             /\ status = SUCCESS
             /\ NewTask(i, Worker[k].WorkerID, RUNNING, p)
             /\ SetCapacity(p, Worker[k].WorkerID, Worker[k].Capacity - 1)
             /\ TaskAssign' = TaskAssign \cup {[TaskID |-> i, Url |-> Worker[k].WorkerID, sent |-> 0]}
    BY <1>3, <2>1
  <2>3. PICK w, c : w = Worker[k].WorkerID /\ c = Worker[k].Capacity - 1
    OBVIOUS
  <2>4. NewTask(i, w, RUNNING, p) /\ SetCapacity(p, w, c) /\ TaskAssign' = TaskAssign \cup {[TaskID |-> i, Url |-> w, sent |-> 0]}
    BY <2>2, <2>3
  <2>5. \A l \in TaskIds : Unused(l)' => Unused(l) /\ l # i
    BY <2>1, <2>2
  <2> QED BY <1>1, <2>1, <2>3, <2>4, <2>5, PlaceParts DEF PushInv
<1> QED BY <1>2, <1>3 DEF PushTask

LEMMA NextPKeyRange ==
  ASSUME PushInv, NEW q \in [pkey : AllPKeys, count : Nat]
  PROVE  NextPKey(q) \in AllPKeys
<1>1. Partitions \in Nat \ {0} /\ ActivePartitions = Partitions /\ scheduleAlgo = "push-fifo"
  BY PushConstants, SchedulerParts DEF ActivePartitions
<1>2. q.pkey \in Nat /\ q.count \in Nat
  BY DEF AllPKeys
<1>3. NextPKey(q) = (q.pkey + q.count) % Partitions
  BY <1>1 DEF NextPKey
<1> QED BY <1>1, <1>2, <1>3 DEF AllPKeys

LEMMA PushProbeStep ==
  ASSUME PushInv, NEW t \in Threads, PushProbe(t)
  PROVE  PushInv'
<1>1. PICK status \in {SUCCESS, NOWORKER} :
        /\ PushTask(probe[t].pkey, taskID[t], status)
        /\ \/ /\ status = NOWORKER /\ probe[t].count < Partitions
              /\ probe' = [probe EXCEPT ![t] = [pkey |-> NextPKey(@), count |-> @.count + 1]]
              /\ UNCHANGED pc
           \/ /\ status = SUCCESS \/ probe[t].count = Partitions
              /\ Goto(t, IF status = SUCCESS THEN "loopTest" ELSE "gaveUp")
              /\ probe' = [probe EXCEPT ![t] = [pkey |-> 0, count |-> 1]]
  BY DEF PushProbe
<1>2. /\ mainPc \in {"run", "join"} /\ pc[t] = "probe" /\ SUCCESS # NOWORKER
      /\ UNCHANGED <<mainVars, schedLatsArrayIndex, taskindex, taskID, lost, updates, workerProg, server>>
  BY DEF PushProbe, Alive, SUCCESS, NOWORKER
<1>3. UNCHANGED <<scheduleAlgo, mainPc, mainFinished>>
  BY <1>2 DEF mainVars, options
<1>4. probe[t] \in [pkey : AllPKeys, count : Nat] /\ 0 \in AllPKeys
  BY SchedulerParts, PushConstants DEF AllPKeys
<1>5. CASE /\ status = NOWORKER /\ UNCHANGED pc
           /\ probe' = [probe EXCEPT ![t] = [pkey |-> NextPKey(@), count |-> @.count + 1]]
  <2>1. [pkey |-> NextPKey(probe[t]), count |-> probe[t].count + 1] \in [pkey : AllPKeys, count : Nat]
    BY <1>4, NextPKeyRange
  <2>2. probe' \in [Threads -> [pkey : AllPKeys, count : Nat]]
    BY <1>5, <2>1, SchedulerParts
  <2>3. PushThreadsOK'
    BY <1>2, <1>3, <1>5, <2>2, SchedulerParts DEF PushThreadsOK
  <2>4. \A i : Unused(i)' => Unused(i)
    BY <1>2, <1>5 DEF Unused
  <2>5. \A i \in TaskIds : Unused(i)' => Unused(i) /\ (status = SUCCESS => i # taskID[t])
    BY <1>2, <1>5, <2>4
  <2>6. mainPc' # "done"
    BY <1>2, <1>3
  <2>7. /\ pc[t] = "probe" /\ PushTask(probe[t].pkey, taskID[t], status)
        /\ UNCHANGED <<updates, lost, workerProg, server>>
    BY <1>1, <1>2
  <2> QED BY <2>3, <2>5, <2>6, <2>7, PushTaskStep
<1>6. CASE /\ Goto(t, IF status = SUCCESS THEN "loopTest" ELSE "gaveUp")
           /\ probe' = [probe EXCEPT ![t] = [pkey |-> 0, count |-> 1]]
  <2>1. probe' \in [Threads -> [pkey : AllPKeys, count : Nat]]
    BY <1>4, <1>6, SchedulerParts
  <2>2. PICK place \in {"loopTest", "gaveUp"} : Goto(t, place)
    BY <1>6
  <2>3. /\ PushThreadsOK' /\ mainPc' = mainPc
        /\ \A i \in TaskIds : Unused(i)' => Unused(i) /\ (pc[t] = "probe" => i # taskID[t])
    BY <1>2, <2>1, <2>2, ThreadMoves
  <2> QED BY <1>1, <1>2, <2>3, PushTaskStep
<1> QED BY <1>1, <1>5, <1>6

LEMMA PushProbeFailsStep ==
  ASSUME PushInv, NEW t \in Threads, PushProbeFails(t)
  PROVE  PushInv'
<1>1. /\ pc[t] = "probe" /\ mainPc \in {"run", "join"} /\ mainPc' = "aborted" /\ Die(t)
      /\ UNCHANGED <<options, mainFinished, schedLatsArrayIndex, taskindex, taskID, probe, lost, updates,
                     workerProg, server>>
      /\ \/ \E status \in {SUCCESS, NOWORKER} : PushTask(probe[t].pkey, taskID[t], status)
         \/ UNCHANGED <<tables, TaskAssign>>
  BY DEF PushProbeFails, Alive
<1>2. /\ PushThreadsOK'
      /\ \A i \in TaskIds : Unused(i)' => Unused(i) /\ (pc[t] = "probe" => i # taskID[t])
  BY <1>1, ThreadDies
<1>3. CASE \E status \in {SUCCESS, NOWORKER} : PushTask(probe[t].pkey, taskID[t], status)
  BY <1>1, <1>2, <1>3, PushTaskStep
<1>4. CASE UNCHANGED <<tables, TaskAssign>>
  BY <1>1, <1>2, <1>4, SchedulerStep DEF tables, pipeVars, stream
<1> QED BY <1>1, <1>3, <1>4

LEMMA PushLateCommitStep ==
  ASSUME PushInv, NEW t \in Threads, PushLateCommit(t)
  PROVE  PushInv'
<1>1. /\ pc[t] = "probe" /\ mainPc \in {"exited", "aborted"} /\ Goto(t, "dead")
      /\ UNCHANGED <<mainVars, schedLatsArrayIndex, taskindex, taskID, probe, lost, updates,
                     workerProg, server>>
      /\ PushTask(probe[t].pkey, taskID[t], SUCCESS)
  BY DEF PushLateCommit
<1>2. /\ PushThreadsOK' /\ mainPc' = mainPc
      /\ \A i \in TaskIds : Unused(i)' => Unused(i) /\ (pc[t] = "probe" => i # taskID[t])
  BY <1>1, ThreadMoves, SchedulerParts
<1> QED BY <1>1, <1>2, PushTaskStep

LEMMA PushThreadStep ==
  ASSUME PushInv, NEW t \in Threads, PushThread(t) \/ PushLateCommit(t)
  PROVE  PushInv'
<1>1. CASE PushSchedule(t)
  BY <1>1, PushScheduleStep
<1>2. CASE PushProbe(t)
  BY <1>2, PushProbeStep
<1>3. CASE PushProbeFails(t)
  BY <1>3, PushProbeFailsStep
<1>4. CASE PushLateCommit(t)
  BY <1>4, PushLateCommitStep
<1>5. CASE (NotItsTurn(t) \/ LoopTest(t)) /\ UNCHANGED pipeVars
  <2>1. /\ mainPc \in {"run", "join"} /\ Worker' = Worker /\ Task' = Task
        /\ UNCHANGED <<mainVars, schedLatsArrayIndex, taskindex, taskID, probe>>
        /\ \E place \in {"turn", "finished", "loopTest"} : Goto(t, place)
    BY <1>5 DEF NotItsTurn, LoopTest, Alive, tables
  <2>2. /\ PushThreadsOK' /\ mainPc' = mainPc
        /\ \A i \in TaskIds : Unused(i)' => Unused(i)
    BY <2>1, ThreadMoves, SchedulerParts
  <2> QED BY <1>5, <2>1, <2>2, SchedulerStep
<1>6. CASE (ArrayFull(t) \/ AssertFails(t)) /\ UNCHANGED pipeVars
  <2>1. /\ mainPc' \in {"exited", "aborted"} /\ Worker' = Worker /\ Task' = Task /\ Die(t)
        /\ schedLatsArrayIndex' \in {schedLatsArrayIndex, schedLatsArrayIndex + 1}
        /\ UNCHANGED <<options, mainFinished, taskindex, taskID, probe>>
        /\ mainPc \in {"run", "join"}
    BY <1>6 DEF ArrayFull, AssertFails, Alive, tables
  <2>2. PushThreadsOK' /\ \A i \in TaskIds : Unused(i)' => Unused(i)
    BY <2>1, ThreadDies
  <2> QED BY <1>6, <2>1, <2>2, SchedulerStep
<1> QED BY <1>1, <1>2, <1>3, <1>4, <1>5, <1>6 DEF PushThread

\* Before the threads begin there is no task.
LEMMA NoTasksYet ==
  ASSUME PushInv, taskindex = 0
  PROVE  Task = <<>>
<1>1. \A j \in DOMAIN Task : FALSE
  <2>1. ASSUME NEW j \in DOMAIN Task PROVE FALSE
    <3>1. Task[j].TaskID \in TaskIds
      BY DEF PushInv, PushTaskRows
    <3>2. PICK i \in TaskIds : i = Task[j].TaskID
      BY <3>1
    <3>3. Unused(i)
      BY PushConstants DEF Unused
    <3> QED BY <3>2, <3>3 DEF PushInv, UnusedNowhere
  <2> QED BY <2>1
<1>2. Task \in Seq(TaskRow) /\ Len(Task) \in Nat /\ DOMAIN Task = 1 .. Len(Task)
  BY PushParts
<1>3. 1 \notin DOMAIN Task
  BY <1>1
<1>4. Len(Task) = 0
  BY <1>2, <1>3
<1> QED BY <1>2, <1>4

LEMMA PushMainStep ==
  ASSUME PushInv, PushMain
  PROVE  PushInv'
<1>0. UNCHANGED pipeVars
  BY DEF PushMain
<1>1. CASE TruncateTasks("truncateWorkers", "startThreads")
  <2>1. /\ mainPc = "truncateWorkers" /\ mainPc' = "startThreads" /\ Worker' = Worker
        /\ Task' \in {Task, <<>>} /\ UNCHANGED <<options, mainFinished, thrVars>>
    BY <1>1 DEF TruncateTasks, TruncateTaskTable, tables
  <2>2. UNCHANGED <<scheduleAlgo, schedLatsArrayIndex, taskindex, pc, taskID, probe>>
    BY <2>1 DEF options, thrVars
  <2>3. Task' = Task
    BY <2>1, NoTasksYet, SchedulerParts
  <2>4. PushThreadsOK' /\ \A i : Unused(i)' => Unused(i)
    BY <2>1, <2>2, SchedulerParts DEF PushThreadsOK, Unused
  <2> QED BY <1>0, <2>1, <2>3, <2>4, SchedulerStep
<1>2. CASE StartThreads
  <2>1. /\ mainPc = "startThreads" /\ mainPc' = "run" /\ Worker' = Worker /\ Task' = Task
        /\ pc' = [t \in Threads |-> "turn"]
        /\ UNCHANGED <<scheduleAlgo, mainFinished, schedLatsArrayIndex, taskindex, taskID, probe>>
    BY <1>2 DEF StartThreads, tables, options
  <2>2. /\ pc' \in [Threads -> {"notStarted", "turn", "probe", "gaveUp", "loopTest", "finished", "dead"}]
        /\ \A t \in Threads : pc'[t] # "probe"
    BY <2>1
  <2>3. PushThreadsOK' /\ \A i : Unused(i)' => Unused(i)
    BY <2>1, <2>2, SchedulerParts DEF PushThreadsOK, Unused
  <2> QED BY <1>0, <2>1, <2>3, SchedulerStep
<1>3. CASE FinishRun \/ JoinThreads
  <2>1. /\ mainPc \in {"run", "join"} /\ mainPc' \in {"join", "teardownWorkers", "done"}
        /\ mainPc' # "join" => \A t \in Threads : pc[t] = "finished"
        /\ Worker' = Worker /\ Task' = Task /\ mainFinished' \in BOOLEAN /\ UNCHANGED <<options, thrVars>>
    BY <1>3, SchedulerParts DEF FinishRun, JoinThreads, tables
  <2>2. UNCHANGED <<scheduleAlgo, schedLatsArrayIndex, taskindex, pc, taskID, probe>>
    BY <2>1 DEF options, thrVars
  <2>3. PushThreadsOK' /\ \A i : Unused(i)' => Unused(i)
    BY <2>1, <2>2, SchedulerParts DEF PushThreadsOK, Unused, Ended
  <2> QED BY <1>0, <2>1, <2>3, SchedulerStep
<1>4. CASE TruncateTasks("teardownWorkers", "done")
  <2>1. /\ mainPc = "teardownWorkers" /\ mainPc' = "done" /\ Worker' = Worker
        /\ Task' \in {Task, <<>>} /\ UNCHANGED <<options, mainFinished, thrVars>>
    BY <1>4 DEF TruncateTasks, TruncateTaskTable, tables
  <2>2. UNCHANGED <<scheduleAlgo, schedLatsArrayIndex, taskindex, pc, taskID, probe>>
    BY <2>1 DEF options, thrVars
  <2>3. PushThreadsOK' /\ \A i : Unused(i)' => Unused(i)
    BY <2>1, <2>2, SchedulerParts DEF PushThreadsOK, Unused, Ended
  <2> QED BY <1>0, <2>1, <2>3, SchedulerStep
<1> QED BY <1>1, <1>2, <1>3, <1>4 DEF PushMain
-----------------------------------------------------------------------------
(* The control threads and the main of the worker program.                 *)

Controls == {"insert", "look", "sleepy", "asleep", "end", "delete", "returned"}

\* A step that changes neither a table nor what the dispatch threads hold.
LEMMA ControlStep ==
  ASSUME PushInv, UNCHANGED <<vars, stream, updates, handling>>,
         dispatch' \in [Workers -> {"none", "init", "poll", "update", "returned"}],
         \A w \in Workers : dispatch'[w] = "update" <=> dispatch[w] = "update",
         control' \in [Workers -> Controls],
         \A w \in Workers : control'[w] = "insert" =>
           control[w] = "insert" /\ (dispatch[w] = "none" => dispatch'[w] = "none"),
         workerMain' \in {"run", "notify", "join", "done", "crashed"}, WorkerUp' => WorkerUp,
         workersFinished' \in BOOLEAN,
         stopDispatch' \in [Workers -> BOOLEAN], freed' \in [Workers -> BOOLEAN]
  PROVE  PushInv'
<1>1. UNCHANGED <<Worker, Task, mainVars, thrVars, TaskAssign, lost>>
  BY DEF vars, tables, stream
<1>2. PushTypeOK'
  BY <1>1 DEF PushInv, PushTypeOK, Controls
<1>3. PushThreadsOK' /\ mainPc' = mainPc /\ \A i : Unused(i)' <=> Unused(i)
  BY <1>1, SchedulerStill
<1>4. \A i \in TaskIds, w \in Workers : Handles(w, i)' <=> Handles(w, i)
  BY DEF Handles
<1> QED BY <1>1, <1>2, <1>3, <1>4, QuietStep DEF PushInv

LEMMA ControlParts ==
  ASSUME PushInv
  PROVE  /\ control \in [Workers -> Controls]
         /\ dispatch \in [Workers -> {"none", "init", "poll", "update", "returned"}]
         /\ workerMain \in {"run", "notify", "join", "done", "crashed"} /\ workersFinished \in BOOLEAN
         /\ stopDispatch \in [Workers -> BOOLEAN] /\ freed \in [Workers -> BOOLEAN]
BY DEF PushInv, PushTypeOK, Controls

\* The row of a worker is inserted.
LEMMA RowInserted ==
  ASSUME PushInv, NEW w \in Workers, InsertWorker(w, HttpCapacity, PKeyOf(w))
  PROVE  /\ Worker' \in Seq(WorkerRow) /\ Task' = Task /\ Len(Worker) + 1 \notin DOMAIN Worker
         /\ DOMAIN Worker' = DOMAIN Worker \cup {Len(Worker) + 1}
         /\ \A k \in DOMAIN Worker : Worker'[k] = Worker[k]
         /\ Worker'[Len(Worker) + 1].WorkerID = w
         /\ Worker'[Len(Worker) + 1].PKey = PKeyOf(w)
         /\ Worker'[Len(Worker) + 1].Capacity = HttpCapacity
<1> DEFINE row == [WorkerID |-> w, Capacity |-> HttpCapacity, PKey |-> PKeyOf(w)]
<1>1. w \in Nat /\ HttpCapacity \in Int /\ PKeyOf(w) \in Nat
  BY PushConstants, PKeyOfRange DEF AllPKeys
<1>2. row \in WorkerRow
  BY <1>1 DEF WorkerRow
<1>3. Worker' = Append(Worker, row) /\ Task' = Task /\ Worker \in Seq(WorkerRow)
  BY PushParts DEF InsertWorker
<1>4. row.WorkerID = w /\ row.PKey = PKeyOf(w) /\ row.Capacity = HttpCapacity
  OBVIOUS
<1> HIDE DEF row
<1>5. /\ Worker' \in Seq(WorkerRow) /\ Len(Worker) + 1 \notin DOMAIN Worker
      /\ DOMAIN Worker' = DOMAIN Worker \cup {Len(Worker) + 1}
      /\ \A k \in DOMAIN Worker : Worker'[k] = Worker[k]
      /\ Worker'[Len(Worker) + 1] = row
  BY <1>2, <1>3
<1> QED BY <1>3, <1>4, <1>5

LEMMA InsertStep ==
  ASSUME PushInv, NEW w \in Workers, control[w] = "insert", control' = [control EXCEPT ![w] = "look"],
         InsertWorker(w, HttpCapacity, PKeyOf(w)),
         dispatch' \in {dispatch, [dispatch EXCEPT ![w] = "init"]},
         UNCHANGED <<mainVars, thrVars, stream, updates, workerMain, workersFinished,
                     stopDispatch, freed, handling>>
  PROVE  PushInv'
<1>0. PICK n \in Nat : n = Len(Worker) + 1
  BY PushParts
<1>1. /\ Worker' \in Seq(WorkerRow) /\ Task' = Task /\ n \notin DOMAIN Worker
      /\ DOMAIN Worker' = DOMAIN Worker \cup {n}
      /\ \A k \in DOMAIN Worker : Worker'[k] = Worker[k]
      /\ Worker'[n].WorkerID = w /\ Worker'[n].PKey = PKeyOf(w) /\ Worker'[n].Capacity = HttpCapacity
  BY <1>0, RowInserted
<1>2. UNCHANGED <<TaskAssign, lost>> /\ (WorkerUp' <=> WorkerUp)
  BY DEF stream, WorkerUp
<1>3. /\ control' \in [Workers -> Controls] /\ control'[w] = "look"
      /\ \A v \in Workers : v # w => control'[v] = control[v]
      /\ dispatch' \in [Workers -> {"none", "init", "poll", "update", "returned"}]
      /\ \A v \in Workers : dispatch'[v] = "update" <=> dispatch[v] = "update"
  BY ControlParts DEF Controls, PushInv, PushWorkerRows
<1>4. PushTypeOK'
  BY <1>1, <1>2, <1>3 DEF PushInv, PushTypeOK, Controls
<1>5. PushThreadsOK' /\ mainPc' = mainPc /\ \A i : Unused(i)' <=> Unused(i)
  BY SchedulerStill
<1>6. /\ \A i \in TaskIds, v \in Workers : Handles(v, i)' <=> Handles(v, i)
      /\ \A i \in TaskIds, v \in Workers : Underway(i, v)' <=> Underway(i, v)
  BY <1>2, <1>3 DEF Handles, Underway
<1>7. \A i \in TaskIds : InHand(i)' = InHand(i) /\ (Tracked(i) <=> Tracked(i)')
  BY <1>2, <1>6 DEF InHand, Tracked
<1>8. UnusedNowhere' /\ OneWorker'
  BY <1>1, <1>2, <1>5, <1>6, UnusedStill, OneWorkerStill, StreamUnique DEF SameIds
<1>9. DeliveriesCounted'
  BY <1>2, <1>7, PushParts DEF PushInv, DeliveriesCounted
<1>10. NoTaskForgotten'
  BY <1>1, <1>2, <1>7, TrackedStill
<1>11. PushTaskRows'
  BY <1>1, TaskRowsStill
<1>12. \A k \in DOMAIN Worker : Worker[k].WorkerID \in Workers /\ Worker[k].WorkerID # w
  BY DEF PushInv, PushWorkerRows
<1>13. PushWorkerRows'
  <2>1. ASSUME NEW k \in DOMAIN Worker'
        PROVE  /\ Worker'[k].WorkerID \in Workers
               /\ Worker'[k].PKey = PKeyOf(Worker'[k].WorkerID)
               /\ control'[Worker'[k].WorkerID] # "insert"
    <3>1. CASE k = n
      BY <1>1, <1>3, <3>1
    <3>2. CASE k \in DOMAIN Worker
      BY <1>1, <1>3, <1>12, <3>2 DEF PushInv, PushWorkerRows
    <3> QED BY <1>1, <3>1, <3>2
  <2>2. \A k, l \in DOMAIN Worker' : Worker'[k].WorkerID = Worker'[l].WorkerID => k = l
    BY <1>1, <1>12 DEF PushInv, PushWorkerRows
  <2>3. ASSUME NEW v \in Workers, control'[v] = "insert" PROVE dispatch'[v] = "none"
    <3>1. v # w /\ dispatch[v] = "none"
      BY <1>3, <2>3 DEF PushInv, PushWorkerRows
    <3> QED BY <3>1, ControlParts
  <2> QED BY <2>1, <2>2, <2>3 DEF PushWorkerRows
<1>14. PushCapacity'
  <2> SUFFICES ASSUME mainPc # "done", NEW k \in DOMAIN Worker' PROVE Balanced(k)'
    BY <1>5, CapacityIs
  <2>1. \A x : RunningAt(x)' = RunningAt(x)
    BY <1>1 DEF RunningAt
  <2>2. CASE k = n
    <3>1. RunningAt(w) = {}
      BY <1>12 DEF RunningAt, PushInv, PushTaskRows
    <3>2. Cardinality(RunningAt(w)') = 0
      BY <2>1, <3>1, FS_EmptySet
    <3>3. HttpCapacity + 0 = HttpCapacity
      BY PushConstants
    <3> QED BY <1>1, <2>2, <3>2, <3>3 DEF Balanced
  <2>3. CASE k \in DOMAIN Worker
    <3>1. Balanced(k)
      BY <2>3, CapacityIs DEF PushInv
    <3>2. PICK x : x = Worker[k].WorkerID /\ x = Worker'[k].WorkerID /\ Worker'[k] = Worker[k]
      BY <1>1, <2>3
    <3>3. Cardinality(RunningAt(x)') = Cardinality(RunningAt(x))
      BY <2>1
    <3> QED BY <1>1, <3>1, <3>2, <3>3 DEF Balanced
  <2> QED BY <1>1, <2>2, <2>3
<1> QED BY <1>4, <1>5, <1>8, <1>9, <1>10, <1>11, <1>13, <1>14 DEF PushInv

LEMMA WorkerThreadStep ==
  ASSUME PushInv, NEW w \in Workers, WorkerThread(w) \/ WakeSpuriously(w)
  PROVE  PushInv'
<1>1. CASE StartServing(w)
  <2>1. /\ control[w] = "insert" /\ control' = [control EXCEPT ![w] = "look"]
        /\ UNCHANGED <<mainVars, thrVars, stream, updates, workerMain, workersFinished,
                       stopDispatch, freed, handling>>
        /\ \/ /\ InsertWorker(w, HttpCapacity, PKeyOf(w))
              /\ dispatch' \in {dispatch, [dispatch EXCEPT ![w] = "init"]}
           \/ UNCHANGED <<tables, dispatch>>
    BY <1>1 DEF StartServing, Control
  <2>2. CASE UNCHANGED <<tables, dispatch>>
    <3>1. control' \in [Workers -> Controls] /\ \A v \in Workers : control'[v] = "insert" => control[v] = "insert"
      BY <2>1, ControlParts DEF Controls
    <3>2. UNCHANGED <<vars, stream, updates, handling>> /\ (WorkerUp' => WorkerUp)
      BY <2>1, <2>2 DEF vars, WorkerUp
    <3> QED BY <2>1, <2>2, <3>1, <3>2, ControlStep, ControlParts
  <2>3. CASE /\ InsertWorker(w, HttpCapacity, PKeyOf(w))
             /\ dispatch' \in {dispatch, [dispatch EXCEPT ![w] = "init"]}
    BY <2>1, <2>3, InsertStep
  <2> QED BY <2>1, <2>2, <2>3
<1>2. CASE LookAtFlag(w) \/ FallAsleep(w) \/ WakeSpuriously(w)
  <2>1. /\ \E place \in Controls \ {"insert"} : control' = [control EXCEPT ![w] = place]
        /\ UNCHANGED <<vars, stream, updates, workerMain, workersFinished, server>>
    BY <1>2 DEF LookAtFlag, FallAsleep, WakeSpuriously, Control, Controls
  <2>2. control' \in [Workers -> Controls] /\ \A v \in Workers : control'[v] = "insert" => control[v] = "insert"
    BY <2>1, ControlParts
  <2>3. UNCHANGED <<vars, stream, updates, handling, dispatch, stopDispatch, freed, workersFinished, workerMain>>
        /\ (WorkerUp' => WorkerUp)
    BY <2>1 DEF server, WorkerUp
  <2> QED BY <2>2, <2>3, ControlStep, ControlParts
<1>3. CASE EndServing(w) \/ DeleteWorker(w)
  <2>1. /\ \E place \in Controls \ {"insert"} : control' = [control EXCEPT ![w] = place]
        /\ stopDispatch' \in {stopDispatch, [stopDispatch EXCEPT ![w] = TRUE]}
        /\ freed' \in {freed, [freed EXCEPT ![w] = TRUE]}
        /\ UNCHANGED <<vars, stream, updates, workerMain, workersFinished, dispatch, handling>>
    BY <1>3 DEF EndServing, DeleteWorker, Control, Controls
  <2>2. control' \in [Workers -> Controls] /\ \A v \in Workers : control'[v] = "insert" => control[v] = "insert"
    BY <2>1, ControlParts
  <2>3. stopDispatch' \in [Workers -> BOOLEAN] /\ freed' \in [Workers -> BOOLEAN]
    BY <2>1, ControlParts
  <2>4. WorkerUp' => WorkerUp
    BY <2>1 DEF WorkerUp
  <2> QED BY <2>1, <2>2, <2>3, <2>4, ControlStep, ControlParts
<1> QED BY <1>1, <1>2, <1>3 DEF WorkerThread

LEMMA WorkerRunStep ==
  ASSUME PushInv, WorkerRun
  PROVE  PushInv'
<1>1. CASE FinishWorkers \/ NotifyAll
  <2>1. /\ UNCHANGED <<vars, stream, updates, dispatch, handling, stopDispatch, freed>>
        /\ workerMain \in {"run", "notify"} /\ workerMain' \in {"notify", "join"}
        /\ workersFinished' \in BOOLEAN
        /\ control' \in {control, [w \in Workers |-> IF control[w] = "asleep" THEN "look" ELSE control[w]]}
    BY <1>1, ControlParts DEF FinishWorkers, NotifyAll, server
  <2>2. control' \in [Workers -> Controls] /\ \A v \in Workers : control'[v] = "insert" => control[v] = "insert"
    BY <2>1, ControlParts DEF Controls
  <2>3. WorkerUp' => WorkerUp
    BY <2>1 DEF WorkerUp
  <2> QED BY <2>1, <2>2, <2>3, ControlStep, ControlParts
<1>2. CASE JoinWorkers
  BY <1>2, GoneStep DEF JoinWorkers
<1> QED BY <1>1, <1>2 DEF WorkerRun

LEMMA ServerStep ==
  ASSUME PushInv, NEW w \in Workers,
         HandleRequest(w) \/ HandleRequestFails(w) \/ HandleRequestCrashes(w) \/ Listen(w) \/ StopPolling(w)
  PROVE  PushInv'
<1>1. CASE HandleRequest(w)
  BY <1>1, ReportStep DEF HandleRequest, stream
<1>2. CASE HandleRequestFails(w)
  <2>1. CASE WorkerUpdateTask(PKeyOf(w), w, handling[w], COMPLETE) /\ Counted(handling[w])
    BY <1>2, <2>1, ReportStep DEF HandleRequestFails
  <2>2. CASE UNCHANGED <<tables, updates>>
    BY <1>2, <2>2, ReleaseStep DEF HandleRequestFails, tables
  <2> QED BY <1>2, <2>1, <2>2 DEF HandleRequestFails
<1>3. CASE HandleRequestCrashes(w)
  BY <1>3, GoneStep DEF HandleRequestCrashes
<1>4. CASE Listen(w) \/ StopPolling(w)
  <2>1. /\ dispatch[w] \in {"init", "poll"}
        /\ \E place \in {"poll", "returned"} : dispatch' = [dispatch EXCEPT ![w] = place]
        /\ UNCHANGED <<vars, stream, updates, workerProg, stopDispatch, freed, handling>>
    BY <1>4 DEF Listen, StopPolling
  <2>2. /\ dispatch' \in [Workers -> {"none", "init", "poll", "update", "returned"}]
        /\ \A v \in Workers : dispatch'[v] = "update" <=> dispatch[v] = "update"
        /\ \A v \in Workers : dispatch[v] = "none" => dispatch'[v] = "none"
    BY <2>1, ControlParts
  <2>3. UNCHANGED <<workerMain, workersFinished, control>> /\ (WorkerUp' => WorkerUp)
    BY <2>1 DEF workerProg, WorkerUp
  <2> QED BY <2>1, <2>2, <2>3, ControlStep, ControlParts
<1> QED BY <1>1, <1>2, <1>3, <1>4
-----------------------------------------------------------------------------
LEMMA PushInitInv == PushInit => PushInv
<1> SUFFICES ASSUME PushInit PROVE PushInv
  OBVIOUS
<1>1. /\ Worker = <<>> /\ Task = <<>> /\ TaskAssign = {} /\ lost = {} /\ mainPc = "truncateWorkers"
      /\ updates = [i \in TaskIds |-> 0] /\ control = [w \in Workers |-> "insert"]
      /\ dispatch = [w \in Workers |-> "none"] /\ handling = [w \in Workers |-> 0]
      /\ pc = [t \in Threads |-> "notStarted"] /\ taskID = [t \in Threads |-> 0]
      /\ probe = [t \in Threads |-> [pkey |-> 0, count |-> 1]]
      /\ schedLatsArrayIndex = 0 /\ taskindex = 0 /\ scheduleAlgo = "push-fifo"
      /\ stopDispatch = [w \in Workers |-> FALSE] /\ freed = [w \in Workers |-> FALSE]
      /\ workerMain = "run"
  BY DEF PushInit, Init, TablesInit
<1>2. mainFinished \in BOOLEAN /\ workersFinished \in BOOLEAN
  BY Zenon DEF PushInit, Init
<1>3. DOMAIN Worker = {} /\ DOMAIN Task = {}
  BY <1>1
<1>4. PushTypeOK
  <2>1. Worker \in Seq(WorkerRow) /\ Task \in Seq(TaskRow)
    BY <1>1
  <2>2. /\ updates \in [TaskIds -> 0 .. MaxDeliveries] /\ handling \in [Workers -> TaskIds]
        /\ control \in [Workers -> {"insert", "look", "sleepy", "asleep", "end", "delete", "returned"}]
        /\ dispatch \in [Workers -> {"none", "init", "poll", "update", "returned"}]
        /\ stopDispatch \in [Workers -> BOOLEAN] /\ freed \in [Workers -> BOOLEAN]
    BY <1>1, PushConstants
  <2> QED BY <1>1, <1>2, <2>1, <2>2 DEF PushTypeOK
<1>5. PushThreadsOK
  <2>1. /\ pc \in [Threads -> {"notStarted", "turn", "probe", "gaveUp", "loopTest", "finished", "dead"}]
        /\ taskID \in [Threads -> Nat] /\ \A t \in Threads : pc[t] = "notStarted"
    BY <1>1
  <2>2. probe \in [Threads -> [pkey : AllPKeys, count : Nat]]
    BY <1>1, PushConstants DEF AllPKeys
  <2>3. 0 \in Nat /\ 0 <= 0
    OBVIOUS
  <2> QED BY <1>1, <1>2, <2>1, <2>2, <2>3 DEF PushThreadsOK
<1>6. \A i, w : w \in Workers => ~Handles(w, i) /\ ~Underway(i, w)
  BY <1>1 DEF Handles, Underway
<1>7. UnusedNowhere /\ PushWorkerRows /\ PushTaskRows /\ OneWorker
  BY <1>1, <1>3, <1>6 DEF UnusedNowhere, PushWorkerRows, PushTaskRows, OneWorker
<1>8. DeliveriesCounted
  <2>1. 0 + 0 <= MaxDeliveries
    BY PushConstants
  <2>2. \A i \in TaskIds : updates[i] = 0 /\ InHand(i) = 0
    BY <1>1, <1>6 DEF InHand
  <2> QED BY <1>1, <2>1, <2>2 DEF DeliveriesCounted
<1>9. PushCapacity /\ NoTaskForgotten
  BY <1>3 DEF PushCapacity, NoTaskForgotten, InState
<1> QED BY <1>4, <1>5, <1>7, <1>8, <1>9 DEF PushInv

LEMMA PushStutter ==
  ASSUME PushInv, UNCHANGED allVars
  PROVE  PushInv'
<1>1. UNCHANGED <<vars, stream, updates, handling, dispatch, stopDispatch, freed, workersFinished, workerMain, control>>
  BY DEF allVars, pipeVars, workerProg, server
<1>2. WorkerUp' => WorkerUp
  BY <1>1 DEF WorkerUp
<1> QED BY <1>1, <1>2, ControlStep, ControlParts

\* The inductive invariant of the tasks that PushFIFOScheduler pushes to HTTP
\* workers holds in every state, whatever fails, is repeated or is overtaken by
\* the end of either program.
THEOREM PushInvariant == PushSpec => []PushInv
<1>1. ASSUME PushInv, [PushNext]_allVars PROVE PushInv'
  <2>1. CASE PushMain
    BY <1>1, <2>1, PushMainStep
  <2>2. CASE \E t \in Threads : PushThread(t) \/ PushLateCommit(t)
    BY <1>1, <2>2, PushThreadStep
  <2>3. CASE \E row \in TaskAssign : ProcessRow(row) \/ ProcessRowFails(row)
    BY <1>1, <2>3, DeliverStep, DropStep
  <2>4. ASSUME NEW w \in Workers,
               \/ HandleRequest(w) \/ HandleRequestFails(w) \/ HandleRequestCrashes(w)
               \/ Listen(w) \/ StopPolling(w) \/ WorkerThread(w) \/ WakeSpuriously(w)
        PROVE  PushInv'
    BY <1>1, <2>4, ServerStep, WorkerThreadStep
  <2>5. CASE WorkerRun
    BY <1>1, <2>5, WorkerRunStep
  <2>6. CASE PushOver \/ UNCHANGED allVars
    BY <1>1, <2>6, PushStutter DEF PushOver
  <2> QED BY <1>1, <2>1, <2>2, <2>3, <2>4, <2>5, <2>6 DEF PushNext
<1> QED BY <1>1, PushInitInv, PTL DEF PushSpec

\* Every variable of the push pipeline keeps its type: in particular no task is
\* reported more often than the exporter delivered it.
THEOREM PushTypeCorrect == PushSpec => []PushTypeOK
<1>1. PushInv => PushTypeOK
  BY DEF PushInv
<1> QED BY <1>1, PushInvariant, PTL

\* PushTask and WorkerUpdateTask keep a worker's capacity and its RUNNING tasks
\* in balance unless a task was reported twice.
THEOREM PushedTasksArePaid == PushSpec => []PushCapacity
<1>1. PushInv => PushCapacity
  BY DEF PushInv
<1> QED BY <1>1, PushInvariant, PTL

\* A RUNNING task waits for the HttpTaskExporter or is in the hands of the
\* MockHTTPWorker it was sent to, unless a request or a report failed.
THEOREM PushedTasksAreTracked == PushSpec => []NoTaskForgotten
<1>1. PushInv => NoTaskForgotten
  BY DEF PushInv
<1> QED BY <1>1, PushInvariant, PTL
=============================================================================
