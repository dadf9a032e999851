----------------------------- MODULE AsyncProofs -----------------------------
(***************************************************************************)
(* Proofs about AsyncScheduler: requests sent, executed, answered and      *)
(* recorded are accounted for, whatever the order of all that.             *)
(***************************************************************************)
EXTENDS AsyncScheduler, TotalsProofs, SequenceTheorems

(* Sequences.                                                              *)

LEMMA RemoveAtIs ==
  ASSUME NEW S, NEW s \in Seq(S), NEW i \in DOMAIN s
  PROVE  RemoveAt(s, i) \in Seq(S) /\ Len(RemoveAt(s, i)) = Len(s) - 1
<1>1. Len(s) \in Nat /\ i \in 1 .. Len(s)
  OBVIOUS
<1>2. /\ \A k \in 1 .. i - 1 : s[k] \in S
      /\ \A k \in i + 1 .. Len(s) : s[k] \in S
  BY <1>1
<1>3. /\ SubSeq(s, 1, i - 1) \in Seq(S)
      /\ Len(SubSeq(s, 1, i - 1)) = IF 1 <= i - 1 THEN (i - 1) - 1 + 1 ELSE 0
  BY <1>1, <1>2, SubSeqProperties
<1>4. /\ SubSeq(s, i + 1, Len(s)) \in Seq(S)
      /\ Len(SubSeq(s, i + 1, Len(s))) = IF i + 1 <= Len(s) THEN Len(s) - (i + 1) + 1 ELSE 0
  BY <1>1, <1>2, SubSeqProperties
<1>5. /\ SubSeq(s, 1, i - 1) \o SubSeq(s, i + 1, Len(s)) \in Seq(S)
      /\ Len(SubSeq(s, 1, i - 1) \o SubSeq(s, i + 1, Len(s)))
           = Len(SubSeq(s, 1, i - 1)) + Len(SubSeq(s, i + 1, Len(s)))
  BY <1>3, <1>4, ConcatProperties
<1> QED BY <1>1, <1>3, <1>4, <1>5, SMTT(40) DEF RemoveAt

\* The places of a sequence that hold a value of a set.
At(s, kinds) == {i \in DOMAIN s : s[i] \in kinds}

LEMMA AtFinite ==
  ASSUME NEW S, NEW s \in Seq(S), NEW kinds
  PROVE  /\ IsFiniteSet(At(s, kinds)) /\ IsFiniteSet(DOMAIN s)
         /\ Cardinality(At(s, kinds)) \in Nat /\ Cardinality(DOMAIN s) = Len(s)
         /\ Len(s) \in Nat
<1>1. DOMAIN s = 1 .. Len(s) /\ Len(s) \in Nat
  OBVIOUS
<1>2. IsFiniteSet(1 .. Len(s)) /\ Cardinality(1 .. Len(s)) = Len(s)
  BY <1>1, FS_Interval
<1>3. IsFiniteSet(At(s, kinds))
  BY <1>1, <1>2, FS_Subset DEF At
<1> QED BY <1>1, <1>2, <1>3, FS_CardinalityType

LEMMA AtAppend ==
  ASSUME NEW S, NEW s \in Seq(S), NEW e \in S, NEW kinds
  PROVE  Cardinality(At(Append(s, e), kinds)) =
           IF e \in kinds THEN Cardinality(At(s, kinds)) + 1 ELSE Cardinality(At(s, kinds))
<1>1. /\ DOMAIN s = 1 .. Len(s) /\ Len(s) \in Nat /\ DOMAIN Append(s, e) = 1 .. Len(s) + 1
      /\ \A i \in 1 .. Len(s) : Append(s, e)[i] = s[i]
      /\ Append(s, e)[Len(s) + 1] = e
  OBVIOUS
<1>2. CASE e \in kinds
  <2>1. At(Append(s, e), kinds) = At(s, kinds) \cup {Len(s) + 1}
    BY <1>1, <1>2 DEF At
  <2>2. Len(s) + 1 \notin At(s, kinds)
    BY <1>1 DEF At
  <2> QED BY <1>2, <2>1, <2>2, AtFinite, FS_AddElement
<1>3. CASE e \notin kinds
  <2>1. At(Append(s, e), kinds) = At(s, kinds)
    BY <1>1, <1>3 DEF At
  <2> QED BY <1>3, <2>1
<1> QED BY <1>2, <1>3

LEMMA AtTail ==
  ASSUME NEW S, NEW s \in Seq(S), s # <<>>, NEW kinds
  PROVE  Cardinality(At(Tail(s), kinds)) =
           IF Head(s) \in kinds THEN Cardinality(At(s, kinds)) - 1 ELSE Cardinality(At(s, kinds))
<1>1. /\ DOMAIN s = 1 .. Len(s) /\ Len(s) \in Nat \ {0} /\ DOMAIN Tail(s) = 1 .. Len(s) - 1
      /\ \A i \in 1 .. Len(s) - 1 : Tail(s)[i] = s[i + 1]
      /\ Head(s) = s[1] /\ Tail(s) \in Seq(S)
  OBVIOUS
<1> DEFINE A == At(Tail(s), kinds)
           B == At(s, kinds) \ {1}
           f == [i \in A |-> i + 1]
<1>2. A \subseteq 1 .. Len(s) - 1 /\ B \subseteq 2 .. Len(s)
  BY <1>1 DEF At
<1>3. \A i \in A : i + 1 \in B
  BY <1>1, <1>2 DEF At
<1>4. \A j \in B : j - 1 \in A /\ (j - 1) + 1 = j
  BY <1>1, <1>2 DEF At
<1>5. f \in [A -> B]
  BY <1>3
<1>6. \A i, j \in A : f[i] = f[j] => i = j
  BY <1>1, <1>2
<1>7. \A j \in B : \E i \in A : f[i] = j
  BY <1>4
<1>8. f \in Bijection(A, B)
  <2> HIDE DEF A, B, f
  <2>1. f \in Injection(A, B)
    BY <1>5, <1>6 DEF Injection, IsInjective
  <2>2. f \in Surjection(A, B)
    BY <1>5, <1>7 DEF Surjection
  <2> QED BY <2>1, <2>2 DEF Bijection
<1>9. IsFiniteSet(A) /\ IsFiniteSet(B)
  BY <1>1, AtFinite, FS_RemoveElement
<1>10. Cardinality(A) = Cardinality(B)
  <2> HIDE DEF A, B, f
  <2> QED BY <1>8, <1>9, FS_Bijection DEF ExistsBijection
<1>11. 1 \in At(s, kinds) <=> Head(s) \in kinds
  BY <1>1 DEF At
<1>12. Cardinality(B) = IF 1 \in At(s, kinds) THEN Cardinality(At(s, kinds)) - 1
                        ELSE Cardinality(At(s, kinds))
  BY AtFinite, FS_RemoveElement
<1> QED BY <1>10, <1>11, <1>12
-----------------------------------------------------------------------------
(* The sums of the invariant.                                              *)

Lens(f)        == Total([t \in Threads |-> DOMAIN f[t]])
Kind(f, kinds) == Total([t \in Threads |-> At(f[t], kinds)])

Placed == Workers \cup {SUCCESS}

LEMMA SumsAre ==
  /\ Unanswered = Lens(sent) /\ Unanswered' = Lens(sent')
  /\ \A kinds : Untold(kinds) = Kind(replies, kinds)
  /\ Untold(AnswerValues)' = Kind(replies', AnswerValues)
  /\ Untold(Placed)' = Kind(replies', Placed)
  /\ Untold({FAILED})' = Kind(replies', {FAILED})
BY DEF Unanswered, Untold, Lens, Kind, At

LEMMA LensChange ==
  ASSUME NEW S, NEW f \in [Threads -> Seq(S)], NEW t \in Threads, NEW g \in Seq(S)
  PROVE  /\ Lens(f) \in Nat /\ Len(g) \in Nat /\ Len(f[t]) \in Nat
         /\ Lens([f EXCEPT ![t] = g]) = Lens(f) + Len(g) - Len(f[t])
<1> DEFINE F == [u \in Threads |-> DOMAIN f[u]]
           G == [u \in Threads |-> DOMAIN [f EXCEPT ![t] = g][u]]
<1>1. /\ FiniteParts(F) /\ FiniteParts(G)
      /\ DOMAIN F = Threads /\ DOMAIN G = Threads
      /\ F[t] = DOMAIN f[t] /\ G[t] = DOMAIN g
      /\ \A u \in Threads \ {t} : G[u] = F[u]
  BY AtFinite, AsyncAssumption DEF FiniteParts
<1>2. f[t] \in Seq(S)
  OBVIOUS
<1>3. /\ Cardinality(F[t]) = Len(f[t]) /\ Cardinality(G[t]) = Len(g)
      /\ Len(g) \in Nat /\ Len(f[t]) \in Nat
  BY <1>1, <1>2, AtFinite
<1> HIDE DEF F, G
<1>4. Total(F) \in Nat /\ Total(G) = Total(F) + Cardinality(G[t]) - Cardinality(F[t])
  BY <1>1, TotalChanges
<1> QED BY <1>3, <1>4 DEF Lens, F, G

LEMMA KindChange ==
  ASSUME NEW S, NEW f \in [Threads -> Seq(S)], NEW t \in Threads, NEW g \in Seq(S), NEW kinds
  PROVE  /\ Kind(f, kinds) \in Nat
         /\ Cardinality(At(g, kinds)) \in Nat /\ Cardinality(At(f[t], kinds)) \in Nat
         /\ Kind([f EXCEPT ![t] = g], kinds)
              = Kind(f, kinds) + Cardinality(At(g, kinds)) - Cardinality(At(f[t], kinds))
<1> DEFINE F == [u \in Threads |-> At(f[u], kinds)]
           G == [u \in Threads |-> At([f EXCEPT ![t] = g][u], kinds)]
<1>1. /\ FiniteParts(F) /\ FiniteParts(G)
      /\ DOMAIN F = Threads /\ DOMAIN G = Threads
      /\ F[t] = At(f[t], kinds) /\ G[t] = At(g, kinds)
      /\ \A u \in Threads \ {t} : G[u] = F[u]
  BY AtFinite, AsyncAssumption DEF FiniteParts
<1>2. f[t] \in Seq(S)
  OBVIOUS
<1>3. Cardinality(F[t]) \in Nat /\ Cardinality(G[t]) \in Nat
  BY <1>1, <1>2, AtFinite
<1> HIDE DEF F, G
<1>4. Total(F) \in Nat /\ Total(G) = Total(F) + Cardinality(G[t]) - Cardinality(F[t])
  BY <1>1, TotalChanges
<1>5. Kind(f, kinds) = Total(F) /\ Kind([f EXCEPT ![t] = g], kinds) = Total(G)
  BY DEF Kind, F, G
<1> QED BY <1>1, <1>3, <1>4, <1>5

LEMMA SumsNat ==
  ASSUME NEW S, NEW f \in [Threads -> Seq(S)], NEW kinds
  PROVE  Lens(f) \in Nat /\ Kind(f, kinds) \in Nat
<1>1. /\ FiniteParts([u \in Threads |-> DOMAIN f[u]])
      /\ FiniteParts([u \in Threads |-> At(f[u], kinds)])
  BY AtFinite, AsyncAssumption DEF FiniteParts
<1> QED BY <1>1, TotalNat DEF Lens, Kind

LEMMA SumsZero ==
  ASSUME NEW f, \A t \in Threads : f[t] = <<>>, NEW kinds
  PROVE  Lens(f) = 0 /\ Kind(f, kinds) = 0
<1>1. \A t \in Threads : DOMAIN f[t] = {} /\ At(f[t], kinds) = {}
  BY DEF At
<1> QED BY <1>1, TotalZero DEF Lens, Kind

Units(w) == [i \in DOMAIN w |-> w[i].Capacity + 1 .. WorkerCapacity]

LEMMA TakenIs == Taken = Total(Units(Worker)) /\ Taken' = Total(Units(Worker'))
BY DEF Taken, Units

LEMMA UnitsFinite ==
  ASSUME NEW w \in Seq(WorkerRow)
  PROVE  FiniteParts(Units(w)) /\ DOMAIN Units(w) = DOMAIN w /\ Total(Units(w)) \in Nat
<1>1. DOMAIN w = 1 .. Len(w) /\ Len(w) \in Nat /\ \A i \in DOMAIN w : w[i] \in WorkerRow
  OBVIOUS
<1>2. \A i \in DOMAIN w : w[i].Capacity + 1 \in Int /\ WorkerCapacity \in Int
  BY <1>1, AsyncAssumption DEF WorkerRow
<1>3. \A i \in DOMAIN w : IsFiniteSet(w[i].Capacity + 1 .. WorkerCapacity)
  BY <1>2, FS_Interval
<1>4. IsFiniteSet(DOMAIN w)
  BY <1>1, FS_Interval
<1>5. FiniteParts(Units(w)) /\ DOMAIN Units(w) = DOMAIN w
  BY <1>3, <1>4 DEF FiniteParts, Units
<1> QED BY <1>5, TotalNat

\* One unit of row i is taken.
Takes(i) ==
  /\ i \in DOMAIN Worker /\ Worker[i].Capacity > 0
  /\ Worker' \in Seq(WorkerRow) /\ Len(Worker') = Len(Worker) /\ DOMAIN Worker' = DOMAIN Worker
  /\ Worker'[i].Capacity = Worker[i].Capacity - 1
  /\ \A k \in DOMAIN Worker : /\ Worker'[k].WorkerID = Worker[k].WorkerID
                              /\ Worker'[k].PKey = Worker[k].PKey
                              /\ k # i => Worker'[k].Capacity = Worker[k].Capacity

LEMMA TakenOne ==
  ASSUME Worker \in Seq(WorkerRow), NEW i, Takes(i), Worker[i].Capacity <= WorkerCapacity
  PROVE  Taken \in Nat /\ Taken' = Taken + 1
<1> DEFINE F == Units(Worker)
           G == Units(Worker')
<1>1. /\ FiniteParts(F) /\ FiniteParts(G) /\ DOMAIN F = DOMAIN Worker /\ DOMAIN G = DOMAIN F
      /\ i \in DOMAIN F
  BY UnitsFinite DEF Takes
<1>2. \A k \in DOMAIN F \ {i} : G[k] = F[k]
  BY <1>1 DEF Takes, Units
<1>3. Worker[i] \in WorkerRow
  BY DEF Takes
<1>4. PICK c \in Int : c = Worker[i].Capacity
  BY <1>3 DEF WorkerRow
<1>5. /\ F[i] = c + 1 .. WorkerCapacity /\ G[i] = c .. WorkerCapacity
      /\ c > 0 /\ c <= WorkerCapacity /\ WorkerCapacity \in Nat
  BY <1>1, <1>4, AsyncAssumption DEF Takes, Units
<1>6. Cardinality(G[i]) = Cardinality(F[i]) + 1
  <2>1. G[i] = F[i] \cup {c} /\ c \notin F[i]
    BY <1>5
  <2>2. IsFiniteSet(F[i])
    BY <1>1 DEF FiniteParts
  <2> QED BY <2>1, <2>2, FS_AddElement
<1> HIDE DEF F, G
<1>7. /\ Total(F) \in Nat /\ Cardinality(F[i]) \in Nat
      /\ Total(G) = Total(F) + Cardinality(G[i]) - Cardinality(F[i])
  BY <1>1, <1>2, TotalChanges
<1>8. Taken = Total(F) /\ Taken' = Total(G)
  BY TakenIs DEF F, G
<1> QED BY <1>6, <1>7, <1>8
-----------------------------------------------------------------------------
(* The tables.                                                             *)

LEMMA InvRows ==
  ASSUME AsyncInv
  PROVE  /\ Worker \in Seq(WorkerRow) /\ Task \in Seq(TaskRow)
         /\ DOMAIN Worker = 1 .. Len(Worker) /\ Len(Worker) \in Nat
         /\ \A i \in DOMAIN Worker :
              /\ Worker[i] \in WorkerRow /\ Worker[i].WorkerID = i - 1
              /\ Worker[i].WorkerID \in Workers /\ Worker[i].Capacity \in 0 .. WorkerCapacity
<1>1. Worker \in Seq(WorkerRow) /\ Task \in Seq(TaskRow)
  BY DEF AsyncInv, AsyncTypeOK, TablesTypeOK
<1> QED BY <1>1 DEF AsyncInv, RowsInOrder

LEMMA SetCapacityTakes ==
  ASSUME AsyncInv, NEW i \in DOMAIN Worker, Worker[i].Capacity > 0,
         SetCapacity(Worker[i].PKey, Worker[i].WorkerID, Worker[i].Capacity - 1)
  PROVE  Takes(i)
<1>1. \A k \in DOMAIN Worker : Worker[k].WorkerID = Worker[i].WorkerID => k = i
  BY InvRows
<1>2. Worker[i].Capacity - 1 \in Int
  BY InvRows DEF WorkerRow
<1>3. Worker'[i] = [Worker[i] EXCEPT !.Capacity = Worker[i].Capacity - 1]
  BY DEF SetCapacity
<1>4. \A k \in DOMAIN Worker : k # i => Worker'[k] = Worker[k]
  BY <1>1 DEF SetCapacity
<1>5. Worker[i] \in WorkerRow
  BY InvRows
<1>6. /\ Worker'[i] \in WorkerRow /\ Worker'[i].Capacity = Worker[i].Capacity - 1
      /\ Worker'[i].WorkerID = Worker[i].WorkerID /\ Worker'[i].PKey = Worker[i].PKey
  BY <1>2, <1>3, <1>5 DEF WorkerRow
<1>7. Worker' \in [1 .. Len(Worker) -> WorkerRow]
  BY <1>4, <1>6, InvRows DEF SetCapacity
<1>8. Worker' \in Seq(WorkerRow) /\ Len(Worker') = Len(Worker) /\ DOMAIN Worker' = DOMAIN Worker
  BY <1>7, InvRows, SMTT(40)
<1> QED BY <1>4, <1>6, <1>8 DEF Takes

\* The rows and the balance after a unit of one of the fullest workers of a
\* partition was taken, or of any worker by another algorithm.
LEMMA TakesRows ==
  ASSUME AsyncInv, NEW i, Takes(i), UNCHANGED <<mainPc, inserted, scheduleAlgo>>, ~SettingUp,
         scheduleAlgo = "fifo-local" =>
           \A k \in DOMAIN Worker : Worker[k].PKey = Worker[i].PKey => Worker[k].Capacity <= Worker[i].Capacity
  PROVE  RowsInOrder' /\ LoadBalanced' /\ Taken \in Nat /\ Taken' = Taken + 1
<1>1. PICK c \in Nat : c = Worker[i].Capacity /\ c > 0 /\ c <= WorkerCapacity /\ WorkerCapacity \in Nat
  BY InvRows, AsyncAssumption DEF Takes
<1>2. RowsInOrder'
  <2>1. ASSUME NEW k \in DOMAIN Worker'
        PROVE  /\ Worker'[k].WorkerID = k - 1 /\ Worker'[k].WorkerID \in Workers
               /\ Worker'[k].Capacity \in 0 .. WorkerCapacity
    BY <1>1, InvRows DEF Takes
  <2> QED BY <2>1 DEF RowsInOrder, SettingUp
<1>3. LoadBalanced'
  <2> SUFFICES ASSUME scheduleAlgo = "fifo-local", NEW j \in DOMAIN Worker, NEW k \in DOMAIN Worker,
                      Worker'[j].PKey = Worker'[k].PKey
               PROVE  Worker'[j].Capacity - Worker'[k].Capacity <= 1
    BY DEF LoadBalanced, Takes
  <2>1. PICK x \in Nat, y \in Nat : x = Worker[j].Capacity /\ y = Worker[k].Capacity
    BY InvRows
  <2>2. Worker[j].PKey = Worker[k].PKey
    BY DEF Takes
  <2>3. x - y <= 1
    BY <2>1, <2>2 DEF AsyncInv, LoadBalanced
  <2>4. CASE j = i /\ k = i
    BY <1>1, <2>4 DEF Takes
  <2>5. CASE j = i /\ k # i
    BY <1>1, <2>1, <2>3, <2>5 DEF Takes
  <2>6. CASE j # i /\ k = i
    <3>1. x <= c
      BY <1>1, <2>1, <2>2, <2>6
    <3> QED BY <1>1, <2>1, <2>6, <3>1 DEF Takes
  <2>7. CASE j # i /\ k # i
    BY <2>1, <2>3, <2>7 DEF Takes
  <2> QED BY <2>4, <2>5, <2>6, <2>7
<1>4. Taken \in Nat /\ Taken' = Taken + 1
  BY <1>1, InvRows, TakenOne
<1> QED BY <1>2, <1>3, <1>4

LEMMA TaskRowOf ==
  ASSUME AsyncInv, NEW i \in DOMAIN Worker, NEW p \in Nat, NEW id \in Nat,
         NewTask(id, Worker[i].WorkerID, PENDING, p)
  PROVE  Task' \in Seq(TaskRow)
<1>1. Worker[i].WorkerID \in Nat
  BY InvRows DEF WorkerRow
<1>2. [TaskID |-> id, WorkerID |-> Worker[i].WorkerID, State |-> PENDING, PKey |-> p] \in TaskRow
  BY <1>1 DEF TaskRow
<1> QED BY <1>2, InvRows DEF NewTask

\* What the execution of a request does.
LEMMA InvokeEffect ==
  ASSUME AsyncInv, NEW q \in RequestType, NEW result, Invoke(q, result)
  PROVE  /\ Task' \in Seq(TaskRow)
         /\ \/ /\ UNCHANGED Worker
               /\ result \in {-1, NOWORKER} \/ (scheduleAlgo = "broadcast" /\ result = SUCCESS)
            \/ /\ result \in Placed
               /\ \E i \in DOMAIN Worker :
                    /\ Takes(i)
                    /\ scheduleAlgo = "fifo-local" =>
                         \A k \in DOMAIN Worker : Worker[k].PKey = Worker[i].PKey =>
                                                    Worker[k].Capacity <= Worker[i].Capacity
<1>0. scheduleAlgo \in {"fifo", "fifo-local", "single-partitioned-fifo-task", "send", "broadcast"}
  BY AsyncAssumption DEF AsyncInv, AsyncTypeOK
<1>1. q.pkey \in Nat /\ q.taskID \in Nat
  BY DEF RequestType
<1>2. Task \in Seq(TaskRow)
  BY InvRows
<1>3. CASE scheduleAlgo = "fifo"
  <2>1. SelectWorker(q.pkey, result)
    BY <1>3 DEF Invoke
  <2>2. CASE result = -1 /\ UNCHANGED tables
    BY <1>2, <2>2 DEF tables
  <2>3. ASSUME NEW i \in AvailableWorkers(q.pkey), result = Worker[i].WorkerID,
               SetCapacity(q.pkey, result, Worker[i].Capacity - 1), UNCHANGED Task
        PROVE  Takes(i) /\ i \in DOMAIN Worker /\ result \in Placed
    BY <2>3, SetCapacityTakes, InvRows DEF AvailableWorkers, Placed
  <2> QED BY <1>2, <1>3, <2>1, <2>2, <2>3 DEF SelectWorker
<1>4. CASE scheduleAlgo = "fifo-local"
  <2>1. SelectOrderedWorker(q.pkey, q.taskID, result)
    BY <1>4 DEF Invoke
  <2>2. CASE result = -1 /\ UNCHANGED tables
    BY <1>2, <2>2 DEF tables
  <2>3. ASSUME NEW i \in AvailableWorkers(q.pkey), result = Worker[i].WorkerID,
               \A k \in AvailableWorkers(q.pkey) : Worker[k].Capacity <= Worker[i].Capacity,
               NewTask(q.taskID, result, PENDING, q.pkey),
               SetCapacity(q.pkey, result, Worker[i].Capacity - 1)
        PROVE  /\ Takes(i) /\ i \in DOMAIN Worker /\ result \in Placed /\ Task' \in Seq(TaskRow)
               /\ \A k \in DOMAIN Worker : Worker[k].PKey = Worker[i].PKey =>
                                             Worker[k].Capacity <= Worker[i].Capacity
    <3>1. i \in DOMAIN Worker /\ Worker[i].PKey = q.pkey /\ Worker[i].Capacity > 0
      BY DEF AvailableWorkers
    <3>2. Takes(i) /\ result \in Placed /\ Task' \in Seq(TaskRow)
      BY <1>1, <2>3, <3>1, SetCapacityTakes, InvRows, TaskRowOf DEF Placed
    <3>3. ASSUME NEW k \in DOMAIN Worker, Worker[k].PKey = Worker[i].PKey
          PROVE  Worker[k].Capacity <= Worker[i].Capacity
      <4>1. PICK x \in Nat, y \in Nat : x = Worker[k].Capacity /\ y = Worker[i].Capacity
        BY <3>1, InvRows
      <4>2. CASE x > 0
        <5>1. k \in AvailableWorkers(q.pkey)
          BY <3>1, <3>3, <4>1, <4>2 DEF AvailableWorkers
        <5> QED BY <2>3, <5>1
      <4>3. CASE x = 0
        BY <4>1, <4>3
      <4> QED BY <4>1, <4>2, <4>3
    <3> QED BY <3>1, <3>2, <3>3
  <2> QED BY <2>1, <2>2, <2>3 DEF SelectOrderedWorker
<1>5. CASE scheduleAlgo = "single-partitioned-fifo-task"
  <2>1. SelectSinglePartitionedTaskWorker(q.pkey, q.taskID, result)
    BY <1>5 DEF Invoke
  <2>2. CASE result = NOWORKER /\ UNCHANGED tables
    BY <1>2, <2>2 DEF tables
  <2>3. ASSUME NEW i \in AvailableWorkers(q.pkey), result = SUCCESS,
               NewTask(q.taskID, Worker[i].WorkerID, PENDING, q.pkey),
               SetCapacity(q.pkey, Worker[i].WorkerID, Worker[i].Capacity - 1)
        PROVE  Takes(i) /\ i \in DOMAIN Worker /\ result \in Placed /\ Task' \in Seq(TaskRow)
    <3>1. i \in DOMAIN Worker /\ Worker[i].PKey = q.pkey /\ Worker[i].Capacity > 0
      BY DEF AvailableWorkers
    <3> QED BY <1>1, <2>3, <3>1, SetCapacityTakes, TaskRowOf DEF Placed
  <2> QED BY <1>5, <2>1, <2>2, <2>3 DEF SelectSinglePartitionedTaskWorker
<1>6. CASE scheduleAlgo = "broadcast"
  BY <1>2, <1>6 DEF Invoke, tables
<1>7. CASE scheduleAlgo = "send"
  BY <1>7 DEF Invoke
<1> QED BY <1>0, <1>3, <1>4, <1>5, <1>6, <1>7
-----------------------------------------------------------------------------
(* The threads.                                                            *)

LEMMA TablesStill ==
  ASSUME AsyncInv, UNCHANGED <<tables, mainPc, inserted, scheduleAlgo>>
  PROVE  TablesTypeOK' /\ RowsInOrder' /\ LoadBalanced' /\ Taken' = Taken /\ RequestType' = RequestType
<1>1. Worker' = Worker /\ Task' = Task
  BY DEF tables
<1>2. TablesTypeOK' /\ RowsInOrder' /\ LoadBalanced'
  BY <1>1 DEF AsyncInv, AsyncTypeOK, TablesTypeOK, RowsInOrder, LoadBalanced
<1>3. Taken' = Taken /\ RequestType' = RequestType
  BY <1>1 DEF Taken, RequestType, ActivePartitions
<1> QED BY <1>2, <1>3

LEMMA TypeParts ==
  ASSUME AsyncInv
  PROVE  /\ schedLatsArrayIndex \in Nat /\ taskindex \in Nat /\ calls \in Nat
         /\ pc \in [Threads -> Places] /\ outCnt_ \in [Threads -> Int]
         /\ sent \in [Threads -> Seq(RequestType)] /\ replies \in [Threads -> Seq(Int)]
         /\ Unanswered \in Nat /\ Taken \in Nat /\ \A kinds : Untold(kinds) \in Nat
<1>1. /\ schedLatsArrayIndex \in Nat /\ taskindex \in Nat /\ calls \in Nat
      /\ pc \in [Threads -> Places] /\ outCnt_ \in [Threads -> Int]
      /\ sent \in [Threads -> Seq(RequestType)] /\ replies \in [Threads -> Seq(Int)]
  BY DEF AsyncInv, AsyncTypeOK
<1>2. Unanswered \in Nat /\ \A kinds : Untold(kinds) \in Nat
  BY <1>1, SumsNat, SumsAre
<1>3. Taken \in Nat
  BY InvRows, UnitsFinite, TakenIs
<1> QED BY <1>1, <1>2, <1>3

\* A thread moves, and nothing else.
LEMMA PcMoves ==
  ASSUME AsyncInv, NEW t \in Threads, Alive, NEW p \in {"send", "test", "drain", "finished"},
         p = "finished" => sent[t] = <<>> /\ replies[t] = <<>>,
         Goto(t, p),
         UNCHANGED <<tables, mainVars, schedLatsArrayIndex, taskindex, outCnt_, sent, replies, calls>>
  PROVE  AsyncInv'
<1>1. TablesTypeOK' /\ RowsInOrder' /\ LoadBalanced' /\ Taken' = Taken /\ RequestType' = RequestType
  BY TablesStill DEF mainVars
<1>2. pc' \in [Threads -> Places]
  BY TypeParts DEF Goto, Places
<1>3. AsyncTypeOK'
  BY <1>1, <1>2 DEF AsyncInv, AsyncTypeOK, mainVars
<1>4. ~SettingUp' /\ mainPc' = mainPc /\ mainPc \in {"run", "join"}
  BY DEF SettingUp, Alive, mainVars
<1>5. Unanswered' = Unanswered
  BY SumsAre
<1>6. Untold(AnswerValues)' = Untold(AnswerValues) /\ Untold(Placed)' = Untold(Placed)
      /\ Untold({FAILED})' = Untold({FAILED})
  BY SumsAre
<1>7. RequestsCounted'
  <2>1. \A u \in Threads : pc'[u] = "finished" => sent'[u] = <<>> /\ replies'[u] = <<>>
    BY TypeParts DEF AsyncInv, RequestsCounted, Goto
  <2> QED BY <1>4, <1>5, <1>6, <2>1 DEF AsyncInv, RequestsCounted
<1>8. OutstandingCounted'
  BY DEF AsyncInv, OutstandingCounted, mainVars, Alive
<1>9. EveryRequestRecorded'
  BY <1>1, <1>4, <1>6 DEF AsyncInv, EveryRequestRecorded, mainVars, Placed, Alive
<1> QED BY <1>1, <1>3, <1>4, <1>7, <1>8, <1>9 DEF AsyncInv, SetupQuiet

LEMMA RequestsAre ==
  ASSUME AsyncInv, NEW requests \in Requests
  PROVE  /\ requests \in Seq(RequestType) /\ Len(requests) \in Nat \ {0}
         /\ scheduleAlgo # "send" => Len(requests) = 1
<1>1. /\ Partitions \in Nat \ {0} /\ NumWorkers \in Nat \ {0} /\ taskindex \in Nat
      /\ ActivePartitions \in Nat \ {0}
  BY TablesAssumption, TypeParts DEF ActivePartitions
<1>2. CASE scheduleAlgo = "send"
  <2>1. requests = [i \in 1 .. Partitions |-> Request(i - 1)]
    BY <1>2 DEF Requests
  <2>2. \A i \in 1 .. Partitions : Request(i - 1) \in RequestType
    BY <1>1, <1>2 DEF Request, RequestType
  <2>3. requests \in [1 .. Partitions -> RequestType]
    BY <2>1, <2>2
  <2> QED BY <1>1, <1>2, <2>3
<1>3. CASE scheduleAlgo # "send"
  <2>1. PICK p \in 0 .. ActivePartitions - 1 : requests = <<Request(p)>>
    BY <1>1, <1>3 DEF Requests
  <2>2. Request(p) \in RequestType
    BY <1>1, <1>3 DEF Request, RequestType
  <2> QED BY <2>1, <2>2
<1> QED BY <1>2, <1>3

LEMMA AsyncScheduleInv ==
  ASSUME AsyncInv, NEW t \in Threads, AsyncSchedule(t)
  PROVE  AsyncInv'
<1>1. PICK requests \in Requests : sent' = [sent EXCEPT ![t] = @ \o requests] /\ calls' = calls + Len(requests)
  BY DEF AsyncSchedule
<1>2. /\ Alive /\ pc[t] = "send"
      /\ taskindex' = IF HasTasks THEN taskindex + 1 ELSE taskindex
      /\ outCnt_' = [outCnt_ EXCEPT ![t] = @ + 1]
      /\ Goto(t, AfterSend(outCnt_[t] + 1))
      /\ UNCHANGED <<tables, mainVars, schedLatsArrayIndex, replies>>
  BY DEF AsyncSchedule
<1>3. PICK n \in Nat \ {0} : /\ n = Len(requests) /\ requests \in Seq(RequestType)
                             /\ scheduleAlgo # "send" => n = 1
  BY RequestsAre
<1>4. /\ schedLatsArrayIndex \in Nat /\ taskindex \in Nat /\ calls \in Nat
      /\ pc \in [Threads -> Places] /\ outCnt_ \in [Threads -> Int]
      /\ sent \in [Threads -> Seq(RequestType)] /\ replies \in [Threads -> Seq(Int)]
  BY TypeParts
<1>5. TablesTypeOK' /\ RowsInOrder' /\ LoadBalanced' /\ Taken' = Taken /\ RequestType' = RequestType
  BY <1>2, TablesStill DEF mainVars
<1> DEFINE g == sent[t] \o requests
<1>6. g \in Seq(RequestType) /\ Len(g) = Len(sent[t]) + n /\ Len(sent[t]) \in Nat
  BY <1>3, <1>4, ConcatProperties
<1>7. sent' = [sent EXCEPT ![t] = g]
  BY <1>1
<1> HIDE DEF g
<1>8. sent' \in [Threads -> Seq(RequestType)] /\ sent'[t] = g
      /\ \A u \in Threads \ {t} : sent'[u] = sent[u]
  BY <1>4, <1>6, <1>7
<1>9. AfterSend(outCnt_[t] + 1) \in {"events", "test"}
  BY DEF AfterSend
<1>10. pc' \in [Threads -> Places] /\ pc'[t] \in {"events", "test"}
       /\ \A u \in Threads \ {t} : pc'[u] = pc[u]
  BY <1>2, <1>4, <1>9 DEF Goto, Places
<1>11. AsyncTypeOK'
  <2>1. taskindex' \in Nat /\ calls' \in Nat /\ outCnt_' \in [Threads -> Int]
    BY <1>1, <1>2, <1>3, <1>4
  <2> QED BY <1>2, <1>4, <1>5, <1>8, <1>10, <2>1 DEF AsyncInv, AsyncTypeOK, mainVars
<1>12. ~SettingUp' /\ mainPc' = mainPc /\ mainPc \in {"run", "join"} /\ scheduleAlgo' = scheduleAlgo
  BY <1>2 DEF SettingUp, Alive, mainVars
<1>13. Unanswered' = Unanswered + n
  <2>1. Lens(sent) \in Nat /\ Lens(sent') = Lens(sent) + Len(g) - Len(sent[t])
    BY <1>4, <1>6, <1>7, LensChange, ZenonT(60)
  <2> QED BY <1>3, <1>6, <2>1, SumsAre
<1>14. Untold(AnswerValues)' = Untold(AnswerValues) /\ Untold(Placed)' = Untold(Placed)
       /\ Untold({FAILED})' = Untold({FAILED})
  BY <1>2, SumsAre
<1>15. RequestsCounted'
  <2>1. \A u \in Threads : pc'[u] = "finished" => sent'[u] = <<>> /\ replies'[u] = <<>>
    BY <1>2, <1>8, <1>10 DEF AsyncInv, RequestsCounted
  <2>2. calls' = schedLatsArrayIndex' + Unanswered' + Untold(AnswerValues)'
    <3>1. calls = schedLatsArrayIndex + Unanswered + Untold(AnswerValues)
      BY <1>12 DEF AsyncInv, RequestsCounted
    <3>2. PICK x \in Nat, y \in Nat, z \in Nat :
            x = schedLatsArrayIndex /\ y = Unanswered /\ z = Untold(AnswerValues)
      BY TypeParts
    <3>3. calls' = calls + n /\ schedLatsArrayIndex' = x /\ Unanswered' = y + n
          /\ Untold(AnswerValues)' = z
      BY <1>1, <1>2, <1>3, <1>13, <1>14, <3>2
    <3> QED BY <1>3, <3>1, <3>2, <3>3, SMTT(40)
  <2> QED BY <1>2, <1>12, <2>1, <2>2 DEF AsyncInv, RequestsCounted
<1>16. OutstandingCounted'
  <2>1. ASSUME NEW u \in Threads
        PROVE  IF scheduleAlgo = "send" THEN outCnt_'[u] <= Len(sent'[u]) + Len(replies'[u])
               ELSE outCnt_'[u] = Len(sent'[u]) + Len(replies'[u])
    <3>1. PICK a \in Nat, b \in Nat, o \in Int : a = Len(sent[u]) /\ b = Len(replies[u]) /\ o = outCnt_[u]
      BY <1>4
    <3>2. IF scheduleAlgo = "send" THEN o <= a + b ELSE o = a + b
      BY <1>2, <3>1 DEF AsyncInv, OutstandingCounted
    <3>3. CASE u = t
      <4>1. outCnt_'[u] = o + 1 /\ Len(sent'[u]) = a + n /\ Len(replies'[u]) = b
        BY <1>2, <1>4, <1>6, <1>8, <3>1, <3>3
      <4>2. CASE scheduleAlgo = "send"
        <5>1. o + 1 <= (a + n) + b
          BY <3>2, <4>2
        <5> QED BY <4>1, <4>2, <5>1
      <4>3. CASE scheduleAlgo # "send"
        <5>1. o + 1 = (a + n) + b
          BY <1>3, <3>2, <4>3, SMTT(40)
        <5> QED BY <4>1, <4>3, <5>1
      <4> QED BY <4>2, <4>3
    <3>4. CASE u # t
      BY <1>2, <1>4, <1>8, <3>1, <3>2, <3>4
    <3> QED BY <3>3, <3>4
  <2> QED BY <1>12, <2>1 DEF OutstandingCounted
<1>17. EveryRequestRecorded'
  BY <1>2, <1>5, <1>12, <1>14 DEF AsyncInv, EveryRequestRecorded, Placed, Alive
<1> QED BY <1>5, <1>11, <1>12, <1>15, <1>16, <1>17 DEF AsyncInv, SetupQuiet

LEMMA CallbackInv ==
  ASSUME AsyncInv, NEW t \in Threads, Callback(t)
  PROVE  AsyncInv'
<1> DEFINE g == Tail(replies[t])
           p == IF pc[t] = "events" /\ outCnt_[t] - 1 <= MaxOutstanding \div 2 THEN "test" ELSE pc[t]
<1>1. /\ Alive /\ pc[t] \in {"events", "drain"} /\ replies[t] # <<>> /\ Head(replies[t]) >= 0
      /\ schedLatsArrayIndex' = schedLatsArrayIndex + 1
      /\ replies' = [replies EXCEPT ![t] = g]
      /\ outCnt_' = [outCnt_ EXCEPT ![t] = @ - 1]
      /\ pc' = [pc EXCEPT ![t] = p]
      /\ UNCHANGED <<tables, mainVars, taskindex, sent, calls>>
  BY DEF Callback, InEventLoop, Goto
<1>2. p \in {"events", "drain", "test"}
  BY <1>1
<1>3. /\ schedLatsArrayIndex \in Nat /\ taskindex \in Nat /\ calls \in Nat
      /\ pc \in [Threads -> Places] /\ outCnt_ \in [Threads -> Int]
      /\ sent \in [Threads -> Seq(RequestType)] /\ replies \in [Threads -> Seq(Int)]
  BY TypeParts
<1>4. TablesTypeOK' /\ RowsInOrder' /\ LoadBalanced' /\ Taken' = Taken /\ RequestType' = RequestType
  BY <1>1, TablesStill DEF mainVars
<1>5. /\ g \in Seq(Int) /\ Len(g) = Len(replies[t]) - 1 /\ Len(replies[t]) \in Nat
      /\ \A i \in DOMAIN g : i + 1 \in DOMAIN replies[t] /\ g[i] = replies[t][i + 1]
      /\ 1 \in DOMAIN replies[t] /\ Head(replies[t]) = replies[t][1]
  BY <1>1, <1>3
<1>6. Head(replies[t]) \in Placed /\ Head(replies[t]) \in AnswerValues /\ Head(replies[t]) \notin {FAILED}
  <2>1. Head(replies[t]) \in AnswerValues
    BY <1>5 DEF AsyncInv, RequestsCounted
  <2> QED BY <1>1, <2>1 DEF AnswerValues, Placed, FAILED, NOWORKER, SUCCESS
<1>7. /\ Kind(replies', AnswerValues) = Kind(replies, AnswerValues) - 1
      /\ Kind(replies', Placed) = Kind(replies, Placed) - 1
      /\ Kind(replies', {FAILED}) = Kind(replies, {FAILED})
  <2>1. ASSUME NEW kinds
        PROVE  /\ Kind(replies, kinds) \in Nat
               /\ Kind(replies', kinds) = IF Head(replies[t]) \in kinds THEN Kind(replies, kinds) - 1
                                          ELSE Kind(replies, kinds)
    <3>1. replies[t] \in Seq(Int)
      BY <1>3
    <3>2. Cardinality(At(g, kinds)) =
            IF Head(replies[t]) \in kinds THEN Cardinality(At(replies[t], kinds)) - 1
            ELSE Cardinality(At(replies[t], kinds))
      BY <1>1, <3>1, AtTail
    <3> HIDE DEF g
    <3>3. /\ Kind(replies, kinds) \in Nat
          /\ Cardinality(At(g, kinds)) \in Nat /\ Cardinality(At(replies[t], kinds)) \in Nat
          /\ Kind(replies', kinds)
               = Kind(replies, kinds) + Cardinality(At(g, kinds)) - Cardinality(At(replies[t], kinds))
      <4>1. /\ replies \in [Threads -> Seq(Int)] /\ g \in Seq(Int)
            /\ replies' = [replies EXCEPT ![t] = g]
        BY <1>1, <1>3, <1>5
      <4> QED BY <4>1, KindChange, ZenonT(60)
    <3> QED BY <3>2, <3>3
  <2> QED BY <1>6, <2>1
<1> HIDE DEF g, p
<1>8. /\ replies' \in [Threads -> Seq(Int)] /\ replies'[t] = g
      /\ \A u \in Threads \ {t} : replies'[u] = replies[u]
  BY <1>1, <1>3, <1>5
<1>9. pc' \in [Threads -> Places] /\ pc'[t] = p /\ \A u \in Threads \ {t} : pc'[u] = pc[u]
  BY <1>1, <1>2, <1>3 DEF Places
<1>10. AsyncTypeOK'
  <2>1. schedLatsArrayIndex' \in Nat /\ outCnt_' \in [Threads -> Int]
    BY <1>1, <1>3
  <2> QED BY <1>1, <1>3, <1>4, <1>8, <1>9, <2>1 DEF AsyncInv, AsyncTypeOK, mainVars
<1>11. ~SettingUp' /\ mainPc' = mainPc /\ mainPc \in {"run", "join"} /\ scheduleAlgo' = scheduleAlgo
  BY <1>1 DEF SettingUp, Alive, mainVars
<1>12. PICK x \in Nat, y \in Nat, z \in Nat, v \in Nat :
         x = schedLatsArrayIndex /\ y = Unanswered /\ z = Untold(AnswerValues) /\ v = Untold(Placed)
  BY TypeParts
<1>13. /\ schedLatsArrayIndex' = x + 1 /\ Unanswered' = y /\ Untold(AnswerValues)' = z - 1
       /\ Untold(Placed)' = v - 1 /\ Untold({FAILED})' = Untold({FAILED}) /\ calls' = calls
  BY <1>1, <1>7, <1>12, SumsAre
<1>14. RequestsCounted'
  <2>1. \A u \in Threads : pc'[u] = "finished" => sent'[u] = <<>> /\ replies'[u] = <<>>
    BY <1>1, <1>2, <1>8, <1>9 DEF AsyncInv, RequestsCounted
  <2>2. calls' = schedLatsArrayIndex' + Unanswered' + Untold(AnswerValues)'
    <3>1. calls = x + y + z
      BY <1>11, <1>12 DEF AsyncInv, RequestsCounted
    <3> QED BY <1>13, <3>1
  <2>3. \A u \in Threads : \A i \in DOMAIN replies'[u] : replies'[u][i] \in AnswerValues
    BY <1>5, <1>8, SMTT(40) DEF AsyncInv, RequestsCounted
  <2>4. AnswerValues' = AnswerValues
    BY DEF AnswerValues
  <2> QED BY <1>11, <2>1, <2>2, <2>3, <2>4 DEF RequestsCounted
<1>15. OutstandingCounted'
  <2>1. ASSUME NEW u \in Threads
        PROVE  IF scheduleAlgo = "send" THEN outCnt_'[u] <= Len(sent'[u]) + Len(replies'[u])
               ELSE outCnt_'[u] = Len(sent'[u]) + Len(replies'[u])
    <3>1. PICK a \in Nat, b \in Nat, o \in Int : a = Len(sent[u]) /\ b = Len(replies[u]) /\ o = outCnt_[u]
      BY <1>3
    <3>2. IF scheduleAlgo = "send" THEN o <= a + b ELSE o = a + b
      BY <1>1, <3>1 DEF AsyncInv, OutstandingCounted
    <3>3. CASE u = t
      <4>1. outCnt_'[u] = o - 1 /\ Len(sent'[u]) = a /\ Len(replies'[u]) = b - 1
        BY <1>1, <1>3, <1>5, <1>8, <3>1, <3>3
      <4>2. CASE scheduleAlgo = "send"
        <5>1. o - 1 <= a + (b - 1)
          BY <3>2, <4>2
        <5> QED BY <4>1, <4>2, <5>1
      <4>3. CASE scheduleAlgo # "send"
        <5>1. o - 1 = a + (b - 1)
          BY <3>2, <4>3
        <5> QED BY <4>1, <4>3, <5>1
      <4> QED BY <4>2, <4>3
    <3>4. CASE u # t
      BY <1>1, <1>3, <1>8, <3>1, <3>2, <3>4
    <3> QED BY <3>3, <3>4
  <2> QED BY <1>11, <2>1 DEF OutstandingCounted
<1>16. EveryRequestRecorded'
  <2>1. scheduleAlgo # "broadcast" => Taken - (x + v) \in 0 .. Untold({FAILED})
    BY <1>1, <1>12 DEF AsyncInv, EveryRequestRecorded, Placed
  <2>2. (x + 1) + (v - 1) = x + v
    OBVIOUS
  <2>3. scheduleAlgo # "broadcast" =>
          Taken' - (schedLatsArrayIndex' + Untold(Placed)') \in 0 .. Untold({FAILED})'
    BY <1>4, <1>13, <2>1, <2>2
  <2> QED BY <1>11, <2>3 DEF EveryRequestRecorded, Placed
<1> QED BY <1>4, <1>10, <1>11, <1>14, <1>15, <1>16 DEF AsyncInv, SetupQuiet

LEMMA DieInv ==
  ASSUME AsyncInv, NEW how \in {"exited", "aborted"}, Die(how), Alive, schedLatsArrayIndex' \in Nat
  PROVE  AsyncInv'
<1>1. Worker' = Worker /\ Task' = Task /\ RequestType' = RequestType
  BY DEF Die, tables, RequestType, ActivePartitions
<1>2. AsyncTypeOK'
  <2>1. /\ pc' \in [Threads -> Places] /\ outCnt_' \in [Threads -> Int]
        /\ replies' \in [Threads -> Seq(Int)] /\ sent' \in [Threads -> Seq(RequestType)]
    BY TypeParts DEF Die, Places
  <2> QED BY <1>1, <2>1 DEF Die, AsyncInv, AsyncTypeOK, TablesTypeOK, Ended
<1>3. ~SettingUp' /\ ~Alive' /\ mainPc' \notin {"teardownWorkers", "teardownTasks", "done"}
      /\ mainPc' \in {"exited", "aborted"} /\ scheduleAlgo' = scheduleAlgo
  BY DEF Die, SettingUp, Alive
<1>4. RowsInOrder'
  BY <1>1, <1>3 DEF AsyncInv, RowsInOrder, SettingUp
<1>5. LoadBalanced'
  BY <1>1, <1>3 DEF AsyncInv, LoadBalanced
<1>6. RequestsCounted'
  <2>1. \A t \in Threads : replies'[t] = <<>> /\ pc'[t] # "finished"
    BY DEF Die
  <2>2. \A t \in Threads : DOMAIN replies'[t] = {}
    BY <2>1
  <2> QED BY <1>3, <2>1, <2>2 DEF RequestsCounted
<1> QED BY <1>2, <1>3, <1>4, <1>5, <1>6
      DEF AsyncInv, SetupQuiet, OutstandingCounted, EveryRequestRecorded
-----------------------------------------------------------------------------
(* The database.                                                           *)

Fullest(k) ==
  scheduleAlgo = "fifo-local" =>
    \A j \in DOMAIN Worker : Worker[j].PKey = Worker[k].PKey => Worker[j].Capacity <= Worker[k].Capacity

LEMMA AnswerInv ==
  ASSUME AsyncInv, NEW t \in Threads, NEW i \in DOMAIN sent[t], NEW result \in AnswerValues,
         Answer(t, i, result), Task' \in Seq(TaskRow),
         \/ UNCHANGED Worker /\ (result \notin Placed \/ scheduleAlgo = "broadcast")
         \/ result \in Placed \cup {FAILED} /\ \E k \in DOMAIN Worker : Takes(k) /\ Fullest(k)
  PROVE  AsyncInv'
<1> DEFINE s == RemoveAt(sent[t], i)
           g == Append(replies[t], result)
<1>1. /\ sent' = [sent EXCEPT ![t] = s]
      /\ replies' = IF mainPc \in Ended THEN replies ELSE [replies EXCEPT ![t] = g]
      /\ UNCHANGED <<mainVars, schedLatsArrayIndex, taskindex, pc, outCnt_, calls>>
  BY DEF Answer
<1>2. /\ schedLatsArrayIndex \in Nat /\ taskindex \in Nat /\ calls \in Nat
      /\ pc \in [Threads -> Places] /\ outCnt_ \in [Threads -> Int]
      /\ sent \in [Threads -> Seq(RequestType)] /\ replies \in [Threads -> Seq(Int)]
  BY TypeParts
<1>3. UNCHANGED <<mainPc, inserted, scheduleAlgo, mainFinished>>
  BY <1>1 DEF mainVars
<1>4. sent[t] # <<>> /\ ~SettingUp /\ pc[t] # "finished"
      /\ mainPc \notin {"teardownWorkers", "teardownTasks", "done"}
  BY DEF AsyncInv, SetupQuiet, RequestsCounted
<1>5. Alive \/ mainPc \in {"exited", "aborted"}
  BY <1>4 DEF AsyncInv, AsyncTypeOK, SettingUp, Alive, Ended
<1>6. /\ Worker' \in Seq(WorkerRow) /\ RowsInOrder' /\ LoadBalanced' /\ Taken \in Nat
      /\ \/ Taken' = Taken /\ (result \notin Placed \/ scheduleAlgo = "broadcast")
         \/ Taken' = Taken + 1 /\ result \in Placed \cup {FAILED}
  <2>1. CASE UNCHANGED Worker /\ (result \notin Placed \/ scheduleAlgo = "broadcast")
    <3>1. Taken' = Taken
      BY <2>1 DEF Taken
    <3>2. RowsInOrder' /\ LoadBalanced'
      BY <1>3, <2>1 DEF AsyncInv, RowsInOrder, LoadBalanced
    <3> QED BY <2>1, <3>1, <3>2, InvRows, TypeParts
  <2>2. CASE result \in Placed \cup {FAILED} /\ \E k \in DOMAIN Worker : Takes(k) /\ Fullest(k)
    <3>1. PICK k \in DOMAIN Worker : Takes(k) /\ Fullest(k)
      BY <2>2
    <3>2. RowsInOrder' /\ LoadBalanced' /\ Taken \in Nat /\ Taken' = Taken + 1
      BY <1>3, <1>4, <3>1, TakesRows DEF Fullest
    <3> QED BY <2>2, <3>1, <3>2 DEF Takes
  <2> QED BY <2>1, <2>2
<1>7. RequestType' = RequestType
  BY <1>3 DEF RequestType, ActivePartitions
<1>8. s \in Seq(RequestType) /\ Len(s) = Len(sent[t]) - 1 /\ Len(sent[t]) \in Nat
  BY <1>2, RemoveAtIs
<1>9. result \in Int
  BY TablesAssumption DEF AnswerValues, Workers, FAILED, NOWORKER, SUCCESS
<1>10. /\ g \in Seq(Int) /\ Len(g) = Len(replies[t]) + 1 /\ Len(replies[t]) \in Nat
       /\ \A j \in DOMAIN g : g[j] = result \/ (j \in DOMAIN replies[t] /\ g[j] = replies[t][j])
  BY <1>2, <1>9
<1>11. ASSUME NEW kinds
       PROVE  Cardinality(At(g, kinds)) =
                IF result \in kinds THEN Cardinality(At(replies[t], kinds)) + 1
                ELSE Cardinality(At(replies[t], kinds))
  <2>1. replies[t] \in Seq(Int) /\ result \in Int
    BY <1>2, <1>9
  <2> QED BY <2>1, AtAppend
<1> HIDE DEF s, g
<1>12. /\ sent' \in [Threads -> Seq(RequestType)] /\ sent'[t] = s
       /\ \A u \in Threads \ {t} : sent'[u] = sent[u]
  BY <1>1, <1>2, <1>8
<1>13. replies' \in [Threads -> Seq(Int)] /\ \A u \in Threads \ {t} : replies'[u] = replies[u]
  BY <1>1, <1>2, <1>10
<1>14. AsyncTypeOK'
  BY <1>1, <1>2, <1>3, <1>6, <1>7, <1>12, <1>13 DEF AsyncInv, AsyncTypeOK, TablesTypeOK
<1>15. ~SettingUp' /\ mainPc' \notin {"teardownWorkers", "teardownTasks", "done"}
  BY <1>3, <1>4 DEF SettingUp
<1>16. Alive => replies' = [replies EXCEPT ![t] = g] /\ replies'[t] = g
  BY <1>1, <1>2 DEF Alive, Ended
<1>17. ASSUME Alive, NEW kinds
       PROVE  /\ Kind(replies, kinds) \in Nat
              /\ Kind(replies', kinds) = IF result \in kinds THEN Kind(replies, kinds) + 1
                                         ELSE Kind(replies, kinds)
  <2>1. /\ replies \in [Threads -> Seq(Int)] /\ g \in Seq(Int) /\ replies' = [replies EXCEPT ![t] = g]
    BY <1>2, <1>10, <1>16, <1>17
  <2>2. /\ Kind(replies, kinds) \in Nat
        /\ Cardinality(At(g, kinds)) \in Nat /\ Cardinality(At(replies[t], kinds)) \in Nat
        /\ Kind(replies', kinds)
             = Kind(replies, kinds) + Cardinality(At(g, kinds)) - Cardinality(At(replies[t], kinds))
    BY <2>1, KindChange, ZenonT(60)
  <2> QED BY <1>11, <2>2
<1>18. Unanswered' = Unanswered - 1
  <2>1. Lens(sent) \in Nat /\ Lens(sent') = Lens(sent) + Len(s) - Len(sent[t])
    BY <1>1, <1>2, <1>8, LensChange, ZenonT(60)
  <2> QED BY <1>8, <2>1, SumsAre
<1>19. RequestsCounted'
  <2>1. \A u \in Threads : pc'[u] = "finished" => sent'[u] = <<>> /\ replies'[u] = <<>>
    BY <1>1, <1>4, <1>12, <1>13 DEF AsyncInv, RequestsCounted
  <2>2. \A u \in Threads : \A j \in DOMAIN replies'[u] : replies'[u][j] \in AnswerValues
    BY <1>1, <1>2, <1>10, <1>13 DEF AsyncInv, RequestsCounted
  <2>3. CASE Alive
    <3>1. PICK x \in Nat, y \in Nat, z \in Nat :
            x = schedLatsArrayIndex /\ y = Unanswered /\ z = Untold(AnswerValues)
      BY TypeParts
    <3>2. calls = x + y + z
      BY <2>3, <3>1 DEF AsyncInv, RequestsCounted, Alive
    <3>3. schedLatsArrayIndex' = x /\ Unanswered' = y - 1 /\ Untold(AnswerValues)' = z + 1 /\ calls' = calls
      BY <1>1, <1>17, <1>18, <2>3, <3>1, SumsAre
    <3>4. x + (y - 1) + (z + 1) = x + y + z
      OBVIOUS
    <3>5. calls' = schedLatsArrayIndex' + Unanswered' + Untold(AnswerValues)'
      BY <3>2, <3>3, <3>4
    <3> QED BY <1>15, <2>1, <2>2, <3>5 DEF RequestsCounted, AnswerValues
  <2>4. CASE mainPc \in {"exited", "aborted"}
    BY <1>3, <1>15, <2>1, <2>2, <2>4 DEF RequestsCounted, AnswerValues
  <2> QED BY <1>5, <2>3, <2>4
<1>20. OutstandingCounted'
  <2>1. ASSUME Alive, NEW u \in Threads
        PROVE  IF scheduleAlgo = "send" THEN outCnt_'[u] <= Len(sent'[u]) + Len(replies'[u])
               ELSE outCnt_'[u] = Len(sent'[u]) + Len(replies'[u])
    <3>1. PICK a \in Nat, b \in Nat : a = Len(sent[u]) /\ b = Len(replies[u])
      BY <1>2
    <3>2. IF scheduleAlgo = "send" THEN outCnt_[u] <= a + b ELSE outCnt_[u] = a + b
      BY <2>1, <3>1 DEF AsyncInv, OutstandingCounted
    <3>3. Len(sent'[u]) + Len(replies'[u]) = a + b
      <4>1. CASE u = t
        <5>1. Len(sent'[u]) = a - 1 /\ Len(replies'[u]) = b + 1
          BY <1>8, <1>10, <1>12, <1>16, <2>1, <3>1, <4>1
        <5> QED BY <5>1
      <4>2. CASE u # t
        BY <1>12, <1>13, <3>1, <4>2
      <4> QED BY <4>1, <4>2
    <3> QED BY <1>1, <3>2, <3>3
  <2> QED BY <1>3, <2>1 DEF OutstandingCounted, Alive
<1>21. EveryRequestRecorded'
  <2>1. CASE mainPc \in {"exited", "aborted"} \/ scheduleAlgo = "broadcast"
    BY <1>3, <1>15, <2>1 DEF EveryRequestRecorded, Alive
  <2>2. CASE Alive /\ scheduleAlgo # "broadcast"
    <3>1. PICK x \in Nat, v \in Nat, w \in Nat, k \in Nat :
            x = schedLatsArrayIndex /\ v = Untold(Placed) /\ w = Untold({FAILED}) /\ k = Taken
      BY TypeParts
    <3>2. k - (x + v) \in 0 .. w
      BY <2>2, <3>1 DEF AsyncInv, EveryRequestRecorded, Placed
    <3>3. /\ schedLatsArrayIndex' = x
          /\ Untold(Placed)' = IF result \in Placed THEN v + 1 ELSE v
          /\ Untold({FAILED})' = IF result \in {FAILED} THEN w + 1 ELSE w
      BY <1>1, <1>17, <2>2, <3>1, SumsAre
    <3>4. FAILED \notin Placed
      BY TablesAssumption DEF Placed, Workers, FAILED, SUCCESS
    <3>5. Taken' - (schedLatsArrayIndex' + Untold(Placed)') \in 0 .. Untold({FAILED})'
      <4>1. CASE result \in Placed
        <5>1. Taken' = k + 1 /\ result # FAILED
          BY <1>6, <2>2, <3>1, <3>4, <4>1
        <5>2. Untold(Placed)' = v + 1 /\ Untold({FAILED})' = w
          BY <3>3, <4>1, <5>1
        <5>3. (k + 1) - (x + (v + 1)) = k - (x + v)
          OBVIOUS
        <5> QED BY <3>2, <3>3, <5>1, <5>2, <5>3
      <4>2. CASE result = FAILED
        <5>1. Taken' \in {k, k + 1}
          BY <1>6, <3>1
        <5>2. Untold(Placed)' = v /\ Untold({FAILED})' = w + 1
          BY <3>3, <3>4, <4>2
        <5>3. k - (x + v) \in 0 .. w + 1 /\ (k + 1) - (x + v) \in 0 .. w + 1
          BY <3>2
        <5> QED BY <3>3, <5>1, <5>2, <5>3
      <4>3. CASE result \notin Placed /\ result # FAILED
        <5>1. Taken' = k
          BY <1>6, <3>1, <4>3
        <5>2. Untold(Placed)' = v /\ Untold({FAILED})' = w
          BY <3>3, <4>3
        <5> QED BY <3>2, <3>3, <5>1, <5>2
      <4> QED BY <4>1, <4>2, <4>3
    <3> QED BY <1>15, <3>5 DEF EveryRequestRecorded, Placed
  <2> QED BY <1>5, <2>1, <2>2
<1> QED BY <1>6, <1>14, <1>15, <1>19, <1>20, <1>21 DEF AsyncInv, SetupQuiet

LEMMA ExecuteInv ==
  ASSUME AsyncInv, NEW t \in Threads, Execute(t) \/ ExecuteFails(t)
  PROVE  AsyncInv'
<1>1. NOWORKER \notin Placed /\ -1 \notin Placed /\ FAILED \in AnswerValues /\ FAILED \notin Placed
  BY TablesAssumption DEF Placed, Workers, SUCCESS, NOWORKER, FAILED, AnswerValues
<1>2. ASSUME NEW i \in DOMAIN sent[t] PROVE sent[t][i] \in RequestType
  <2>1. sent[t] \in Seq(RequestType)
    BY TypeParts
  <2> QED BY <2>1
<1>3. CASE Execute(t)
  <2>1. PICK i \in DOMAIN sent[t], result \in Workers \cup {SUCCESS, -1, NOWORKER} :
          Invoke(sent[t][i], result) /\ Answer(t, i, result)
    BY <1>3 DEF Execute
  <2>2. /\ Task' \in Seq(TaskRow)
        /\ \/ UNCHANGED Worker /\ (result \notin Placed \/ scheduleAlgo = "broadcast")
           \/ result \in Placed \cup {FAILED} /\ \E k \in DOMAIN Worker : Takes(k) /\ Fullest(k)
    BY <1>1, <1>2, <2>1, InvokeEffect DEF Fullest
  <2>3. result \in AnswerValues
    BY DEF AnswerValues
  <2> QED BY <2>1, <2>2, <2>3, AnswerInv
<1>4. CASE ExecuteFails(t)
  <2>1. PICK i \in DOMAIN sent[t] :
          /\ \/ \E result \in Workers \cup {SUCCESS, -1, NOWORKER} : Invoke(sent[t][i], result)
             \/ UNCHANGED tables
          /\ Answer(t, i, FAILED)
    BY <1>4 DEF ExecuteFails
  <2>2. /\ Task' \in Seq(TaskRow)
        /\ \/ UNCHANGED Worker
           \/ \E k \in DOMAIN Worker : Takes(k) /\ Fullest(k)
    <3>1. CASE UNCHANGED tables
      BY <3>1, InvRows DEF tables
    <3>2. CASE \E result \in Workers \cup {SUCCESS, -1, NOWORKER} : Invoke(sent[t][i], result)
      BY <1>2, <3>2, InvokeEffect DEF Fullest
    <3> QED BY <2>1, <3>1, <3>2
  <2> QED BY <1>1, <2>1, <2>2, AnswerInv
<1> QED BY <1>3, <1>4

LEMMA ThreadInv ==
  ASSUME AsyncInv, NEW t \in Threads, Thread(t)
  PROVE  AsyncInv'
<1>1. CASE AsyncSchedule(t)
  BY <1>1, AsyncScheduleInv
<1>2. CASE NotItsTurn(t)
  BY <1>2, PcMoves DEF NotItsTurn
<1>3. CASE EventsDone(t)
  BY <1>3, PcMoves DEF EventsDone
<1>4. CASE LoopTest(t)
  BY <1>4, PcMoves DEF LoopTest
<1>5. CASE Drained(t)
  BY <1>5, PcMoves DEF Drained
<1>6. CASE Callback(t)
  BY <1>6, CallbackInv
<1>7. CASE CallbackExits(t)
  BY <1>7, DieInv, TypeParts DEF CallbackExits, InEventLoop
<1>8. CASE CallbackAsserts(t)
  BY <1>8, DieInv, TypeParts DEF CallbackAsserts, InEventLoop
<1> QED BY <1>1, <1>2, <1>3, <1>4, <1>5, <1>6, <1>7, <1>8 DEF Thread
-----------------------------------------------------------------------------
(* main().                                                                 *)

MainPlaces ==
  {"truncateWorkers", "truncateTasks", "insertWorkers", "run", "join",
   "teardownWorkers", "teardownTasks"} \cup Ended

\* A step of main() leaves the threads and what is counted about them alone.
LEMMA ThreadsStill ==
  ASSUME AsyncInv, UNCHANGED <<scheduleAlgo, threadVars>>,
         Worker' \in Seq(WorkerRow), Task' \in Seq(TaskRow), mainPc' \in MainPlaces,
         inserted' \in 0 .. NumWorkers, mainFinished' \in BOOLEAN,
         mainPc \notin {"exited", "aborted"},
         mainPc' \in {"teardownWorkers", "teardownTasks", "done"} =>
           \A t \in Threads : pc[t] = "finished"
  PROVE  /\ AsyncTypeOK' /\ RequestsCounted'
         /\ Untold(Placed)' = Untold(Placed) /\ Untold({FAILED})' = Untold({FAILED})
         /\ mainPc' = "done" => schedLatsArrayIndex' = calls'
<1>1. UNCHANGED <<schedLatsArrayIndex, taskindex, pc, outCnt_, sent, replies, calls, scheduleAlgo>>
  BY DEF threadVars
<1>2. RequestType' = RequestType
  BY <1>1 DEF RequestType, ActivePartitions
<1>3. AsyncTypeOK'
  BY <1>1, <1>2 DEF AsyncInv, AsyncTypeOK, TablesTypeOK, MainPlaces
<1>4. /\ Unanswered' = Unanswered /\ Untold(AnswerValues)' = Untold(AnswerValues)
      /\ Untold(Placed)' = Untold(Placed) /\ Untold({FAILED})' = Untold({FAILED})
  BY <1>1, SumsAre
<1>5. RequestsCounted'
  BY <1>1, <1>4 DEF AsyncInv, RequestsCounted
<1>6. mainPc' = "done" => schedLatsArrayIndex' = calls'
  <2> SUFFICES ASSUME mainPc' = "done" PROVE schedLatsArrayIndex = calls
    BY <1>1
  <2>1. \A t \in Threads : sent[t] = <<>> /\ replies[t] = <<>>
    BY DEF AsyncInv, RequestsCounted
  <2>2. Unanswered = 0 /\ Untold(AnswerValues) = 0
    BY <2>1, SumsZero, SumsAre
  <2> QED BY <2>2, TypeParts DEF AsyncInv, RequestsCounted
<1> QED BY <1>3, <1>4, <1>5, <1>6

\* Before the threads begin nothing has been taken.
LEMMA NothingTaken ==
  ASSUME AsyncInv, SettingUp
  PROVE  Taken = 0 /\ Untold(Placed) = 0 /\ Untold({FAILED}) = 0 /\ schedLatsArrayIndex = 0
<1>1. /\ \A t \in Threads : replies[t] = <<>>
      /\ \A i \in DOMAIN Worker : Worker[i].Capacity = WorkerCapacity
      /\ schedLatsArrayIndex = 0
  BY DEF AsyncInv, SetupQuiet
<1>2. \A i \in DOMAIN Worker : Units(Worker)[i] = {}
  BY <1>1, AsyncAssumption DEF Units
<1>3. DOMAIN Units(Worker) = DOMAIN Worker
  BY DEF Units
<1>4. Taken = 0
  BY <1>2, <1>3, TakenIs, TotalZero
<1> QED BY <1>1, <1>4, SumsZero, SumsAre

LEMMA InsertedRows ==
  ASSUME AsyncInv, mainPc = "insertWorkers", inserted < NumWorkers,
         InsertWorker(inserted, WorkerCapacity, PKeyOf(inserted))
  PROVE  /\ Worker' \in Seq(WorkerRow) /\ Task' = Task /\ Len(Worker') = inserted + 1
         /\ \A i \in DOMAIN Worker' :
              /\ Worker'[i].WorkerID = i - 1 /\ Worker'[i].WorkerID \in Workers
              /\ Worker'[i].Capacity = WorkerCapacity
<1> DEFINE row == [WorkerID |-> inserted, Capacity |-> WorkerCapacity, PKey |-> PKeyOf(inserted)]
<1>1. /\ inserted \in Nat /\ inserted \in Workers /\ WorkerCapacity \in Nat
      /\ Worker \in Seq(WorkerRow) /\ Len(Worker) = inserted
      /\ \A i \in DOMAIN Worker : /\ Worker[i].WorkerID = i - 1 /\ Worker[i].WorkerID \in Workers
                                  /\ Worker[i].Capacity = WorkerCapacity
  BY InvRows, AsyncAssumption, TablesAssumption
     DEF AsyncInv, AsyncTypeOK, RowsInOrder, SetupQuiet, SettingUp, Workers
<1>2. PKeyOf(inserted) \in Nat
  BY <1>1, TablesAssumption DEF PKeyOf
<1>3. row \in WorkerRow
  BY <1>1, <1>2 DEF WorkerRow
<1>4. /\ row.WorkerID = inserted /\ row.Capacity = WorkerCapacity
      /\ Worker' = Append(Worker, row) /\ Task' = Task
  BY DEF InsertWorker
<1> HIDE DEF row
<1>5. /\ Worker' \in Seq(WorkerRow) /\ Len(Worker') = inserted + 1
      /\ \A i \in DOMAIN Worker' :
           (i \in DOMAIN Worker /\ Worker'[i] = Worker[i]) \/ (i = inserted + 1 /\ Worker'[i] = row)
  BY <1>1, <1>3, <1>4
<1> QED BY <1>1, <1>4, <1>5

\* setup() up to the start of the threads, whichever way it goes on.
LEMMA SetupInv ==
  ASSUME AsyncInv, SettingUp, UNCHANGED <<scheduleAlgo, mainFinished, threadVars>>,
         Worker' \in Seq(WorkerRow), Task' \in Seq(TaskRow), inserted' \in 0 .. NumWorkers,
         mainPc' \in {"truncateTasks", "insertWorkers", "exited"},
         \A i \in DOMAIN Worker' : /\ Worker'[i].WorkerID = i - 1 /\ Worker'[i].WorkerID \in Workers
                                   /\ Worker'[i].Capacity = WorkerCapacity,
         mainPc' = "truncateTasks" => Worker' = <<>> /\ inserted' = 0,
         mainPc' = "insertWorkers" => Len(Worker') = inserted'
  PROVE  AsyncInv'
<1>1. WorkerCapacity \in Nat /\ mainFinished' \in BOOLEAN /\ mainPc \notin {"exited", "aborted"}
      /\ mainPc' \in MainPlaces
  BY AsyncAssumption DEF AsyncInv, AsyncTypeOK, SettingUp, MainPlaces, Ended
<1>2. AsyncTypeOK' /\ RequestsCounted'
  BY <1>1, ThreadsStill
<1>3. RowsInOrder'
  BY <1>1 DEF RowsInOrder
<1>4. SetupQuiet'
  BY DEF AsyncInv, SetupQuiet, threadVars
<1>5. LoadBalanced'
  BY <1>1 DEF LoadBalanced
<1>6. OutstandingCounted' /\ EveryRequestRecorded'
  BY DEF OutstandingCounted, EveryRequestRecorded, Alive
<1> QED BY <1>2, <1>3, <1>4, <1>5, <1>6 DEF AsyncInv

\* The threads begin.
LEMMA StartThreadsInv ==
  ASSUME AsyncInv, StartThreads
  PROVE  AsyncInv'
<1>1. /\ SettingUp /\ mainPc = "insertWorkers" /\ mainPc' = "run" /\ ~SettingUp'
      /\ pc' = [t \in Threads |-> "send"]
      /\ Worker' = Worker /\ Task' = Task
      /\ UNCHANGED <<scheduleAlgo, inserted, mainFinished, schedLatsArrayIndex, taskindex, outCnt_,
                     sent, replies, calls>>
  BY DEF StartThreads, SettingUp, tables
<1>2. RequestType' = RequestType
  BY <1>1 DEF RequestType, ActivePartitions
<1>3. pc' \in [Threads -> Places] /\ \A t \in Threads : pc'[t] = "send"
  BY <1>1 DEF Places
<1>4. AsyncTypeOK'
  BY <1>1, <1>2, <1>3 DEF AsyncInv, AsyncTypeOK, TablesTypeOK
<1>5. RowsInOrder' /\ LoadBalanced'
  BY <1>1 DEF AsyncInv, RowsInOrder, LoadBalanced
<1>6. /\ Unanswered' = Unanswered /\ Untold(AnswerValues)' = Untold(AnswerValues)
      /\ Untold(Placed)' = 0 /\ Untold({FAILED})' = 0 /\ Taken' = 0 /\ schedLatsArrayIndex' = 0
  <2>1. Taken' = Taken
    BY <1>1 DEF Taken
  <2> QED BY <1>1, <2>1, SumsAre, NothingTaken
<1>7. RequestsCounted'
  BY <1>1, <1>3, <1>6 DEF AsyncInv, RequestsCounted
<1>8. OutstandingCounted'
  <2>1. \A t \in Threads : sent'[t] = <<>> /\ replies'[t] = <<>> /\ outCnt_'[t] = 0
    BY <1>1 DEF AsyncInv, SetupQuiet
  <2>2. Len(<<>>) = 0 /\ 0 + 0 = 0
    OBVIOUS
  <2>3. \A t \in Threads : outCnt_'[t] = Len(sent'[t]) + Len(replies'[t])
    BY <2>1, <2>2
  <2>4. 0 <= 0
    OBVIOUS
  <2>5. \A t \in Threads : outCnt_'[t] <= Len(sent'[t]) + Len(replies'[t])
    BY <2>1, <2>2, <2>4
  <2> QED BY <2>3, <2>5 DEF OutstandingCounted
<1>9. EveryRequestRecorded'
  BY <1>1, <1>6 DEF EveryRequestRecorded, Placed
<1> QED BY <1>1, <1>4, <1>5, <1>7, <1>8, <1>9 DEF AsyncInv, SetupQuiet

\* The run is over, the threads are joined.
LEMMA EndOfRunInv ==
  ASSUME AsyncInv, FinishRun \/ JoinThreads
  PROVE  AsyncInv'
<1>1. /\ Alive /\ ~SettingUp' /\ Worker' = Worker /\ Task' = Task
      /\ UNCHANGED <<scheduleAlgo, inserted, threadVars>> /\ mainFinished' \in BOOLEAN
      /\ mainPc' \in {"join", "teardownWorkers", "done"}
      /\ mainPc' # "join" => \A t \in Threads : pc[t] = "finished"
  BY DEF FinishRun, JoinThreads, Alive, SettingUp, tables, AsyncInv, AsyncTypeOK
<1>2. /\ Worker' \in Seq(WorkerRow) /\ Task' \in Seq(TaskRow) /\ mainPc' \in MainPlaces
      /\ inserted' \in 0 .. NumWorkers /\ mainPc \notin {"exited", "aborted"}
      /\ mainPc' \in {"teardownWorkers", "teardownTasks", "done"} =>
           \A t \in Threads : pc[t] = "finished"
  BY <1>1, InvRows DEF AsyncInv, AsyncTypeOK, MainPlaces, Ended, Alive
<1>3. /\ AsyncTypeOK' /\ RequestsCounted'
      /\ Untold(Placed)' = Untold(Placed) /\ Untold({FAILED})' = Untold({FAILED})
      /\ mainPc' = "done" => schedLatsArrayIndex' = calls'
  BY <1>1, <1>2, ThreadsStill
<1>4. RowsInOrder' /\ LoadBalanced' /\ Taken' = Taken
  BY <1>1 DEF AsyncInv, RowsInOrder, LoadBalanced, Taken
<1>5. OutstandingCounted'
  BY <1>1 DEF AsyncInv, OutstandingCounted, threadVars
<1>6. EveryRequestRecorded'
  BY <1>1, <1>3, <1>4 DEF AsyncInv, EveryRequestRecorded, Placed, threadVars
<1> QED BY <1>1, <1>3, <1>4, <1>5, <1>6 DEF AsyncInv, SetupQuiet

\* A table is truncated at the end of the program, or is not.
LEMMA TeardownInv ==
  ASSUME AsyncInv, mainPc \in {"teardownWorkers", "teardownTasks"}, mainPc' \in {"teardownTasks", "done"},
         UNCHANGED <<scheduleAlgo, inserted, mainFinished, threadVars>>,
         Worker' \in {Worker, <<>>}, Task' \in {Task, <<>>}
  PROVE  AsyncInv'
<1>1. /\ Worker' \in Seq(WorkerRow) /\ Task' \in Seq(TaskRow) /\ mainPc' \in MainPlaces
      /\ inserted' \in 0 .. NumWorkers /\ mainFinished' \in BOOLEAN /\ mainPc \notin {"exited", "aborted"}
      /\ \A t \in Threads : pc[t] = "finished"
  <2>1. Worker' \in Seq(WorkerRow) /\ Task' \in Seq(TaskRow)
    BY InvRows, EmptySeq
  <2> QED BY <2>1 DEF AsyncInv, AsyncTypeOK, MainPlaces, Ended, RequestsCounted
<1>2. AsyncTypeOK' /\ RequestsCounted' /\ (mainPc' = "done" => schedLatsArrayIndex' = calls')
  BY <1>1, ThreadsStill
<1>3. RowsInOrder' /\ LoadBalanced'
  BY InvRows DEF AsyncInv, RowsInOrder, LoadBalanced
<1>4. OutstandingCounted' /\ EveryRequestRecorded'
  BY <1>2 DEF OutstandingCounted, EveryRequestRecorded, Alive
<1> QED BY <1>2, <1>3, <1>4 DEF AsyncInv, SetupQuiet, SettingUp

LEMMA MainInv ==
  ASSUME AsyncInv, Main
  PROVE  AsyncInv'
<1>1. CASE TruncateWorkers("truncateWorkers", "truncateTasks")
  <2>1. /\ SettingUp /\ Worker = <<>> /\ inserted = 0 /\ Worker' = <<>> /\ Task' = Task
        /\ mainPc' = "truncateTasks" /\ UNCHANGED <<scheduleAlgo, inserted, mainFinished, threadVars>>
    BY <1>1 DEF TruncateWorkers, TruncateWorkerTable, tables, SettingUp, AsyncInv, RowsInOrder
  <2>2. Worker' \in Seq(WorkerRow) /\ Task' \in Seq(TaskRow) /\ inserted' \in 0 .. NumWorkers
        /\ DOMAIN Worker' = {}
    BY <2>1, InvRows, TablesAssumption
  <2> QED BY <2>1, <2>2, SetupInv
<1>2. CASE TruncateTasks("truncateTasks", "insertWorkers")
  <2>1. /\ SettingUp /\ Worker = <<>> /\ inserted = 0 /\ Worker' = <<>> /\ Task' \in {Task, <<>>}
        /\ mainPc' = "insertWorkers" /\ UNCHANGED <<scheduleAlgo, inserted, mainFinished, threadVars>>
    BY <1>2 DEF TruncateTasks, TruncateTaskTable, tables, SettingUp, AsyncInv, RowsInOrder
  <2>2. Worker' \in Seq(WorkerRow) /\ Task' \in Seq(TaskRow) /\ inserted' \in 0 .. NumWorkers
        /\ DOMAIN Worker' = {} /\ Len(Worker') = 0
    <3>1. Worker' \in Seq(WorkerRow) /\ Task' \in Seq(TaskRow)
      BY <2>1, InvRows, EmptySeq
    <3>2. DOMAIN Worker' = {} /\ Len(Worker') = 0
      BY <2>1
    <3> QED BY <2>1, <3>1, <3>2, TablesAssumption
  <2> QED BY <2>1, <2>2, SetupInv
<1>3. CASE SetupInsert
  <2>1. /\ SettingUp /\ mainPc = "insertWorkers" /\ inserted < NumWorkers /\ inserted' = inserted + 1
        /\ InsertWorker(inserted, WorkerCapacity, PKeyOf(inserted))
        /\ mainPc' = "insertWorkers" /\ UNCHANGED <<scheduleAlgo, mainFinished, threadVars>>
    BY <1>3 DEF SetupInsert, SettingUp
  <2>2. inserted' \in 0 .. NumWorkers
    BY <2>1, TablesAssumption DEF AsyncInv, AsyncTypeOK
  <2> QED BY <2>1, <2>2, InsertedRows, InvRows, SetupInv
<1>4. CASE SetupFails
  <2>1. /\ SettingUp /\ mainPc = "insertWorkers" /\ inserted < NumWorkers /\ mainPc' = "exited"
        /\ InsertWorker(inserted, WorkerCapacity, PKeyOf(inserted)) \/ UNCHANGED tables
        /\ UNCHANGED <<scheduleAlgo, inserted, mainFinished, threadVars>>
    BY <1>4 DEF SetupFails, SettingUp
  <2>2. inserted' \in 0 .. NumWorkers
    BY <2>1 DEF AsyncInv, AsyncTypeOK
  <2>3. /\ Worker' \in Seq(WorkerRow) /\ Task' \in Seq(TaskRow)
        /\ \A i \in DOMAIN Worker' : /\ Worker'[i].WorkerID = i - 1 /\ Worker'[i].WorkerID \in Workers
                                     /\ Worker'[i].Capacity = WorkerCapacity
    <3>1. CASE InsertWorker(inserted, WorkerCapacity, PKeyOf(inserted))
      BY <2>1, <3>1, InsertedRows, InvRows
    <3>2. CASE UNCHANGED tables
      BY <2>1, <3>2, InvRows DEF tables, AsyncInv, SetupQuiet
    <3> QED BY <2>1, <3>1, <3>2
  <2> QED BY <2>1, <2>2, <2>3, SetupInv
<1>5. CASE StartThreads
  BY <1>5, StartThreadsInv
<1>6. CASE FinishRun \/ JoinThreads
  BY <1>6, EndOfRunInv
<1>7. CASE TruncateWorkers("teardownWorkers", "teardownTasks")
  BY <1>7, TeardownInv DEF TruncateWorkers, TruncateWorkerTable, tables
<1>8. CASE TruncateTasks("teardownTasks", "done")
  BY <1>8, TeardownInv DEF TruncateTasks, TruncateTaskTable, tables
<1> QED BY <1>1, <1>2, <1>3, <1>4, <1>5, <1>6, <1>7, <1>8 DEF Main
-----------------------------------------------------------------------------
LEMMA AsyncInitInv == Init => AsyncInv
<1> SUFFICES ASSUME Init PROVE AsyncInv
  OBVIOUS
<1>1. /\ Worker = <<>> /\ Task = <<>> /\ mainPc = "truncateWorkers" /\ inserted = 0
      /\ schedLatsArrayIndex = 0 /\ calls = 0
      /\ pc = [t \in Threads |-> "notStarted"]
      /\ \A t \in Threads : sent[t] = <<>> /\ replies[t] = <<>> /\ outCnt_[t] = 0
  BY DEF Init, TablesInit
<1>2. DOMAIN Worker = {} /\ \A t \in Threads : DOMAIN replies[t] = {}
  BY <1>1
<1>3. AsyncTypeOK
  <2>1. pc \in [Threads -> Places] /\ outCnt_ \in [Threads -> Int]
    BY DEF Init, Places
  <2>2. sent \in [Threads -> Seq(RequestType)] /\ replies \in [Threads -> Seq(Int)] /\ TablesTypeOK
    BY EmptySeq DEF Init, TablesInit, TablesTypeOK
  <2>3. scheduleAlgo \in Algorithms /\ mainFinished \in BOOLEAN /\ taskindex = 0
    BY Zenon DEF Init
  <2>4. inserted \in 0 .. NumWorkers
    BY <1>1, TablesAssumption
  <2>5. 0 \in Nat
    OBVIOUS
  <2> QED BY <1>1, <2>1, <2>2, <2>3, <2>4, <2>5 DEF AsyncTypeOK
<1>4. Unanswered = 0 /\ Untold(AnswerValues) = 0
  BY <1>1, SumsZero, SumsAre
<1>5. RequestsCounted
  BY <1>1, <1>2, <1>4 DEF RequestsCounted
<1> QED BY <1>1, <1>2, <1>3, <1>5 DEF AsyncInv, SetupQuiet, RowsInOrder, OutstandingCounted, Alive,
        LoadBalanced, EveryRequestRecorded

LEMMA AsyncStutterInv == AsyncInv /\ UNCHANGED vars => AsyncInv'
<1> SUFFICES ASSUME AsyncInv, UNCHANGED vars PROVE AsyncInv'
  OBVIOUS
<1>1. UNCHANGED <<Worker, Task, scheduleAlgo, mainPc, inserted, mainFinished, schedLatsArrayIndex,
                  taskindex, pc, outCnt_, sent, replies, calls>>
  BY DEF vars, tables, asyncVars, mainVars
<1> QED BY <1>1, ZenonT(60) DEF AsyncInv, AsyncTypeOK, TablesTypeOK, RequestType, ActivePartitions, SetupQuiet,
        SettingUp, RowsInOrder, RequestsCounted, Unanswered, Untold, Taken, OutstandingCounted, Alive,
        LoadBalanced, EveryRequestRecorded

\* The inductive invariant of AsyncSyntheticScheduler and CommunicationBench
\* holds in every state, for any number of threads, workers, partitions and
\* requests, and whatever order the database executes and answers them in.
THEOREM AsyncInvariant == Spec => []AsyncInv
<1>1. ASSUME AsyncInv, [Next]_vars PROVE AsyncInv'
  <2>1. CASE Main
    BY <1>1, <2>1, MainInv
  <2>2. ASSUME NEW t \in Threads, Thread(t) \/ Execute(t) \/ ExecuteFails(t) PROVE AsyncInv'
    BY <1>1, <2>2, ThreadInv, ExecuteInv
  <2>3. CASE Over \/ UNCHANGED vars
    BY <1>1, <2>3, AsyncStutterInv DEF Over
  <2> QED BY <1>1, <2>1, <2>2, <2>3 DEF Next
<1> QED BY <1>1, AsyncInitInv, PTL DEF Spec

\* Every variable of the asynchronous program, every request under way and every
\* row of the tables keeps its type.
THEOREM AsyncTypeCorrect == Spec => []AsyncTypeOK
<1>1. AsyncInv => AsyncTypeOK
  BY DEF AsyncInv
<1> QED BY <1>1, AsyncInvariant, PTL

\* outCnt_ of a SchedulerThread's callback counts exactly the requests whose
\* callback has not run (asyncSendMessage: never more than there are).
THEOREM OutstandingIsExact == Spec => []OutstandingCounted
<1>1. AsyncInv => OutstandingCounted
  BY DEF AsyncInv
<1> QED BY <1>1, AsyncInvariant, PTL

\* The capacity that the procedures took is what the callbacks have recorded or
\* are still to be told, up to the failures still to be told, and a run that ends
\* normally has recorded every request: drain loses none.
THEOREM NoRequestIsLost == Spec => []EveryRequestRecorded
<1>1. AsyncInv => EveryRequestRecorded
  BY DEF AsyncInv
<1> QED BY <1>1, AsyncInvariant, PTL

\* SelectOrderedWorker keeps the workers of a partition within one unit of each
\* other, in whatever order the requests of all the threads are executed.
THEOREM PartitionsStayLevel == Spec => []LoadBalanced
<1>1. AsyncInv => LoadBalanced
  BY DEF AsyncInv
<1> QED BY <1>1, AsyncInvariant, PTL
=============================================================================
