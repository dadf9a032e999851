--------------------------- MODULE AsyncScheduler ---------------------------
(***************************************************************************)
(* An AsyncSyntheticScheduler process.  Its threads send requests without  *)
(* waiting for the answers; each has a VoltDB client of its own, which     *)
(* runs the callbacks of the answers that have arrived when the thread     *)
(* enters the event loop, that is, in runOnce and in drain.                *)
(*                                                                         *)
(* CommunicationBench is the same program with messages for requests: the  *)
(* algorithms "send" (one message to each partition) and "broadcast".      *)
(*                                                                         *)
(* The database may execute a request at any time after it was sent, in    *)
(* any order, and also after the process has died.                         *)
(***************************************************************************)
EXTENDS DbosTables, Totals, SequencesExt

CONSTANTS
  Threads,         \* the scheduler threads (-N)
  Algorithms,      \* the values of -A that are used
  WorkerCapacity,  \* -C
  MaxOutstanding,  \* -m
  Paced,           \* -D: requests come from a generator, not back to back
  CleanDB,         \* -x
  MaxEntries,      \* kMaxEntries, the size of the latency array
  MaxCalls         \* bound: requests sent

ASSUME AsyncAssumption ==
  /\ Algorithms \subseteq {"fifo", "fifo-local", "single-partitioned-fifo-task",
                     "send", "broadcast"}
  /\ IsFiniteSet(Threads) /\ WorkerCapacity \in Nat /\ MaxOutstanding \in Nat
  /\ MaxEntries \in Nat /\ MaxCalls \in Nat
  /\ Paced \in BOOLEAN /\ CleanDB \in BOOLEAN

VARIABLES
  scheduleAlgo,         \* -A: the scheduler whose asyncSchedule is called
  mainPc,               \* where main() is
  inserted,             \* workers setup() has inserted so far
  mainFinished,         \* the run is over: threads leave their loop
  schedLatsArrayIndex,  \* next free entry of the latency array (atomic)
  taskindex,            \* next task id (atomic)
  pc,                   \* where each thread is
  outCnt_,              \* its callback's count of outstanding requests
  sent,                 \* its requests not executed yet: [pkey, taskID]
  replies,              \* the answers its callback has not seen yet
  calls                 \* history: requests sent so far, over all threads

mainVars  == <<scheduleAlgo, mainPc, inserted, mainFinished>>
asyncVars == <<mainVars, schedLatsArrayIndex, taskindex, pc, outCnt_, sent, replies, calls>>
vars      == <<tables, asyncVars>>

Ended == {"done", "exited", "aborted"}
Alive == mainPc \in {"run", "join"}

\* What an answer is: the value the procedure returned, or a failure.
FAILED == -3

ActivePartitions == IF Partitions <= NumWorkers THEN Partitions ELSE NumWorkers

\* PartitionedFIFOScheduler, which CommunicationBench uses too, has no tasks.
HasTasks == scheduleAlgo \notin {"fifo", "send", "broadcast"}

Init ==
  /\ TablesInit
  /\ scheduleAlgo \in Algorithms
  /\ mainPc = "truncateWorkers" /\ inserted = 0 /\ mainFinished = FALSE
  /\ schedLatsArrayIndex = 0 /\ taskindex = 0
  /\ pc = [t \in Threads |-> "notStarted"]
  /\ outCnt_ = [t \in Threads |-> 0]
  /\ sent = [t \in Threads |-> <<>>]
  /\ replies = [t \in Threads |-> <<>>]
  /\ calls = 0
-----------------------------------------------------------------------------
(* main(): setup, runBenchmark, teardown.                                  *)

threadVars == <<schedLatsArrayIndex, taskindex, pc, outCnt_, sent, replies, calls>>

\* A truncation that fails is only reported.
TruncateWorkers(from, to) ==
  /\ mainPc = from
  /\ TruncateWorkerTable \/ (AllowFailures /\ UNCHANGED tables)
  /\ mainPc' = to
  /\ UNCHANGED <<scheduleAlgo, inserted, mainFinished, threadVars>>

TruncateTasks(from, to) ==
  /\ mainPc = from
  /\ \/ HasTasks /\ TruncateTaskTable
     \/ (~HasTasks \/ AllowFailures) /\ UNCHANGED tables
  /\ mainPc' = to
  /\ UNCHANGED <<scheduleAlgo, inserted, mainFinished, threadVars>>

SetupInsert ==
  /\ mainPc = "insertWorkers" /\ inserted < NumWorkers
  /\ InsertWorker(inserted, WorkerCapacity, PKeyOf(inserted))
  /\ inserted' = inserted + 1
  /\ UNCHANGED <<scheduleAlgo, mainPc, mainFinished, threadVars>>

SetupFails ==
  /\ AllowFailures
  /\ mainPc = "insertWorkers" /\ inserted < NumWorkers
  /\ InsertWorker(inserted, WorkerCapacity, PKeyOf(inserted)) \/ UNCHANGED tables
  /\ mainPc' = "exited"
  /\ UNCHANGED <<scheduleAlgo, inserted, mainFinished, threadVars>>

StartThreads ==
  /\ mainPc = "insertWorkers" /\ inserted = NumWorkers
  /\ mainPc' = "run"
  /\ pc' = [t \in Threads |-> "send"]
  /\ UNCHANGED <<tables, scheduleAlgo, inserted, mainFinished, schedLatsArrayIndex, taskindex, outCnt_,
                 sent, replies, calls>>

\* Mutation of FinishRun: the flag is left for after the threads are joined.
FinishRunLater ==
  /\ mainPc = "run"
  /\ mainPc' = "join"
  /\ UNCHANGED <<tables, scheduleAlgo, inserted, mainFinished, threadVars>>

FinishRun ==
  /\ mainPc = "run"
  /\ mainFinished' = TRUE
  /\ mainPc' = "join"
  /\ UNCHANGED <<tables, scheduleAlgo, inserted, threadVars>>

JoinThreads ==
  /\ mainPc = "join" /\ \A t \in Threads : pc[t] = "finished"
  /\ mainPc' = IF CleanDB THEN "teardownWorkers" ELSE "done"
  /\ UNCHANGED <<tables, scheduleAlgo, inserted, mainFinished, threadVars>>

Main ==
  \/ TruncateWorkers("truncateWorkers", "truncateTasks")
  \/ TruncateTasks("truncateTasks", "insertWorkers")
  \/ SetupInsert \/ SetupFails \/ StartThreads \/ FinishRun \/ JoinThreads
  \/ TruncateWorkers("teardownWorkers", "teardownTasks")
  \/ TruncateTasks("teardownTasks", "done")
-----------------------------------------------------------------------------
(* SchedulerThread.                                                        *)

Goto(t, place) == pc' = [pc EXCEPT ![t] = place]

\* After a request, the event loop is entered if there are enough of them.
AfterSend(outstanding) ==
  IF Paced \/ outstanding >= MaxOutstanding \/ outstanding > MaxOutstanding \div 2
  THEN "events" ELSE "test"

Request(p) == [pkey |-> p, taskID |-> taskindex]

\* Mutation of Requests: partitions counted from 1.
RequestsFromOne ==
  IF scheduleAlgo = "send" THEN {[i \in 1 .. Partitions |-> Request(i)]}
  ELSE {<<Request(p)>> : p \in 1 .. ActivePartitions}

\* What a turn may send: asyncSchedule and asyncBroadcastMessage one request,
\* the former for a partition chosen at random, asyncSendMessage one for each.
Requests ==
  CASE scheduleAlgo = "send" -> {[i \in 1 .. Partitions |-> Request(i - 1)]}
    [] scheduleAlgo = "broadcast" -> {<<Request(0)>>}
    [] OTHER -> {<<Request(p)>> : p \in 0 .. ActivePartitions - 1}

\* The thread does not wait, nor does anything stop it from sending more.  A
\* turn counts as one outstanding request.
AsyncSchedule(t) ==
  /\ Alive /\ pc[t] = "send" /\ calls < MaxCalls
  /\ \E requests \in Requests : /\ sent' = [sent EXCEPT ![t] = @ \o requests]
                               /\ calls' = calls + Len(requests)
  /\ taskindex' = IF HasTasks THEN taskindex + 1 ELSE taskindex
  /\ outCnt_' = [outCnt_ EXCEPT ![t] = @ + 1]
  /\ Goto(t, AfterSend(outCnt_[t] + 1))
  /\ UNCHANGED <<tables, mainVars, schedLatsArrayIndex, replies>>

\* It is not yet time for the next request (or the bound on them is reached).
NotItsTurn(t) ==
  /\ Alive /\ pc[t] = "send" /\ (Paced \/ calls >= MaxCalls)
  /\ Goto(t, "test")
  /\ UNCHANGED <<tables, mainVars, schedLatsArrayIndex, taskindex, outCnt_, sent, replies,
                 calls>>

\* runOnce returns when there is no more to do: answers may be under way.
EventsDone(t) ==
  /\ Alive /\ pc[t] = "events"
  /\ Goto(t, "test")
  /\ UNCHANGED <<tables, mainVars, schedLatsArrayIndex, taskindex, outCnt_, sent, replies,
                 calls>>

\* Mutation of LoopTest: the thread does not drain.
LoopTestNoDrain(t) ==
  /\ Alive /\ pc[t] = "test"
  /\ Goto(t, IF mainFinished THEN "finished" ELSE "send")
  /\ UNCHANGED <<tables, mainVars, schedLatsArrayIndex, taskindex, outCnt_, sent, replies,
                 calls>>

LoopTest(t) ==
  /\ Alive /\ pc[t] = "test"
  /\ Goto(t, IF mainFinished THEN "drain" ELSE "send")
  /\ UNCHANGED <<tables, mainVars, schedLatsArrayIndex, taskindex, outCnt_, sent, replies,
                 calls>>

\* drain returns false whenever a callback breaks its loop, and is called again.
Drained(t) ==
  /\ Alive /\ pc[t] = "drain" /\ sent[t] = <<>> /\ replies[t] = <<>>
  /\ Goto(t, "finished")
  /\ UNCHANGED <<tables, mainVars, schedLatsArrayIndex, taskindex, outCnt_, sent, replies,
                 calls>>
-----------------------------------------------------------------------------
(* The callback, run by thread t inside the event loop.                    *)

InEventLoop(t) == Alive /\ pc[t] \in {"events", "drain"} /\ replies[t] # <<>>

\* Mutation of Callback: the count goes down only when the loop is not broken.
CallbackCountsLess(t) ==
  /\ InEventLoop(t) /\ Head(replies[t]) >= 0 /\ schedLatsArrayIndex < MaxEntries
  /\ schedLatsArrayIndex' = schedLatsArrayIndex + 1
  /\ replies' = [replies EXCEPT ![t] = Tail(@)]
  /\ outCnt_' = [outCnt_ EXCEPT ![t] = IF @ - 1 <= MaxOutstanding \div 2 THEN @ ELSE @ - 1]
  /\ Goto(t, IF pc[t] = "events" /\ outCnt_[t] - 1 <= MaxOutstanding \div 2
             THEN "test" ELSE pc[t])
  /\ UNCHANGED <<tables, mainVars, taskindex, sent, calls>>

\* A worker was found: record the latency, count the answer, and break the
\* loop when few requests are outstanding.
Callback(t) ==
  /\ InEventLoop(t) /\ Head(replies[t]) >= 0 /\ schedLatsArrayIndex < MaxEntries
  /\ schedLatsArrayIndex' = schedLatsArrayIndex + 1
  /\ replies' = [replies EXCEPT ![t] = Tail(@)]
  /\ outCnt_' = [outCnt_ EXCEPT ![t] = @ - 1]
  /\ Goto(t, IF pc[t] = "events" /\ outCnt_[t] - 1 <= MaxOutstanding \div 2
             THEN "test" ELSE pc[t])
  /\ UNCHANGED <<tables, mainVars, taskindex, sent, calls>>

\* The process ends; what it has sent is still on its way.
Die(how) ==
  /\ mainPc' = how
  /\ pc' = [u \in Threads |-> "dead"] /\ outCnt_' = [u \in Threads |-> 0]
  /\ replies' = [u \in Threads |-> <<>>]
  /\ UNCHANGED <<tables, scheduleAlgo, inserted, mainFinished, taskindex, sent, calls>>

\* The request failed, or the array is full: exit(1).
\* The claim and the exit are one step: a thread that claims between them finds the array
\* full as well, and only exits.
CallbackExits(t) ==
  /\ InEventLoop(t)
  /\ \/ Head(replies[t]) = FAILED /\ UNCHANGED schedLatsArrayIndex
     \/ /\ Head(replies[t]) # FAILED /\ schedLatsArrayIndex >= MaxEntries
        /\ schedLatsArrayIndex' = schedLatsArrayIndex + 1
  /\ Die("exited")

\* There was no worker: the assert fails.
CallbackAsserts(t) ==
  /\ InEventLoop(t) /\ schedLatsArrayIndex < MaxEntries
  /\ Head(replies[t]) \in {-1, NOWORKER}
  /\ schedLatsArrayIndex' = schedLatsArrayIndex + 1
  /\ Die("aborted")
-----------------------------------------------------------------------------
(* The database executes a request of thread t, and answers.               *)

\* The procedure that a request invokes.  BroadcastMessage writes to a table of
\* its own; SendMessage is given one of its four parameters, and always fails.
Invoke(request, result) ==
  CASE scheduleAlgo = "fifo"       -> SelectWorker(request.pkey, result)
    [] scheduleAlgo = "fifo-local" -> SelectOrderedWorker(request.pkey, request.taskID, result)
    [] scheduleAlgo = "single-partitioned-fifo-task" ->
         SelectSinglePartitionedTaskWorker(request.pkey, request.taskID, result)
    [] scheduleAlgo = "broadcast"  -> result = SUCCESS /\ UNCHANGED tables
    [] scheduleAlgo = "send"       -> FALSE

Answer(t, i, result) ==
  /\ sent' = [sent EXCEPT ![t] = RemoveAt(@, i)]
  /\ replies' = IF mainPc \in Ended THEN replies
                ELSE [replies EXCEPT ![t] = Append(@, result)]
  /\ UNCHANGED <<mainVars, schedLatsArrayIndex, taskindex, pc, outCnt_, calls>>

\* The ids of one process differ, so the index on TaskID rejects none of them.
Execute(t) ==
  \E i \in DOMAIN sent[t], result \in Workers \cup {SUCCESS, -1, NOWORKER} :
    Invoke(sent[t][i], result) /\ Answer(t, i, result)

\* It fails, with or without having been executed.
ExecuteFails(t) ==
  /\ AllowFailures \/ scheduleAlgo = "send"
  /\ \E i \in DOMAIN sent[t] :
       /\ \/ \E result \in Workers \cup {SUCCESS, -1, NOWORKER} : Invoke(sent[t][i], result)
          \/ UNCHANGED tables
       /\ Answer(t, i, FAILED)

Thread(t) ==
  \/ AsyncSchedule(t) \/ NotItsTurn(t) \/ EventsDone(t) \/ LoopTest(t) \/ Drained(t)
  \/ Callback(t) \/ CallbackExits(t) \/ CallbackAsserts(t)

Over == mainPc \in Ended /\ UNCHANGED vars

Next ==
  \/ Main
  \/ \E t \in Threads : Thread(t) \/ Execute(t) \/ ExecuteFails(t)
  \/ Over

Spec == Init /\ [][Next]_vars

\* The program's threads run, and the database executes what it was sent.
FairSpec ==
  /\ Spec
  /\ WF_vars(Main)
  /\ \A t \in Threads : WF_vars(Thread(t)) /\ WF_vars(Execute(t) \/ ExecuteFails(t))
-----------------------------------------------------------------------------
Places == {"notStarted", "send", "events", "test", "drain", "finished", "dead"}
RequestType ==
  [pkey : 0 .. (IF scheduleAlgo = "send" THEN Partitions ELSE ActivePartitions) - 1, taskID : Nat]

\* Every variable of the program and every table row has its type.
AsyncTypeOK ==
  /\ TablesTypeOK /\ scheduleAlgo \in Algorithms
  /\ mainPc \in {"truncateWorkers", "truncateTasks", "insertWorkers", "run", "join",
                 "teardownWorkers", "teardownTasks"} \cup Ended
  /\ inserted \in 0 .. NumWorkers /\ mainFinished \in BOOLEAN
  /\ schedLatsArrayIndex \in Nat /\ taskindex \in Nat /\ calls \in Nat
  /\ pc \in [Threads -> Places]
  /\ outCnt_ \in [Threads -> Int]
  /\ sent \in [Threads -> Seq(RequestType)]
  /\ replies \in [Threads -> Seq(Int)]

\* outCnt_, on which the callback decides when to break the event loop, counts
\* exactly the requests whose callback has not run, whatever the order in which
\* the event loop was entered and broken.  (Not so for asyncSendMessage, whose
\* turn sends more than it counts: there it never counts more than there are.)
OutstandingCounted ==
  Alive => \A t \in Threads :
    LET outstanding == Len(sent[t]) + Len(replies[t]) IN
    IF scheduleAlgo = "send" THEN outCnt_[t] <= outstanding ELSE outCnt_[t] = outstanding

\* Units of capacity that have been taken, requests that have not been executed,
\* and answers of a kind that the callbacks have not seen.
Taken         == Total([i \in DOMAIN Worker |-> Worker[i].Capacity + 1 .. WorkerCapacity])
Unanswered    == Total([t \in Threads |-> DOMAIN sent[t]])
Untold(kinds) == Total([t \in Threads |-> {i \in DOMAIN replies[t] : replies[t][i] \in kinds}])

\* What scheduling takes from the workers' capacity is what the callbacks have recorded and
\* what they are still to be told, give or take the requests whose failure is
\* still to be told; and a run that ends normally has recorded every request it
\* sent: the drain at the end of a thread loses none.
EveryRequestRecorded ==
  /\ Alive /\ scheduleAlgo # "broadcast" =>
       Taken - (schedLatsArrayIndex + Untold(Workers \cup {SUCCESS})) \in 0 .. Untold({FAILED})
  /\ mainPc = "done" => schedLatsArrayIndex = calls

\* SelectOrderedWorker spreads the load: workers of one partition never differ
\* by more than one unit, also when answers get lost and threads interleave.
LoadBalanced ==
  scheduleAlgo = "fifo-local" =>
    \A i, j \in DOMAIN Worker :
      Worker[i].PKey = Worker[j].PKey => Worker[i].Capacity - Worker[j].Capacity <= 1

\* A program that has started its threads ends, although every callback may break
\* the event loop that drains the requests.
AsyncRunEnds == mainPc = "run" ~> mainPc \in Ended
-----------------------------------------------------------------------------
(* The inductive invariant of AsyncProofs, in parts.                       *)

SettingUp == mainPc \in {"truncateWorkers", "truncateTasks", "insertWorkers"}

\* The threads have not begun, and no worker has been used.
SetupQuiet ==
  SettingUp => /\ \A t \in Threads : sent[t] = <<>> /\ replies[t] = <<>> /\ outCnt_[t] = 0
               /\ \A i \in DOMAIN Worker : Worker[i].Capacity = WorkerCapacity
               /\ schedLatsArrayIndex = 0 /\ calls = 0

\* setup inserts every worker at most once, in order.
RowsInOrder ==
  /\ \A i \in DOMAIN Worker : /\ Worker[i].WorkerID = i - 1 /\ Worker[i].WorkerID \in Workers
                              /\ Worker[i].Capacity \in 0 .. WorkerCapacity
  /\ mainPc \in {"truncateWorkers", "truncateTasks"} => Worker = <<>> /\ inserted = 0
  /\ mainPc = "insertWorkers" => Len(Worker) = inserted

AnswerValues == Workers \cup {SUCCESS, -1, NOWORKER, FAILED}

\* Every request sent has been recorded, or is with the database, or its answer
\* is with the client; and a thread that has finished has none of them left.
RequestsCounted ==
  /\ \A t \in Threads : \A i \in DOMAIN replies[t] : replies[t][i] \in AnswerValues
  /\ \A t \in Threads : pc[t] = "finished" => sent[t] = <<>> /\ replies[t] = <<>>
  /\ mainPc \in {"teardownWorkers", "teardownTasks", "done"} =>
       \A t \in Threads : pc[t] = "finished"
  /\ mainPc \notin {"exited", "aborted"} =>
       calls = schedLatsArrayIndex + Unanswered + Untold(AnswerValues)

\* What every step of a SchedulerThread, its callback and the database preserves:
\* outCnt_, the recorded latencies and the capacity taken all agree with the
\* requests and answers under way.
AsyncInv ==
  /\ AsyncTypeOK /\ SetupQuiet /\ RowsInOrder /\ RequestsCounted
  /\ OutstandingCounted /\ LoadBalanced /\ EveryRequestRecorded
=============================================================================
