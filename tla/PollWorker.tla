----------------------------- MODULE PollWorker -----------------------------
(***************************************************************************)
(* A SyntheticWorker process with workers of type MockPollWorker.  A       *)
(* worker has one dispatcher thread, which polls the database for tasks    *)
(* assigned to it and pushes them on taskQueue_; executor threads, which   *)
(* wait on cv_ for the queue to fill, execute a task and report it         *)
(* complete; and a control thread, which runs endServing.                  *)
(*                                                                         *)
(* lock_ protects the queue and stop_.  It is free in every state of this  *)
(* model but while an executor is on its way into cv_.wait: having found   *)
(* the predicate false it holds lock_ until it is asleep.  The other       *)
(* critical sections are one step each.                                    *)
(***************************************************************************)
EXTENDS DbosTables

CONSTANTS
  Executors,  \* the executor threads of a worker (-E)
  TopK        \* -K: tasks fetched by one poll

ASSUME WorkerAssumption == TopK \in Nat \ {0}

VARIABLES
  workerUp,            \* the process is running
  stopDispatch_,       \* per worker: the dispatcher is to stop
  stop_,               \* per worker: the executors are to stop
  taskQueue_,          \* per worker: tasks fetched, to be executed
  dispatchPc,          \* per worker: where its dispatcher is
  batch,               \* per worker: rows of the last poll still to be pushed
  execPc,              \* per worker and executor
  execTask,            \* per worker and executor: the task in its hands
  endPc,               \* per worker: where its control thread is in endServing
  totalTasks_,         \* tasks dispatched, over all workers
  totalFinishedTasks_  \* tasks reported complete, over all workers

workerVars == <<workerUp, stopDispatch_, stop_, taskQueue_, dispatchPc, batch,
                execPc, execTask, endPc, totalTasks_, totalFinishedTasks_>>

\* startServing has started every thread.
WorkerInit ==
  /\ workerUp = TRUE
  /\ stopDispatch_ = [w \in Workers |-> FALSE]
  /\ stop_ = [w \in Workers |-> FALSE]
  /\ taskQueue_ = [w \in Workers |-> <<>>]
  /\ dispatchPc = [w \in Workers |-> "poll"]
  /\ batch = [w \in Workers |-> {}]
  /\ execPc = [w \in Workers |-> [e \in Executors |-> "lock"]]
  /\ execTask = [w \in Workers |-> [e \in Executors |-> 0]]
  /\ endPc = [w \in Workers |-> "serving"]
  /\ totalTasks_ = 0
  /\ totalFinishedTasks_ = 0

\* lock_ of worker w is free.
Unlocked(w) == \A e \in Executors : execPc[w][e] # "goingToSleep"
-----------------------------------------------------------------------------
(* dispatch().                                                             *)

\* One poll.  The rows returned are to be pushed one after the other.
Poll(w) ==
  /\ workerUp /\ dispatchPc[w] = "poll"
  /\ \E ids \in SUBSET PendingTasks(PKeyOf(w), w) :
       /\ WorkerSelectTask(PKeyOf(w), w, TopK, ids)
       /\ batch' = [batch EXCEPT ![w] = ids]
  /\ dispatchPc' = [dispatchPc EXCEPT ![w] = "push"]
  /\ UNCHANGED <<workerUp, stopDispatch_, stop_, taskQueue_, execPc, execTask, endPc,
                 totalTasks_, totalFinishedTasks_>>

\* A failed poll is reported and skipped, also when the database has executed it.
PollFails(w) ==
  /\ AllowFailures
  /\ workerUp /\ dispatchPc[w] = "poll"
  /\ \/ \E ids \in SUBSET PendingTasks(PKeyOf(w), w) :
          WorkerSelectTask(PKeyOf(w), w, TopK, ids)
     \/ UNCHANGED tables
  /\ dispatchPc' = [dispatchPc EXCEPT ![w] = "push"]
  /\ UNCHANGED <<workerUp, stopDispatch_, stop_, taskQueue_, batch, execPc, execTask,
                 endPc, totalTasks_, totalFinishedTasks_>>

\* Mutation of Push: a row is dropped once the dispatcher is to stop.
PushUnlessStopping(w) ==
  /\ workerUp /\ dispatchPc[w] = "push" /\ Unlocked(w)
  /\ \E t \in batch[w] :
       /\ taskQueue_' = [taskQueue_ EXCEPT ![w] =
                           IF stopDispatch_[w] THEN @ ELSE Append(@, t)]
       /\ batch' = [batch EXCEPT ![w] = @ \ {t}]
  /\ dispatchPc' = [dispatchPc EXCEPT ![w] = "notify"]
  /\ UNCHANGED <<tables, workerUp, stopDispatch_, stop_, execPc, execTask, endPc,
                 totalTasks_, totalFinishedTasks_>>

\* Push one row on the queue, under lock_.
Push(w) ==
  /\ workerUp /\ dispatchPc[w] = "push" /\ Unlocked(w)
  /\ \E t \in batch[w] :
       /\ taskQueue_' = [taskQueue_ EXCEPT ![w] = Append(@, t)]
       /\ batch' = [batch EXCEPT ![w] = @ \ {t}]
  /\ dispatchPc' = [dispatchPc EXCEPT ![w] = "notify"]
  /\ UNCHANGED <<tables, workerUp, stopDispatch_, stop_, execPc, execTask, endPc,
                 totalTasks_, totalFinishedTasks_>>

\* Mutation of NotifyOne: the notification is forgotten.
NotifyNobody(w) ==
  /\ workerUp /\ dispatchPc[w] = "notify"
  /\ totalTasks_' = totalTasks_ + 1
  /\ dispatchPc' = [dispatchPc EXCEPT ![w] = "push"]
  /\ UNCHANGED <<tables, workerUp, stopDispatch_, stop_, taskQueue_, batch, execPc, execTask,
                 endPc, totalFinishedTasks_>>

\* Then, lock_ released, wake one of the executors asleep, if any, and count.
NotifyOne(w) ==
  /\ workerUp /\ dispatchPc[w] = "notify"
  /\ LET asleep == {e \in Executors : execPc[w][e] = "asleep"} IN
     \/ asleep = {} /\ UNCHANGED execPc
     \/ \E e \in asleep : execPc' = [execPc EXCEPT ![w][e] = "lock"]
  /\ totalTasks_' = totalTasks_ + 1
  /\ dispatchPc' = [dispatchPc EXCEPT ![w] = "push"]
  /\ UNCHANGED <<tables, workerUp, stopDispatch_, stop_, taskQueue_, batch, execTask,
                 endPc, totalFinishedTasks_>>

\* All rows pushed: poll again unless told to stop.
DispatchLoopTest(w) ==
  /\ workerUp /\ dispatchPc[w] = "push" /\ batch[w] = {}
  /\ dispatchPc' = [dispatchPc EXCEPT ![w] =
                      IF stopDispatch_[w] THEN "returned" ELSE "poll"]
  /\ UNCHANGED <<tables, workerUp, stopDispatch_, stop_, taskQueue_, batch, execPc,
                 execTask, endPc, totalTasks_, totalFinishedTasks_>>
-----------------------------------------------------------------------------
(* execute().                                                              *)

\* The predicate of cv_.wait.
HasWork(w) == taskQueue_[w] # <<>> \/ stop_[w]

\* With lock_ held the predicate is false: the executor will wait ...
FindNoWork(w, e) ==
  /\ workerUp /\ execPc[w][e] = "lock" /\ Unlocked(w)
  /\ ~HasWork(w)
  /\ execPc' = [execPc EXCEPT ![w][e] = "goingToSleep"]
  /\ UNCHANGED <<tables, workerUp, stopDispatch_, stop_, taskQueue_, dispatchPc, batch,
                 execTask, endPc, totalTasks_, totalFinishedTasks_>>

\* ... and gives lock_ up as it falls asleep.
FallAsleep(w, e) ==
  /\ workerUp /\ execPc[w][e] = "goingToSleep"
  /\ execPc' = [execPc EXCEPT ![w][e] = "asleep"]
  /\ UNCHANGED <<tables, workerUp, stopDispatch_, stop_, taskQueue_, dispatchPc, batch,
                 execTask, endPc, totalTasks_, totalFinishedTasks_>>

\* cv_.wait may also return from its sleep without a notification.
WakeSpuriously(w, e) ==
  /\ workerUp /\ execPc[w][e] = "asleep"
  /\ execPc' = [execPc EXCEPT ![w][e] = "lock"]
  /\ UNCHANGED <<tables, workerUp, stopDispatch_, stop_, taskQueue_, dispatchPc, batch,
                 execTask, endPc, totalTasks_, totalFinishedTasks_>>

\* There is a task: pop it and give lock_ up to execute it.
TakeTask(w, e) ==
  /\ workerUp /\ execPc[w][e] = "lock" /\ Unlocked(w)
  /\ ~stop_[w] /\ taskQueue_[w] # <<>>
  /\ execTask' = [execTask EXCEPT ![w][e] = Head(taskQueue_[w])]
  /\ taskQueue_' = [taskQueue_ EXCEPT ![w] = Tail(@)]
  /\ execPc' = [execPc EXCEPT ![w][e] = "execute"]
  /\ UNCHANGED <<tables, workerUp, stopDispatch_, stop_, dispatchPc, batch, endPc,
                 totalTasks_, totalFinishedTasks_>>

\* The task is done: record that in the database, and go back for the next.
Complete(w, e) ==
  /\ workerUp /\ execPc[w][e] = "execute"
  /\ WorkerUpdateTask(PKeyOf(w), w, execTask[w][e], COMPLETE)
  /\ execPc' = [execPc EXCEPT ![w][e] = "lock"]
  /\ totalFinishedTasks_' = totalFinishedTasks_ + 1
  /\ UNCHANGED <<workerUp, stopDispatch_, stop_, taskQueue_, dispatchPc, batch, execTask,
                 endPc, totalTasks_>>

\* Mutation of CompleteFails: the executor keeps the task and tries again.
CompleteRetries(w, e) ==
  /\ AllowFailures
  /\ workerUp /\ execPc[w][e] = "execute"
  /\ WorkerUpdateTask(PKeyOf(w), w, execTask[w][e], COMPLETE) \/ UNCHANGED tables
  /\ UNCHANGED workerVars

\* The update fails, executed or not: abort() ends the process.
CompleteFails(w, e) ==
  /\ AllowFailures
  /\ workerUp /\ execPc[w][e] = "execute"
  /\ WorkerUpdateTask(PKeyOf(w), w, execTask[w][e], COMPLETE) \/ UNCHANGED tables
  /\ workerUp' = FALSE
  /\ execPc' = [execPc EXCEPT ![w][e] = "dead"]
  /\ UNCHANGED <<stopDispatch_, stop_, taskQueue_, dispatchPc, batch, execTask, endPc,
                 totalTasks_, totalFinishedTasks_>>

\* Told to stop: leave the loop.
ExecutorReturns(w, e) ==
  /\ workerUp /\ execPc[w][e] = "lock" /\ Unlocked(w)
  /\ stop_[w]
  /\ execPc' = [execPc EXCEPT ![w][e] = "returned"]
  /\ UNCHANGED <<tables, workerUp, stopDispatch_, stop_, taskQueue_, dispatchPc, batch,
                 execTask, endPc, totalTasks_, totalFinishedTasks_>>

\* The process has died while the executor waited for an answer: the database
\* may still execute its update.
LateComplete(w, e) ==
  /\ ~workerUp /\ execPc[w][e] = "execute"
  /\ WorkerUpdateTask(PKeyOf(w), w, execTask[w][e], COMPLETE)
  /\ execPc' = [execPc EXCEPT ![w][e] = "dead"]
  /\ UNCHANGED <<workerUp, stopDispatch_, stop_, taskQueue_, dispatchPc, batch, execTask,
                 endPc, totalTasks_, totalFinishedTasks_>>

\* Likewise for a poll: the tasks it sets RUNNING are nobody's.
LatePoll(w) ==
  /\ ~workerUp /\ dispatchPc[w] = "poll"
  /\ \E ids \in SUBSET PendingTasks(PKeyOf(w), w) :
       WorkerSelectTask(PKeyOf(w), w, TopK, ids)
  /\ dispatchPc' = [dispatchPc EXCEPT ![w] = "dead"]
  /\ UNCHANGED <<workerUp, stopDispatch_, stop_, taskQueue_, batch, execPc, execTask,
                 endPc, totalTasks_, totalFinishedTasks_>>
-----------------------------------------------------------------------------
(* endServing(), run by the control thread once the run is over.           *)

Proceed(w, from, to) ==
  /\ workerUp /\ endPc[w] = from
  /\ endPc' = [endPc EXCEPT ![w] = to]

BeginEndServing(w) ==
  /\ Proceed(w, "serving", "joinDispatch")
  /\ stopDispatch_' = [stopDispatch_ EXCEPT ![w] = TRUE]
  /\ UNCHANGED <<tables, workerUp, stop_, taskQueue_, dispatchPc, batch, execPc,
                 execTask, totalTasks_, totalFinishedTasks_>>

JoinDispatcher(w) ==
  /\ Proceed(w, "joinDispatch", "drain")
  /\ dispatchPc[w] = "returned"
  /\ UNCHANGED <<tables, workerUp, stopDispatch_, stop_, taskQueue_, dispatchPc, batch,
                 execPc, execTask, totalTasks_, totalFinishedTasks_>>

\* Mutation of QueueDrained: the queue's size is not looked at.
DrainSkipped(w) ==
  /\ Proceed(w, "drain", "stop")
  /\ UNCHANGED <<tables, workerUp, stopDispatch_, stop_, taskQueue_, dispatchPc, batch,
                 execPc, execTask, totalTasks_, totalFinishedTasks_>>

\* The queue's size is read without lock_.
QueueDrained(w) ==
  /\ Proceed(w, "drain", "stop")
  /\ taskQueue_[w] = <<>>
  /\ UNCHANGED <<tables, workerUp, stopDispatch_, stop_, taskQueue_, dispatchPc, batch,
                 execPc, execTask, totalTasks_, totalFinishedTasks_>>

\* Mutation of StopExecutors: stop_ is set without lock_.
StopUnlocked(w) ==
  /\ Proceed(w, "stop", "notifyAll")
  /\ stop_' = [stop_ EXCEPT ![w] = TRUE]
  /\ UNCHANGED <<tables, workerUp, stopDispatch_, taskQueue_, dispatchPc, batch, execPc,
                 execTask, totalTasks_, totalFinishedTasks_>>

StopExecutors(w) ==
  /\ Proceed(w, "stop", "notifyAll")
  /\ Unlocked(w)
  /\ stop_' = [stop_ EXCEPT ![w] = TRUE]
  /\ UNCHANGED <<tables, workerUp, stopDispatch_, taskQueue_, dispatchPc, batch, execPc,
                 execTask, totalTasks_, totalFinishedTasks_>>

NotifyAll(w) ==
  /\ Proceed(w, "notifyAll", "joinExecutors")
  /\ execPc' = [execPc EXCEPT ![w] =
                  [e \in Executors |-> IF @[e] = "asleep" THEN "lock" ELSE @[e]]]
  /\ UNCHANGED <<tables, workerUp, stopDispatch_, stop_, taskQueue_, dispatchPc, batch,
                 execTask, totalTasks_, totalFinishedTasks_>>

JoinExecutors(w) ==
  /\ Proceed(w, "joinExecutors", "ended")
  /\ \A e \in Executors : execPc[w][e] = "returned"
  /\ UNCHANGED <<tables, workerUp, stopDispatch_, stop_, taskQueue_, dispatchPc, batch,
                 execPc, execTask, totalTasks_, totalFinishedTasks_>>

Dispatch(w) ==
  Poll(w) \/ PollFails(w) \/ Push(w) \/ NotifyOne(w) \/ DispatchLoopTest(w) \/ LatePoll(w)

Execute(w, e) ==
  \/ FindNoWork(w, e) \/ FallAsleep(w, e) \/ WakeSpuriously(w, e) \/ TakeTask(w, e)
  \/ Complete(w, e) \/ CompleteFails(w, e) \/ ExecutorReturns(w, e) \/ LateComplete(w, e)

EndServing(w) ==
  \/ BeginEndServing(w) \/ JoinDispatcher(w) \/ QueueDrained(w)
  \/ StopExecutors(w) \/ NotifyAll(w) \/ JoinExecutors(w)

WorkerNext ==
  \E w \in Workers :
    \/ Dispatch(w) \/ EndServing(w)
    \/ \E e \in Executors : Execute(w, e)

WorkersOver == ~workerUp \/ \A w \in Workers : endPc[w] = "ended"
-----------------------------------------------------------------------------
DispatchPcs == {"poll", "push", "notify", "returned", "dead"}
ExecPcs     == {"lock", "goingToSleep", "asleep", "execute", "returned", "dead"}
EndPcs      == {"serving", "joinDispatch", "drain", "stop", "notifyAll", "joinExecutors",
                "ended"}

\* Every variable of the worker program has its type.
WorkerTypeOK ==
  /\ workerUp \in BOOLEAN
  /\ stopDispatch_ \in [Workers -> BOOLEAN]
  /\ stop_ \in [Workers -> BOOLEAN]
  /\ taskQueue_ \in [Workers -> Seq(Nat)]
  /\ dispatchPc \in [Workers -> DispatchPcs]
  /\ batch \in [Workers -> SUBSET Nat]
  /\ execPc \in [Workers -> [Executors -> ExecPcs]]
  /\ execTask \in [Workers -> [Executors -> Nat]]
  /\ endPc \in [Workers -> EndPcs]
  /\ totalTasks_ \in Nat
  /\ totalFinishedTasks_ \in Nat
=============================================================================
