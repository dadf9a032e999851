---------------------------- MODULE TaskLifecycle ----------------------------
(***************************************************************************)
(* What the task schedulers promise, with no tables, threads or processes: *)
(* a task is given to one worker, and only while that worker has fewer     *)
(* than Capacity tasks to do; it starts once, on that worker; it completes *)
(* once.  The operator may clear the record of all tasks.                  *)
(***************************************************************************)
EXTENDS Integers, FiniteSets

CONSTANTS
  Workers,   \* ids of the workers
  Capacity   \* tasks a worker may have at a time

VARIABLE life  \* a set of [task, worker, stage], one per task given out

Stages == {"pending", "running", "complete"}

Busy(w) == {r \in life : r.worker = w /\ r.stage # "complete"}

Init == life = {}

\* A task nobody has goes to a worker with room for it.
Assign ==
  \E r \in life' :
    /\ r.worker \in Workers
    /\ r.stage = "pending"
    /\ \A q \in life : q.task # r.task
    /\ Cardinality(Busy(r.worker)) < Capacity
    /\ life' = life \cup {r}

\* A worker moves some of its tasks on by one stage.
Move(from, to) ==
  \E S \in SUBSET life :
    /\ S # {}
    /\ \A r \in S : r.stage = from
    /\ \A r, q \in S : r.worker = q.worker
    /\ life' = (life \ S) \cup {[r EXCEPT !.stage = to] : r \in S}

Start  == Move("pending", "running")
Finish == Move("running", "complete")

Clear == life' = {}

Next == Assign \/ Start \/ Finish \/ Clear

Spec == Init /\ [][Next]_life
=============================================================================
