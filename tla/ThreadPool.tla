------------------------------- MODULE ThreadPool -------------------------------
(* The thread pool of 2_ThreadPool (threadPool.h): workers that wait on a    *)
(* condition, a caller that enqueues tasks and whose scope then ends, so     *)
(* that ~ThreadPool joins the workers. A task ends; its exception stays in   *)
(* its future.                                                               *)
EXTENDS Naturals, FiniteSets

CONSTANTS Workers,
          NumTasks     \* bound on the tasks enqueued

ASSUME WorkersAssumption == IsFiniteSet(Workers)

VARIABLES
  workers,     \* [Workers -> check, wait, task, ended]
  tasks,       \* tasks in the queue
  stop, ran,
  caller       \* [at: idle, notify, stop, notifyAll, join, done; made]

poolVars == <<workers, tasks, stop, ran, caller>>

InitPool == /\ workers = [w \in Workers |-> "check"] /\ tasks = 0 /\ stop = FALSE
            /\ ran = 0 /\ caller = [at |-> "idle", made |-> 0]

Worker(w, from, to) == workers[w] = from /\ workers' = [workers EXCEPT ![w] = to]

\* The wait with its predicate, then the end or a task, under the mutex.
TakeTask(w) ==
  /\ \/ Worker(w, "check", "wait") /\ tasks = 0 /\ ~stop /\ UNCHANGED tasks
     \/ Worker(w, "check", "ended") /\ tasks = 0 /\ stop /\ UNCHANGED tasks
     \/ Worker(w, "check", "task") /\ tasks > 0 /\ tasks' = tasks - 1
  /\ UNCHANGED <<stop, ran, caller>>

Run(w) == /\ Worker(w, "task", "check") /\ ran' = ran + 1
          /\ UNCHANGED <<tasks, stop, caller>>

enqueue == /\ caller.at = "idle" /\ caller.made < NumTasks /\ ~stop
           /\ tasks' = tasks + 1 /\ caller' = [at |-> "notify", made |-> caller.made + 1]
           /\ UNCHANGED <<workers, stop, ran>>

Waiting == {w \in Workers : workers[w] = "wait"}

\* After the mutex was released.
notify_one == /\ caller.at = "notify" /\ caller' = [caller EXCEPT !.at = "idle"]
              /\ IF Waiting = {} THEN UNCHANGED workers
                 ELSE \E w \in Waiting : workers' = [workers EXCEPT ![w] = "check"]
              /\ UNCHANGED <<tasks, stop, ran>>

\* ~ThreadPool: the flag under the mutex, notify_all, the joins.
SetStop == /\ caller.at = "idle" /\ caller' = [caller EXCEPT !.at = "notifyAll"] /\ stop' = TRUE
           /\ UNCHANGED <<workers, tasks, ran>>

\* A bug: notify_one.
notify_all_one == /\ caller.at = "notifyAll" /\ caller' = [caller EXCEPT !.at = "join"]
                  /\ IF Waiting = {} THEN UNCHANGED workers
                     ELSE \E w \in Waiting : workers' = [workers EXCEPT ![w] = "check"]
                  /\ UNCHANGED <<tasks, stop, ran>>
notify_all == /\ caller.at = "notifyAll" /\ caller' = [caller EXCEPT !.at = "join"]
              /\ workers' = [w \in Workers |-> IF w \in Waiting THEN "check" ELSE workers[w]]
              /\ UNCHANGED <<tasks, stop, ran>>

join == /\ caller.at = "join" /\ \A w \in Workers : workers[w] = "ended"
        /\ caller' = [caller EXCEPT !.at = "done"] /\ UNCHANGED <<workers, tasks, stop, ran>>
-------------------------------------------------------------------------------
WorkerStep(w) == TakeTask(w) \/ Run(w)
Caller == notify_one \/ SetStop \/ notify_all \/ join
NextPool == enqueue \/ Caller \/ \E w \in Workers : WorkerStep(w)
SpecPool == InitPool /\ [][NextPool]_poolVars
-------------------------------------------------------------------------------
(* The destructor returns, as no worker misses the notification, and when it *)
(* does every task that was enqueued has run.                                *)
PoolEnds == (caller.at = "join") ~> (caller.at = "done" /\ ran = caller.made)
===============================================================================
