------------------------------ MODULE AdaptivePool ------------------------------
(* The thread pool of 6_IPV4UDP (threadpool.c): workers over a bounded queue *)
(* of tasks, a manager that every 2.5 seconds adds workers or asks some to   *)
(* retire, producers that wait while the queue is full, and a destroy that   *)
(* stops it all, called from the signal handler of a producer (server.c:105) *)
(* that never goes on afterwards. A region under a mutex is one action, but  *)
(* for the handler, which may come inside the producer's own. A task may end *)
(* or run for ever (those of this server run until the pool shuts down).     *)
(* Threads of one kind at one place are alike, so th and prod count them.    *)
EXTENDS Integers

CONSTANTS numMin, numMax,
          NUMSTEP,       \* workers added or retired at a time
          queueCapacity,
          NumProducers

ASSUME SizesAssumption ==
  /\ {numMax, NUMSTEP, queueCapacity, NumProducers} \subseteq Nat \ {0}
  /\ numMin \in 1..numMax

VARIABLES
  th,        \* threads at: none (a free slot of workerIDs), lock, wait, woken, taken, run, exit
  queueSize, numLive, numBusy, numExit,
  shut,      \* shutstatus is -1
  mgr,       \* the manager, with the locals of a round: [at, live, size, busy, left]
  prod,      \* producers at: idle, wait, woken, returned, stopped (by the handler)
  dtor,      \* threadpool_destroy: [at, sent, from], at in no, join, signal, destroy,
             \* freed; the handler came from outside the producer's call, from its
             \* sleep in it, or while it had mutexPool locked
  spent      \* a retiring worker took a wake-up of a queued task, or of destroy

counts == <<numLive, numBusy, numExit>>
vars == <<th, queueSize, counts, shut, mgr, prod, dtor, spent>>

Places == {"none", "lock", "wait", "woken", "taken", "run", "exit", "idle", "returned", "stopped"}
At(f, n) == [p \in Places |-> IF p \in DOMAIN f THEN f[p] ELSE n]
Awake == th["lock"] + th["woken"] + th["taken"] + th["run"]

Round(at, n) == [at |-> at, live |-> 0, size |-> 0, busy |-> 0, left |-> n]

\* threadpool_create: numMin workers and the manager.
Init ==
  /\ th = At([lock |-> numMin, none |-> numMax - numMin], 0)
  /\ queueSize = 0 /\ numLive = numMin /\ numBusy = 0 /\ numExit = 0 /\ shut = FALSE
  /\ mgr = Round("top", 0) /\ prod = At([idle |-> NumProducers], 0)
  /\ dtor = [at |-> "no", sent |-> 0, from |-> "outside"] /\ spent = FALSE

Min2(a, b) == IF a < b THEN a ELSE b
Moved(f, from, to) == [f EXCEPT ![from] = @ - 1, ![to] = @ + 1]
\* pthread_cond_signal: one of those that wait, if any.
Signalled(f) == IF f["wait"] = 0 THEN f ELSE Moved(f, "wait", "woken")
\* The memory of the pool is there, and a thread is at this place.
Has(f, p) == dtor.at # "freed" /\ f[p] > 0
\* mutexPool is not held for ever by the call that the handler came into.
Lockable == dtor.from # "locked"
(***************************************************************************)
(* A worker: working.                                                      *)
(***************************************************************************)
\* A worker woken while numExit is positive retires, unless the pool is at its smallest.
\* (A bug: any worker woken so retires.)
Retires_belowMin == numExit > 0
Retires == numExit > 0 /\ numLive > numMin

Retire ==
  /\ Has(th, "woken") /\ Lockable /\ Retires
  /\ th' = Moved(th, "woken", "exit") /\ numExit' = numExit - 1 /\ numLive' = numLive - 1
  /\ spent' = (spent \/ (queueSize > 0 /\ ~shut) \/ dtor.at = "signal")
  /\ UNCHANGED <<queueSize, numBusy, shut, mgr, prod, dtor>>

\* The inner loop, then the end of the pool or a task.
\* (A bug: the producers are signalled only when the queue was full.)
Loop_signalIfFull(p) ==
  /\ Has(th, p) /\ Lockable /\ ~(p = "woken" /\ Retires) /\ queueSize > 0 /\ ~shut
  /\ numExit' = IF p = "woken" /\ numExit > 0 THEN numExit - 1 ELSE numExit
  /\ th' = Moved(th, p, "taken") /\ queueSize' = queueSize - 1
  /\ prod' = IF queueSize = queueCapacity THEN Signalled(prod) ELSE prod
  /\ UNCHANGED <<numLive, numBusy, shut, mgr, dtor, spent>>

Loop(p) ==
  /\ Has(th, p) /\ Lockable /\ ~(p = "woken" /\ Retires)
  /\ numExit' = IF p = "woken" /\ numExit > 0 THEN numExit - 1 ELSE numExit
  /\ \/ /\ queueSize = 0 /\ ~shut
        /\ th' = Moved(th, p, "wait") /\ UNCHANGED <<queueSize, prod>>
     \/ /\ shut
        /\ th' = Moved(th, p, "exit") /\ UNCHANGED <<queueSize, prod>>
     \/ /\ queueSize > 0 /\ ~shut
        /\ th' = Moved(th, p, "taken") /\ queueSize' = queueSize - 1 /\ prod' = Signalled(prod)
  /\ UNCHANGED <<numLive, numBusy, shut, mgr, dtor, spent>>

\* The task begins and ends, and numBusy follows under its own mutex.
Begin == /\ Has(th, "taken") /\ th' = Moved(th, "taken", "run") /\ numBusy' = numBusy + 1
         /\ UNCHANGED <<queueSize, numLive, numExit, shut, mgr, prod, dtor, spent>>

Finish == /\ Has(th, "run") /\ th' = Moved(th, "run", "lock") /\ numBusy' = numBusy - 1
          /\ UNCHANGED <<queueSize, numLive, numExit, shut, mgr, prod, dtor, spent>>

\* The slot is cleared after the lock was given up.
threadexit_unlock == /\ Has(th, "exit") /\ th' = Moved(th, "exit", "none")
                     /\ UNCHANGED <<queueSize, counts, shut, mgr, prod, dtor, spent>>
(***************************************************************************)
(* The manager.                                                            *)
(***************************************************************************)
\* A round: look at shutstatus, sleep, read the counts under one mutex, then the other.
\* (A bug: it does not look at shutstatus.)
ManagerRead_blind ==
  /\ mgr.at \in {"top", "sleep", "busy"} /\ (mgr.at = "sleep" => Lockable)
  /\ mgr' = CASE mgr.at = "top"   -> [mgr EXCEPT !.at = "sleep"]
              [] mgr.at = "sleep" -> [mgr EXCEPT !.at = "busy", !.live = numLive, !.size = queueSize]
              [] mgr.at = "busy"  -> [mgr EXCEPT !.at = "grow", !.busy = numBusy]
  /\ UNCHANGED <<th, queueSize, counts, shut, prod, dtor, spent>>

ManagerRead ==
  /\ mgr.at \in {"top", "sleep", "busy"} /\ (mgr.at = "sleep" => Lockable)
  /\ mgr' = CASE mgr.at = "top"   -> [mgr EXCEPT !.at = IF shut THEN "exited" ELSE "sleep"]
              [] mgr.at = "sleep" -> [mgr EXCEPT !.at = "busy", !.live = numLive, !.size = queueSize]
              [] mgr.at = "busy"  -> [mgr EXCEPT !.at = "grow", !.busy = numBusy]
  /\ UNCHANGED <<th, queueSize, counts, shut, prod, dtor, spent>>

\* A bug: tasks that do not end are not thought of.
TooFew_queueOnly == mgr.live < mgr.size /\ mgr.live < numMax
TooFew == (mgr.live < mgr.size \/ mgr.busy * 10 > mgr.live * 8) /\ mgr.live < numMax
TooMany == mgr.busy * 2 < mgr.live /\ mgr.live > numMin

\* At most NUMSTEP threads, within numMax and the free slots.
ManagerGrow ==
  /\ mgr.at = "grow" /\ (TooFew => Lockable) /\ mgr' = [mgr EXCEPT !.at = "shrink"]
  /\ \E n \in 0..NUMSTEP : /\ n = IF TooFew THEN Min2(NUMSTEP, Min2(numMax - numLive, th["none"])) ELSE 0
                           /\ th' = [th EXCEPT !["none"] = @ - n, !["lock"] = @ + n]
                           /\ numLive' = numLive + n
  /\ UNCHANGED <<queueSize, numBusy, numExit, shut, prod, dtor, spent>>

\* Set numExit, then send as many signals, without the lock.
ManagerShrink ==
  /\ mgr.at = "shrink" /\ (TooMany => Lockable)
  /\ mgr' = IF TooMany THEN Round("signal", NUMSTEP) ELSE Round("top", 0)
  /\ numExit' = IF TooMany THEN NUMSTEP ELSE numExit
  /\ UNCHANGED <<th, queueSize, numLive, numBusy, shut, prod, dtor, spent>>

ManagerSignal ==
  /\ mgr.at = "signal" /\ th' = Signalled(th)
  /\ mgr' = Round(IF mgr.left = 1 THEN "top" ELSE "signal", mgr.left - 1)
  /\ UNCHANGED <<queueSize, counts, shut, prod, dtor, spent>>
(***************************************************************************)
(* Producers and destroy.                                                  *)
(***************************************************************************)
\* A bug: no worker is signalled.
threadpool_addtask_quiet(p) ==
  /\ Has(prod, p) /\ Lockable /\ ~shut /\ queueSize < queueCapacity
  /\ prod' = Moved(prod, p, "idle") /\ queueSize' = queueSize + 1 /\ spent' = FALSE
  /\ UNCHANGED <<th, counts, shut, mgr, dtor>>

threadpool_addtask(p) ==
  /\ Has(prod, p) /\ Lockable
  /\ \/ /\ queueSize = queueCapacity /\ ~shut
        /\ prod' = Moved(prod, p, "wait") /\ UNCHANGED <<th, queueSize, spent>>
     \/ /\ shut
        /\ prod' = Moved(prod, p, "returned") /\ UNCHANGED <<th, queueSize, spent>>
     \/ /\ queueSize < queueCapacity /\ ~shut
        /\ prod' = Moved(prod, p, "idle") /\ queueSize' = queueSize + 1
        /\ th' = Signalled(th) /\ spent' = FALSE
  /\ UNCHANGED <<counts, shut, mgr, dtor>>

\* The signal comes to a producer outside its call or before it has the mutex, in
\* its sleep, or with the mutex: the task then is not queued, or queued without or
\* with the signal to a worker.
DestroyFlag ==
  /\ dtor.at = "no" /\ shut' = TRUE /\ spent' = FALSE
  /\ \E from \in {"outside", "asleep", "locked"}, p \in {"idle", "wait", "woken"} :
       /\ prod[p] > 0 /\ prod' = Moved(prod, p, "stopped")
       /\ IF from = "asleep" THEN p # "idle" ELSE p # "wait"
       /\ dtor' = [dtor EXCEPT !.at = "join", !.from = from]
       /\ \/ UNCHANGED <<th, queueSize>>
          \/ /\ from = "locked" /\ queueSize < queueCapacity
             /\ queueSize' = queueSize + 1 /\ th' \in {th, Signalled(th)}
  /\ UNCHANGED <<counts, mgr>>

DestroyJoin == /\ dtor.at = "join" /\ mgr.at = "exited" /\ dtor' = [dtor EXCEPT !.at = "signal"]
               /\ UNCHANGED <<th, queueSize, counts, shut, mgr, prod, spent>>

\* One signal for each live worker.
DestroySignal ==
  /\ dtor.at = "signal"
  /\ \/ dtor.sent < numLive /\ dtor' = [dtor EXCEPT !.sent = @ + 1] /\ th' = Signalled(th)
     \/ dtor.sent >= numLive /\ dtor' = [dtor EXCEPT !.at = "destroy"] /\ UNCHANGED th
  /\ UNCHANGED <<queueSize, counts, shut, mgr, prod, spent>>

\* pthread_cond_destroy waits for those that sleep on the condition, for ever for
\* the thread that the handler stopped there; then everything is freed.
DestroyConds ==
  /\ dtor.at = "destroy" /\ th["wait"] = 0 /\ prod["wait"] = 0 /\ dtor.from # "asleep"
  /\ dtor' = [dtor EXCEPT !.at = "freed"]
  /\ UNCHANGED <<th, queueSize, counts, shut, mgr, prod, spent>>
-------------------------------------------------------------------------------
Manager == ManagerRead \/ ManagerGrow \/ ManagerShrink \/ ManagerSignal
Destroy == DestroyJoin \/ DestroySignal \/ DestroyConds
Working == Retire \/ Loop("woken")

Next == \/ Working \/ Loop("lock") \/ Begin \/ Finish \/ threadexit_unlock
        \/ Manager \/ DestroyFlag \/ Destroy
        \/ threadpool_addtask("idle") \/ threadpool_addtask("woken")

Spec == Init /\ [][Next]_vars

\* The threads run; nothing says that a task ends or that a producer calls.
FairSpec == /\ Spec /\ WF_vars(Manager) /\ WF_vars(Destroy)
            /\ WF_vars(Working) /\ WF_vars(Loop("lock")) /\ WF_vars(Begin) /\ WF_vars(threadexit_unlock)
-------------------------------------------------------------------------------
(* The numbers the manager decides by are those of the threads, through      *)
(* growing, retiring and the clearing of slots outside the lock: numLive     *)
(* counts the threads that have not left, within the limits, and numBusy     *)
(* those that run a task.                                                    *)
CountsExact ==
  /\ ~shut => numLive = Awake + th["wait"] /\ numLive \in numMin..numMax
  /\ numBusy = th["run"]

(* While a task is queued the workers do not all sleep, except when a        *)
(* retiring worker consumed the wake-up of the task (numExit left over from  *)
(* an earlier round, threadpool.c:91).                                       *)
NoStrandedTask == queueSize > 0 /\ ~shut /\ ~spent => Awake > 0

(* A producer never sleeps beside a free place: when there is room, one of   *)
(* those that waited for it is already awake.                                *)
ProducerNotForgotten ==
  prod["wait"] > 0 /\ queueSize < queueCapacity /\ ~shut => prod["woken"] > 0

(* Tasks may run for ever, so a queue behind busy workers only moves if the  *)
(* pool grows: with every worker busy and fewer than numMax, a new worker    *)
(* comes (or one gets free), whatever the manager read before.               *)
PoolGrows ==
  (queueSize > 0 /\ numLive = th["run"] /\ numLive < numMax)
    ~> (numLive # th["run"] \/ queueSize = 0 \/ shut)

(* threadpool_destroy returns: the manager sees the flag and is joined, and  *)
(* the signals leave nobody asleep on a condition to be destroyed. Three     *)
(* cases in which it never does are left out: the handler came into the      *)
(* producer's own call; another producer sleeps on a full queue; a worker    *)
(* that destroy woke retired (see AllWoken).                                 *)
DestroyReturns ==
  (dtor.at = "join")
    ~> (dtor.at = "freed" \/ dtor.from # "outside" \/ prod["wait"] > 0 \/ spent)

(* "Wake all live threads so that they end themselves" (threadpool.c:314):   *)
(* when destroy has sent its signals, no worker sleeps. The code breaks it    *)
(* (README, 5).                                                              *)
AllWoken == dtor.at \in {"destroy", "freed"} => th["wait"] = 0

(* The handler cleans up and exits (server.c:104), also with one producer,   *)
(* the main thread of this server, and the signal inside its call. (Asleep   *)
(* there it is on a condition that destroy destroys, which is another case.) *)
(* The code breaks it (README, 5).                                           *)
DaemonExits ==
  (dtor.at = "join" /\ dtor.from # "asleep") ~> (dtor.at = "freed" \/ spent)
===============================================================================
