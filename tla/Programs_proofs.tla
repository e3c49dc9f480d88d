---------------------------- MODULE Programs_proofs ----------------------------
(***************************************************************************)
(* Proofs about the small threaded programs, for any number of threads,    *)
(* connections and packets: EventLoopThread starts live loops and outlives *)
(* its threads, the log loses no line, the semaphore of the connection     *)
(* pool counts its queue, the thread pool runs every task, the transcoder  *)
(* loses no packet on its way to the file; and in each of them whoever     *)
(* waits, waits for somebody who can still come.                           *)
(***************************************************************************)
EXTENDS EventLoopThread, Log, SqlConnPool, ThreadPool, Pipeline, FiniteSetTheorems, TLAPS

(* EventLoopThread.                                                          *)

Starting == main \in {"starting", "semWait", "checking", "waiting"}
Ending == main \in {"destroying", "quitting", "waking", "joining", "gone"}

\* The main thread has been handed the thread's loop.
HandedOver(t) == Starting => t < cur

\* The destructor has called quit() on the thread's loop, or is past it.
QuitByPool(t) ==
  /\ Ending
  /\ t < cur \/ main = "gone" \/ (t = cur /\ main \in {"waking", "joining"})

\* Threads are created in turn.
TurnOK ==
  \A t \in Threads :
    Starting /\ (t > cur \/ (t = cur /\ main = "starting")) => thr[t] = "none"

HandedOK ==
  \A t \in Threads :
    HandedOver(t) => thr[t] \notin {"none", "created", "construct", "ready"}

\* A loop that was not quit by its own callbacks is quit, and ends, only at the
\* hands of the destructor.
QuitOK ==
  \A t \in Threads \ selfQuit :
    quit[t] \/ thr[t] \in {"left", "reset", "unlocked", "exited"} => QuitByPool(t)

DestroyedOK ==
  \A t \in destroyed :
    /\ Ending /\ (t < cur \/ main = "gone")
    /\ t \notin selfQuit => thr[t] = "exited"

\* The destructor finds loop_ set, and joins, because HandedOK and QuitOK leave
\* the thread nowhere else to be; DestroyedOK keeps it there afterwards.
IInv == TypeOK /\ TurnOK /\ HandedOK /\ QuitOK /\ DestroyedOK

LEMMA InitInv == Init => IInv
  BY NumThreadsAssumption
  DEF Init, IInv, TypeOK, MainPcs, ThreadPcs, Threads, TurnOK, HandedOK, QuitOK,
      DestroyedOK, Starting, HandedOver

\* The main thread starting the pool.
LEMMA StartingInv ==
  ASSUME IInv, StartThread \/ SemWait \/ CheckLoop \/ SpuriousWakeup
  PROVE  IInv'
  <1> USE NumThreadsAssumption DEF Starting, Ending, HandedOver, QuitByPool
  <1>1. CASE StartThread
    <2>1. thr[cur] = "none" /\ ~loop[cur]
      BY <1>1 DEF StartThread, IInv, TypeOK, TurnOK
    <2>2. TypeOK'
      BY <1>1, <2>1
      DEF StartThread, Goes, loopVars, history, IInv, TypeOK, MainPcs, ThreadPcs, Threads
    <2>3. (TurnOK /\ HandedOK /\ QuitOK /\ DestroyedOK)'
      BY <1>1, <2>1
      DEF StartThread, Goes, loopVars, history, IInv, TypeOK, Threads,
          TurnOK, HandedOK, QuitOK, DestroyedOK
    <2>4. QED
      BY <2>2, <2>3 DEF IInv
  <1>2. CASE SemWait
    <2>1. TypeOK'
      BY <1>2 DEF SemWait, loopVars, history, IInv, TypeOK, MainPcs, ThreadPcs
    <2>2. (TurnOK /\ HandedOK /\ QuitOK /\ DestroyedOK)'
      BY <1>2
      DEF SemWait, loopVars, history, IInv, TypeOK, Threads,
          TurnOK, HandedOK, QuitOK, DestroyedOK
    <2>3. QED
      BY <2>1, <2>2 DEF IInv
  <1>3. CASE CheckLoop
    <2>1. CASE loop[cur] /\ Started
      <3>1. thr[cur] \in {"published", "check", "polling", "round", "left"}
        BY <2>1 DEF IInv, TypeOK
      <3>2. TypeOK'
        BY <1>3, <2>1
        DEF CheckLoop, Started, loopVars, history, IInv, TypeOK, MainPcs, ThreadPcs,
            Threads
      <3>3. TurnOK'
        BY <1>3, <2>1
        DEF CheckLoop, Started, loopVars, history, IInv, TypeOK, Threads, TurnOK
      <3>4. HandedOK'
        BY <1>3, <2>1, <3>1
        DEF CheckLoop, Started, loopVars, history, IInv, TypeOK, Threads, HandedOK
      <3>5. (QuitOK /\ DestroyedOK)'
        BY <1>3, <2>1
        DEF CheckLoop, Started, loopVars, history, IInv, QuitOK, DestroyedOK
      <3>6. QED
        BY <3>2, <3>3, <3>4, <3>5 DEF IInv
    <2>2. CASE ~loop[cur] /\ main' = "waiting" /\ UNCHANGED cur
      <3>1. TypeOK'
        BY <1>3, <2>2
        DEF CheckLoop, loopVars, history, IInv, TypeOK, MainPcs, ThreadPcs
      <3>2. (TurnOK /\ HandedOK /\ QuitOK /\ DestroyedOK)'
        BY <1>3, <2>2
        DEF CheckLoop, loopVars, history, IInv, TurnOK, HandedOK, QuitOK, DestroyedOK
      <3>3. QED
        BY <3>1, <3>2 DEF IInv
    <2>3. QED
      BY <1>3, <2>1, <2>2 DEF CheckLoop
  <1>4. CASE SpuriousWakeup
    <2>1. TypeOK'
      BY <1>4 DEF SpuriousWakeup, loopVars, history, IInv, TypeOK, MainPcs, ThreadPcs
    <2>2. (TurnOK /\ HandedOK /\ QuitOK /\ DestroyedOK)'
      BY <1>4
      DEF SpuriousWakeup, loopVars, history, IInv, TurnOK, HandedOK, QuitOK, DestroyedOK
    <2>3. QED
      BY <2>1, <2>2 DEF IInv
  <1>5. QED
    BY <1>1, <1>2, <1>3, <1>4

\* The end of an EventLoopThread's destructor, however it was reached.
LEMMA DestroyedInv ==
  ASSUME IInv, Destroyed, main \in {"destroying", "joining"},
         UNCHANGED <<thr, loop, quit, wake, selfQuit, early>>,
         cur \notin selfQuit => thr[cur] = "exited"
  PROVE  IInv'
  <1> USE NumThreadsAssumption DEF Starting, Ending, HandedOver, QuitByPool
  <1>1. TypeOK'
    BY DEF Destroyed, IInv, TypeOK, MainPcs, ThreadPcs, Threads
  <1>2. (TurnOK /\ HandedOK)'
    BY DEF Destroyed, IInv, TypeOK, Threads, TurnOK, HandedOK
  <1>3. QuitOK'
    BY DEF Destroyed, IInv, TypeOK, Threads, QuitOK
  <1>4. DestroyedOK'
    BY DEF Destroyed, IInv, TypeOK, Threads, DestroyedOK
  <1>5. QED
    BY <1>1, <1>2, <1>3, <1>4 DEF IInv

\* A loop the destructor has not come to is still running, if it did not quit
\* itself.
LEMMA NotYetQuit ==
  ASSUME IInv, main = "destroying", cur \notin selfQuit
  PROVE  loop[cur]
  BY DEF IInv, TypeOK, ThreadPcs, Threads, HandedOK, QuitOK, Starting, Ending,
         HandedOver, QuitByPool

\* The main thread destroying the pool.
LEMMA EndingInv ==
  ASSUME IInv, DestroyPool \/ ReadLoop \/ QuitLoop \/ WakeupLoop \/ Join
  PROVE  IInv'
  <1> USE NumThreadsAssumption DEF Starting, Ending, HandedOver, QuitByPool
  <1>1. CASE DestroyPool
    <2>1. TypeOK'
      BY <1>1 DEF DestroyPool, loopVars, history, IInv, TypeOK, MainPcs, ThreadPcs
    <2>2. (TurnOK /\ HandedOK /\ QuitOK /\ DestroyedOK)'
      BY <1>1
      DEF DestroyPool, loopVars, history, IInv, TurnOK, HandedOK, QuitOK, DestroyedOK
    <2>3. QED
      BY <2>1, <2>2 DEF IInv
  <1>2. CASE ReadLoop
    <2>1. CASE ~loop[cur] /\ Destroyed
      BY <1>2, <2>1, NotYetQuit, DestroyedInv DEF ReadLoop, loopVars, history
    <2>2. CASE loop[cur] /\ main' = "quitting" /\ UNCHANGED <<cur, destroyed>>
      <3>1. TypeOK'
        BY <1>2, <2>2
        DEF ReadLoop, loopVars, history, IInv, TypeOK, MainPcs, ThreadPcs
      <3>2. (TurnOK /\ HandedOK /\ QuitOK /\ DestroyedOK)'
        BY <1>2, <2>2
        DEF ReadLoop, loopVars, history, IInv, TurnOK, HandedOK, QuitOK, DestroyedOK
      <3>3. QED
        BY <3>1, <3>2 DEF IInv
    <2>3. QED
      BY <1>2, <2>1, <2>2 DEF ReadLoop
  <1>3. CASE QuitLoop
    <2>1. TypeOK'
      BY <1>3, Zenon
      DEF QuitLoop, LoopAlive, history, IInv, TypeOK, MainPcs, ThreadPcs
    <2>2. (TurnOK /\ HandedOK /\ QuitOK /\ DestroyedOK)'
      BY <1>3
      DEF QuitLoop, LoopAlive, IInv, TypeOK, TurnOK, HandedOK, QuitOK, DestroyedOK
    <2>3. QED
      BY <2>1, <2>2 DEF IInv
  <1>4. CASE WakeupLoop
    <2>1. TypeOK'
      BY <1>4 DEF WakeupLoop, LoopAlive, history, IInv, TypeOK, MainPcs, ThreadPcs
    <2>2. (TurnOK /\ HandedOK /\ QuitOK /\ DestroyedOK)'
      BY <1>4
      DEF WakeupLoop, history, IInv, TurnOK, HandedOK, QuitOK, DestroyedOK
    <2>3. QED
      BY <2>1, <2>2 DEF IInv
  <1>5. CASE Join
    BY <1>5, DestroyedInv DEF Join, loopVars, history
  <1>6. QED
    BY <1>1, <1>2, <1>3, <1>4, <1>5

\* A step of a pool thread that only moves it on, to a place that agrees with
\* loop_ and quit_.
LEMMA ThreadMoves ==
  ASSUME IInv, NEW t \in Threads, NEW pc \in ThreadPcs, NEW from \in ThreadPcs,
         thr[t] = from, from \notin {"none", "exited"}, pc \notin {"none", "created"},
         Goes(t, pc), UNCHANGED <<cur, destroyed, selfQuit, early>>,
         loop' \in [Threads -> BOOLEAN],
         loop'[t] <=> pc \in {"published", "check", "polling", "round", "left"},
         \A u \in Threads \ {t} : loop'[u] = loop[u],
         \/ UNCHANGED main
         \/ main = "waiting" /\ main' = "checking",
         quit' \in [Threads -> BOOLEAN], wake' \in [Threads -> BOOLEAN],
         \A u \in Threads : quit'[u] => quit[u],
         pc \in {"construct", "ready"} => from \in {"created", "construct", "ready"},
         pc \in {"left", "reset", "unlocked", "exited"} =>
           quit[t] \/ from \in {"left", "reset", "unlocked"}
  PROVE  IInv'
  <1> USE DEF Starting, Ending, HandedOver, QuitByPool
  <1>1. thr' = [thr EXCEPT ![t] = pc]
    BY DEF Goes
  <1>2. TypeOK'
    BY <1>1 DEF IInv, TypeOK, MainPcs
  <1>3. TurnOK'
    BY <1>1 DEF IInv, TypeOK, TurnOK
  <1>4. HandedOK'
    BY <1>1 DEF IInv, TypeOK, HandedOK
  <1>5. QuitOK'
    BY <1>1 DEF IInv, TypeOK, QuitOK
  <1>6. DestroyedOK'
    BY <1>1 DEF IInv, TypeOK, DestroyedOK
  <1>7. QED
    BY <1>2, <1>3, <1>4, <1>5, <1>6 DEF IInv

\* Steps of a pool thread.
LEMMA ThreadInv ==
  ASSUME IInv, NEW t \in Threads, ThreadStep(t) \/ PollReturns(t) \/ SelfQuit(t)
  PROVE  IInv'
  <1>1. /\ thr \in [Threads -> ThreadPcs] /\ loop \in [Threads -> BOOLEAN]
        /\ quit \in [Threads -> BOOLEAN] /\ wake \in [Threads -> BOOLEAN]
        /\ loop[t] <=> thr[t] \in {"published", "check", "polling", "round", "left"}
    BY DEF IInv, TypeOK
  <1>2. CASE PostSem(t)
    BY <1>1, <1>2, ThreadMoves DEF PostSem, loopVars, history, ThreadPcs
  <1>3. CASE RunInitCallback(t)
    BY <1>1, <1>3, ThreadMoves DEF RunInitCallback, loopVars, history, ThreadPcs
  <1>4. CASE Publish(t)
    BY <1>1, <1>4, ThreadMoves DEF Publish, loopVars, history, ThreadPcs
  <1>5. CASE EnterLoop(t)
    BY <1>1, <1>5, ThreadMoves DEF EnterLoop, history, ThreadPcs
  <1>6. CASE CheckQuit(t)
    BY <1>1, <1>6, ThreadMoves DEF CheckQuit, loopVars, history, ThreadPcs
  <1>7. CASE PollWoken(t)
    BY <1>1, <1>7, ThreadMoves DEF PollWoken, history, ThreadPcs
  <1>8. CASE PollReturns(t)
    BY <1>1, <1>8, ThreadMoves DEF PollReturns, loopVars, history, ThreadPcs
  <1>9. CASE EndRound(t)
    BY <1>1, <1>9, ThreadMoves DEF EndRound, loopVars, history, ThreadPcs
  <1>10. CASE ResetLoop(t)
    BY <1>1, <1>10, ThreadMoves DEF ResetLoop, loopVars, history, ThreadPcs
  <1>11. CASE Unlock(t)
    BY <1>1, <1>11, ThreadMoves DEF Unlock, loopVars, history, ThreadPcs
  <1>12. CASE DestroyLoop(t)
    BY <1>1, <1>12, ThreadMoves DEF DestroyLoop, loopVars, history, ThreadPcs
  <1>13. CASE SelfQuit(t)
    <2>1. TypeOK'
      BY <1>13 DEF SelfQuit, IInv, TypeOK
    <2>2. (TurnOK /\ HandedOK /\ QuitOK /\ DestroyedOK)'
      BY <1>13
      DEF SelfQuit, IInv, TypeOK, TurnOK, HandedOK, QuitOK, DestroyedOK,
          Starting, Ending, HandedOver, QuitByPool
    <2>3. QED
      BY <2>1, <2>2 DEF IInv
  <1>14. QED
    BY <1>2, <1>3, <1>4, <1>5, <1>6, <1>7, <1>8, <1>9, <1>10, <1>11, <1>12, <1>13
    DEF ThreadStep

LEMMA NextInv == IInv /\ [Next]_vars => IInv'
  <1> SUFFICES ASSUME IInv, [Next]_vars
               PROVE  IInv'
    OBVIOUS
  <1>1. CASE MainStep \/ SpuriousWakeup \/ DestroyPool
    BY <1>1, StartingInv, EndingInv DEF MainStep
  <1>2. CASE \E t \in Threads : ThreadStep(t) \/ PollReturns(t) \/ SelfQuit(t)
    BY <1>2, ThreadInv
  <1>3. CASE UNCHANGED vars
    BY <1>3
    DEF vars, loopVars, history, IInv, TypeOK, TurnOK, HandedOK, QuitOK, DestroyedOK,
        Starting, Ending, HandedOver, QuitByPool
  <1>4. QED
    BY <1>1, <1>2, <1>3 DEF Next

LEMMA AlwaysIInv == Spec => []IInv
  BY InitInv, NextInv, PTL DEF Spec

\* Types hold for any number of threads, and loop_ is set exactly from the
\* publication of the loop to the end of threadFunc.
THEOREM TypeCorrect == Spec => []TypeOK
  <1>1. IInv => TypeOK
    BY DEF IInv
  <1>2. QED
    BY AlwaysIInv, <1>1, PTL

\* For any number of threads, the loops start() has collected exist and have had
\* their initial callback, unless they quit themselves (startLoop).
THEOREM StartedLoopsAreLive == Spec => []StartedLoopsLive
  <1>1. IInv => StartedLoopsLive
    BY DEF IInv, TypeOK, ThreadPcs, Threads, HandedOK, QuitOK, StartedLoopsLive,
           Starting, Ending, HandedOver, QuitByPool
  <1>2. QED
    BY AlwaysIInv, <1>1, PTL

\* For any number of threads, no thread uses its EventLoopThread after that was
\* destroyed, unless its loop quit itself (~EventLoopThread, threadFunc).
THEOREM ObjectsOutliveThreads == Spec => []DestroyedAfterExit
  <1>1. IInv => DestroyedAfterExit
    BY DEF IInv, DestroyedOK, DestroyedAfterExit
  <1>2. QED
    BY AlwaysIInv, <1>1, PTL

\* The loop has been told to quit, and nothing is left that makes it forget.
Told(t) ==
  \/ thr[t] \in {"left", "reset", "unlocked", "exited"}
  \/ quit[t] /\ thr[t] \in {"check", "polling", "round"}

\* What the main thread waits for is on its way.
WaitOK ==
  /\ main = "semWait" => thr[cur] # "none"
  /\ main \in {"checking", "waiting"} => thr[cur] \notin {"none", "created"}
  /\ main = "waiting" => ~loop[cur]
JoinOK ==
  main \in {"waking", "joining"} /\ cur \notin early =>
    Told(cur) /\ (main = "joining" /\ thr[cur] = "polling" => wake[cur])

LEMMA MainWaits ==
  ASSUME IInv, WaitOK, JoinOK, MainStep \/ SpuriousWakeup \/ DestroyPool
  PROVE  WaitOK' /\ JoinOK'
  <1>1. /\ TypeOK /\ HandedOK /\ cur \in Threads /\ thr[cur] \in ThreadPcs
        /\ thr \in [Threads -> ThreadPcs] /\ quit \in [Threads -> BOOLEAN]
        /\ wake \in [Threads -> BOOLEAN]
        /\ loop[cur] <=> thr[cur] \in {"published", "check", "polling", "round", "left"}
    BY DEF IInv, TypeOK
  <1>2. CASE StartThread
    BY <1>1, <1>2 DEF StartThread, Goes, WaitOK, JoinOK
  <1>3. CASE SemWait
    BY <1>1, <1>3 DEF SemWait, WaitOK, JoinOK
  <1>4. CASE CheckLoop \/ SpuriousWakeup
    <2>1. /\ UNCHANGED <<thr, loop>>
          /\ \/ main' \in {"starting", "running"}
             \/ main' = "waiting" /\ main = "checking" /\ ~loop[cur] /\ cur' = cur
             \/ main' = "checking" /\ main = "waiting" /\ cur' = cur
      BY <1>4 DEF CheckLoop, Started, SpuriousWakeup
    <2>2. QED
      BY <2>1 DEF WaitOK, JoinOK
  <1>5. CASE DestroyPool \/ ReadLoop \/ Join
    <2>1. main' \in {"destroying", "quitting", "gone"}
      BY <1>5 DEF DestroyPool, ReadLoop, Join, Destroyed
    <2>2. QED
      BY <2>1 DEF WaitOK, JoinOK
  <1>6. CASE QuitLoop
    <2>1. /\ main = "quitting" /\ main' = "waking" /\ UNCHANGED <<cur, thr>>
          /\ quit' = [quit EXCEPT ![cur] = @ \/ LoopAlive(cur)]
          /\ early' = IF thr[cur] = "published" THEN early \cup {cur} ELSE early
      BY <1>6 DEF QuitLoop
    <2>2. thr[cur] \notin {"none", "created", "construct", "ready"}
      BY <1>1, <2>1 DEF HandedOK, HandedOver, Starting
    <2>3. thr[cur] # "exited" => quit'[cur]
      BY <1>1, <2>1, <2>2 DEF LoopAlive
    <2>4. cur' \notin early' => Told(cur)'
      BY <1>1, <2>1, <2>2, <2>3 DEF Told, ThreadPcs
    <2>5. QED
      BY <2>1, <2>4 DEF WaitOK, JoinOK
  <1>7. CASE WakeupLoop
    <2>1. /\ main = "waking" /\ main' = "joining" /\ UNCHANGED <<cur, thr, quit, early>>
          /\ wake' = [wake EXCEPT ![cur] = @ \/ LoopAlive(cur)]
      BY <1>7 DEF WakeupLoop, loopVars, history
    <2>2. thr[cur] = "polling" => wake'[cur]
      BY <1>1, <2>1 DEF LoopAlive
    <2>3. QED
      BY <2>1, <2>2 DEF WaitOK, JoinOK, Told
  <1>8. QED
    BY <1>2, <1>3, <1>4, <1>5, <1>6, <1>7 DEF MainStep

LEMMA ThreadWaits ==
  ASSUME IInv, WaitOK, JoinOK, NEW t \in Threads, ThreadStep(t) \/ PollReturns(t) \/ SelfQuit(t)
  PROVE  WaitOK' /\ JoinOK'
  <1>1. /\ cur \in Threads /\ cur' = cur /\ early' = early
        /\ thr \in [Threads -> ThreadPcs] /\ quit \in [Threads -> BOOLEAN]
        /\ wake \in [Threads -> BOOLEAN] /\ loop \in [Threads -> BOOLEAN]
        /\ main' = main \/ (main = "waiting" /\ main' = "checking")
    BY DEF IInv, TypeOK, ThreadStep, PostSem, RunInitCallback, Publish, EnterLoop, CheckQuit,
           PollWoken, EndRound, ResetLoop, Unlock, DestroyLoop, PollReturns, SelfQuit, history
  <1>2. /\ \E pc \in ThreadPcs : thr' = [thr EXCEPT ![t] = pc]
        /\ \E b \in BOOLEAN : loop' = [loop EXCEPT ![t] = b]
        /\ \E b \in BOOLEAN : quit' = [quit EXCEPT ![t] = b]
        /\ \E b \in BOOLEAN : wake' = [wake EXCEPT ![t] = b]
    <2>1. \E pc \in ThreadPcs : thr' = [thr EXCEPT ![t] = pc]
      BY <1>1 DEF ThreadStep, PostSem, RunInitCallback, Publish, EnterLoop, CheckQuit, PollWoken,
             EndRound, ResetLoop, Unlock, DestroyLoop, PollReturns, SelfQuit, Goes, ThreadPcs
    <2>2. /\ loop' \in {loop, [loop EXCEPT ![t] = TRUE], [loop EXCEPT ![t] = FALSE]}
          /\ quit' \in {quit, [quit EXCEPT ![t] = TRUE], [quit EXCEPT ![t] = FALSE]}
          /\ wake' \in {wake, [wake EXCEPT ![t] = FALSE]}
      BY DEF ThreadStep, PostSem, RunInitCallback, Publish, EnterLoop, CheckQuit, PollWoken,
             EndRound, ResetLoop, Unlock, DestroyLoop, PollReturns, SelfQuit, loopVars
    <2>3. /\ loop = [loop EXCEPT ![t] = loop[t]] /\ quit = [quit EXCEPT ![t] = quit[t]]
          /\ wake = [wake EXCEPT ![t] = wake[t]]
      BY <1>1
    <2>4. loop[t] \in BOOLEAN /\ quit[t] \in BOOLEAN /\ wake[t] \in BOOLEAN
      BY <1>1
    <2>5. QED
      BY <2>1, <2>2, <2>3, <2>4
  <1>3. CASE t # cur
    <2>1. /\ thr'[cur] = thr[cur] /\ loop'[cur] = loop[cur] /\ quit'[cur] = quit[cur]
          /\ wake'[cur] = wake[cur]
      BY <1>1, <1>2, <1>3
    <2>2. WaitOK'
      BY <1>1, <2>1 DEF WaitOK
    <2>3. JoinOK'
      BY <1>1, <2>1 DEF JoinOK, Told
    <2>4. QED
      BY <2>2, <2>3
  <1>4. CASE t = cur
    <2>1. CASE PostSem(t) \/ RunInitCallback(t) \/ Publish(t)
      <3>1. /\ thr[cur] \in {"created", "construct", "ready"}
            /\ thr'[cur] \in {"construct", "ready", "published"}
            /\ main' = "waiting" => main = "waiting" /\ loop' = loop
        BY <1>1, <1>4, <2>1 DEF PostSem, RunInitCallback, Publish, Goes
      <3>2. main' = main \/ main' = "checking"
        BY <1>1
      <3>3. WaitOK'
        BY <1>1, <3>1, <3>2 DEF WaitOK
      <3>4. JoinOK'
        BY <1>1, <3>1, <3>2 DEF JoinOK, Told
      <3>5. QED
        BY <3>3, <3>4
    <2>2. CASE EnterLoop(t)
      <3>1. thr[cur] = "published" /\ thr'[cur] = "check" /\ UNCHANGED <<main, loop>>
        BY <1>1, <1>4, <2>2 DEF EnterLoop, Goes
      <3>2. QED
        BY <1>1, <3>1 DEF WaitOK, JoinOK, Told
    <2>3. CASE CheckQuit(t) \/ PollWoken(t) \/ PollReturns(t) \/ EndRound(t) \/ SelfQuit(t)
      <3>1. /\ UNCHANGED <<main, loop>> /\ thr'[cur] \in {"left", "check", "polling", "round"}
            /\ thr[cur] \in {"check", "polling", "round"} /\ (quit[cur] => quit'[cur])
            /\ quit[cur] => thr'[cur] # "polling"
        BY <1>1, <1>4, <2>3
        DEF CheckQuit, PollWoken, PollReturns, EndRound, SelfQuit, Goes, loopVars
      <3>2. QED
        BY <1>1, <3>1 DEF WaitOK, JoinOK, Told
    <2>4. CASE ResetLoop(t) \/ Unlock(t) \/ DestroyLoop(t)
      <3>1. /\ main' = main /\ thr'[cur] \in {"reset", "unlocked", "exited"}
            /\ thr[cur] \in {"left", "reset", "unlocked"} /\ (loop'[cur] => loop[cur])
        BY <1>1, <1>4, <2>4 DEF ResetLoop, Unlock, DestroyLoop, Goes, loopVars
      <3>2. QED
        BY <1>1, <3>1 DEF WaitOK, JoinOK, Told
    <2>5. QED
      BY <2>1, <2>2, <2>3, <2>4 DEF ThreadStep
  <1>5. QED
    BY <1>3, <1>4

\* The main thread waits on cond_ only while the thread has yet to set loop_ and to
\* notify, and joins only threads that will leave their loop without any timeout.
Answered ==
  /\ main = "waiting" => thr[cur] \in {"construct", "ready"} \/ cur \in selfQuit
  /\ main = "joining" /\ cur \notin early =>
       Told(cur) /\ (thr[cur] = "polling" => wake[cur])

\* For any number of threads, startLoop misses no notification and the destructor
\* joins no thread whose loop sleeps on or forgets quit(), but for loops that quit
\* themselves and those quit before they enter loop() (startLoop, quit, loop).
THEOREM EveryWaitIsAnswered == Spec => []Answered
  <1>1. Init => WaitOK /\ JoinOK
    BY DEF Init, WaitOK, JoinOK
  <1>2. IInv /\ WaitOK /\ JoinOK /\ [Next]_vars => WaitOK' /\ JoinOK'
    <2>1. UNCHANGED vars /\ WaitOK /\ JoinOK => WaitOK' /\ JoinOK'
      BY DEF vars, loopVars, history, WaitOK, JoinOK, Told
    <2>2. QED
      BY <2>1, MainWaits, ThreadWaits DEF Next
  <1>3. IInv /\ WaitOK /\ JoinOK => Answered
    <2> SUFFICES ASSUME IInv, WaitOK, JoinOK PROVE Answered
      OBVIOUS
    <2>1. /\ cur \in Threads /\ thr[cur] \in ThreadPcs
          /\ loop[cur] <=> thr[cur] \in {"published", "check", "polling", "round", "left"}
      BY DEF IInv, TypeOK
    <2>2. main = "waiting" /\ cur \notin selfQuit => thr[cur] \notin {"left", "reset", "unlocked", "exited"}
      BY <2>1 DEF IInv, QuitOK, QuitByPool, Ending
    <2>3. QED
      BY <2>1, <2>2 DEF ThreadPcs, WaitOK, JoinOK, Answered
  <1>4. QED
    BY <1>1, <1>2, <1>3, AlwaysIInv, PTL DEF Spec

-------------------------------------------------------------------------------
(* Queues, as sequences.                                                     *)

Injective(q) == \A i, j \in 1..Len(q) : q[i] = q[j] => i = j

Items(q) == {q[i] : i \in DOMAIN q}

\* The items of a queue after an append and after a removal.
LEMMA ItemsAppend ==
  ASSUME NEW S, NEW q \in Seq(S), NEW x \in S
  PROVE  /\ Append(q, x) \in Seq(S) /\ Len(Append(q, x)) = Len(q) + 1
         /\ Items(Append(q, x)) = Items(q) \cup {x}
         /\ Injective(q) /\ x \notin Items(q) => Injective(Append(q, x))
  <1> USE DEF Items
  <1> DEFINE r == Append(q, x)
  <1>1. /\ r \in Seq(S) /\ Len(r) = Len(q) + 1 /\ Len(q) \in Nat
        /\ DOMAIN q = 1..Len(q) /\ DOMAIN r = 1..(Len(q) + 1)
        /\ \A i \in 1..Len(q) : r[i] = q[i]
        /\ r[Len(q) + 1] = x
    OBVIOUS
  <1>2. {r[i] : i \in DOMAIN r} = {q[i] : i \in DOMAIN q} \cup {x}
    <2>1. ASSUME NEW y \in {r[i] : i \in DOMAIN r}
          PROVE  y \in {q[i] : i \in DOMAIN q} \cup {x}
      <3>1. PICK i \in 1..(Len(q) + 1) : y = r[i]
        BY <1>1, <2>1
      <3>2. CASE i = Len(q) + 1
        BY <1>1, <3>1, <3>2
      <3>3. CASE i \in 1..Len(q)
        BY <1>1, <3>1, <3>3
      <3>4. QED
        BY <1>1, <3>2, <3>3
    <2>2. ASSUME NEW i \in DOMAIN q
          PROVE  q[i] \in {r[j] : j \in DOMAIN r}
      <3>1. i \in DOMAIN r /\ r[i] = q[i]
        BY <1>1
      <3>2. QED
        BY <3>1
    <2>3. x \in {r[j] : j \in DOMAIN r}
      <3>1. Len(q) + 1 \in DOMAIN r
        BY <1>1
      <3>2. QED
        BY <1>1, <3>1
    <2>4. QED
      BY <2>1, <2>2, <2>3
  <1>3. ASSUME Injective(q), x \notin {q[i] : i \in DOMAIN q}
        PROVE  Injective(r)
    <2>1. ASSUME NEW i \in 1..Len(r), NEW j \in 1..Len(r), r[i] = r[j]
          PROVE  i = j
      <3>1. \A k \in 1..Len(q) : q[k] # x
        BY <1>1, <1>3
      <3>2. CASE i \in 1..Len(q) /\ j \in 1..Len(q)
        BY <1>1, <1>3, <2>1, <3>2 DEF Injective
      <3>3. CASE i = Len(q) + 1
        BY <1>1, <2>1, <3>1, <3>3
      <3>4. CASE j = Len(q) + 1
        BY <1>1, <2>1, <3>1, <3>4
      <3>5. QED
        BY <1>1, <3>2, <3>3, <3>4
    <2>2. QED
      BY <2>1 DEF Injective
  <1>4. QED
    BY <1>1, <1>2, <1>3

LEMMA ItemsTail ==
  ASSUME NEW S, NEW q \in Seq(S), q # <<>>
  PROVE  /\ Tail(q) \in Seq(S) /\ Len(q) = Len(Tail(q)) + 1 /\ Head(q) \in S
         /\ Len(Tail(q)) \in Nat
         /\ Items(q) = Items(Tail(q)) \cup {Head(q)}
         /\ Injective(q) => Injective(Tail(q)) /\ Head(q) \notin Items(Tail(q))
  <1> USE DEF Items
  <1> DEFINE r == Tail(q)
  <1>1. /\ r \in Seq(S) /\ Len(q) = Len(r) + 1 /\ Head(q) \in S
        /\ Len(r) \in Nat /\ DOMAIN r = 1..Len(r) /\ DOMAIN q = 1..(Len(r) + 1)
        /\ \A i \in 1..Len(r) : r[i] = q[i + 1]
        /\ Head(q) = q[1]
    OBVIOUS
  <1>2. {q[i] : i \in DOMAIN q} = {r[i] : i \in DOMAIN r} \cup {Head(q)}
    <2>1. ASSUME NEW i \in DOMAIN q
          PROVE  q[i] \in {r[j] : j \in DOMAIN r} \cup {Head(q)}
      <3>1. CASE i = 1
        BY <1>1, <3>1
      <3>2. CASE i # 1
        <4>1. i - 1 \in DOMAIN r /\ r[i - 1] = q[i]
          BY <1>1, <3>2
        <4>2. QED
          BY <4>1
      <3>3. QED
        BY <3>1, <3>2
    <2>2. ASSUME NEW i \in DOMAIN r
          PROVE  r[i] \in {q[j] : j \in DOMAIN q}
      <3>1. i + 1 \in DOMAIN q /\ r[i] = q[i + 1]
        BY <1>1
      <3>2. QED
        BY <3>1
    <2>3. Head(q) \in {q[j] : j \in DOMAIN q}
      <3>1. 1 \in DOMAIN q
        BY <1>1
      <3>2. QED
        BY <1>1, <3>1
    <2>4. QED
      BY <2>1, <2>2, <2>3
  <1>3. ASSUME Injective(q)
        PROVE  Injective(r) /\ Head(q) \notin {r[i] : i \in DOMAIN r}
    <2>1. ASSUME NEW i \in 1..Len(r), NEW j \in 1..Len(r), r[i] = r[j]
          PROVE  i = j
      <3>1. i + 1 \in 1..Len(q) /\ j + 1 \in 1..Len(q) /\ q[i + 1] = q[j + 1]
        BY <1>1, <2>1
      <3>2. i + 1 = j + 1
        BY <1>3, <3>1 DEF Injective
      <3>3. QED
        BY <3>2
    <2>2. ASSUME NEW i \in DOMAIN r, r[i] = Head(q)
          PROVE  FALSE
      <3>1. 1 \in 1..Len(q) /\ i + 1 \in 1..Len(q) /\ q[1] = q[i + 1]
        BY <1>1, <2>2
      <3>2. 1 = i + 1
        BY <1>3, <3>1 DEF Injective
      <3>3. QED
        BY <1>1, <3>2
    <2>3. QED
      BY <2>1, <2>2 DEF Injective
  <1>4. QED
    BY <1>1, <1>2, <1>3

-------------------------------------------------------------------------------
(* The asynchronous log: a line is in one place, whoever moves it.           *)

LogTypes ==
  /\ at \in [Loggers -> {"idle", "due", "reopen", "line", "push", "flush", "fflush", "stale"}]
  /\ mtx_ \in Loggers \cup {0} /\ fp_ \in BOOLEAN
  /\ deque_ \in Seq(Nat) /\ isClose_ \in BOOLEAN
  /\ writer \in {"pop", "wait", "woken", "put", "ended"}
  /\ hand \in SUBSET Nat /\ made \in Nat /\ out \in SUBSET Nat
  /\ dtor \in {"no", "spin", "close", "notify", "join", "done"}

\* Who holds the mutex over several steps, and what it does to the file.
MutexOK ==
  /\ \A t \in Loggers : at[t] \in {"reopen", "push"} <=> mtx_ = t
  /\ dtor # "done" => (fp_ <=> \A t \in Loggers : at[t] # "reopen")

\* ~Log comes when nobody logs, and closes the queue after clearing it.
EndOK ==
  /\ dtor # "no" => \A t \in Loggers : at[t] = "idle"
  /\ isClose_ => dtor \in {"join", "done"}

HandOK == IF writer = "put" THEN \E n \in hand : hand = {n} ELSE hand = {}

\* No line is in two places.
Apart ==
  /\ Injective(deque_) /\ IsFiniteSet(out)
  /\ Queued \cap hand = {} /\ Queued \cap out = {} /\ hand \cap out = {}
  /\ Pending \cap (Queued \cup hand \cup out) = {}

LogInv == /\ LogTypes /\ MutexOK /\ EndOK /\ HandOK
          /\ dtor \in {"no", "spin"} => Apart /\ LinesKept

LEMMA InitLogInv == InitLog => LogInv
  <1> SUFFICES ASSUME InitLog PROVE LogInv
    OBVIOUS
  <1>1. Queued = {} /\ Len(deque_) = 0 /\ deque_ \in Seq(Nat)
    BY DEF InitLog, Queued
  <1>2. Pending = {} /\ 1..made = {}
    BY DEF InitLog, Pending
  <1>3. LogTypes /\ MutexOK /\ EndOK /\ HandOK
    BY <1>1, LoggersAssumption DEF InitLog, LogTypes, MutexOK, EndOK, HandOK
  <1>4. Apart /\ LinesKept
    BY <1>1, <1>2, FS_EmptySet DEF InitLog, Apart, LinesKept, Injective
  <1>5. QED
    BY <1>3, <1>4 DEF LogInv

\* Steps that leave the queue, the hand and the file alone.
LEMMA LinesStay ==
  ASSUME LogInv, MutexOK', UNCHANGED <<deque_, hand, made, out>>,
         Pending' = Pending, dtor' \in {"no", "spin"} => dtor \in {"no", "spin"},
         mtx_' = 0 /\ dtor' # "done" => fp_'
  PROVE  dtor' \in {"no", "spin"} => Apart' /\ LinesKept'
  BY DEF LogInv, Apart, LinesKept, Queued

LEMMA LogShape ==
  ASSUME LogInv, [NextLog]_logVars
  PROVE  LogTypes' /\ MutexOK' /\ EndOK' /\ HandOK'
  <1> USE DEF LogTypes, MutexOK, EndOK, HandOK
  <1>1. LogTypes /\ MutexOK /\ EndOK /\ HandOK /\ 0 \notin Loggers
    BY LoggersAssumption DEF LogInv
  <1>2. Notified \in {"pop", "wait", "woken", "put", "ended"}
        /\ (Notified = "put" <=> writer = "put")
    BY <1>1 DEF Notified
  <1>3. ASSUME NEW t \in Loggers, Write(t)
        PROVE  LogTypes' /\ MutexOK' /\ EndOK' /\ HandOK'
    BY <1>1, <1>3 DEF Write, To
  <1>4. ASSUME NEW t \in Loggers, CloseFile(t)
        PROVE  LogTypes' /\ MutexOK' /\ EndOK' /\ HandOK'
    BY <1>1, <1>2, <1>4 DEF CloseFile, To
  <1>5. ASSUME NEW t \in Loggers, OpenFile(t)
        PROVE  LogTypes' /\ MutexOK' /\ EndOK' /\ HandOK'
    BY <1>1, <1>5 DEF OpenFile, To
  <1>6. ASSUME NEW t \in Loggers, Line(t)
        PROVE  LogTypes' /\ MutexOK' /\ EndOK' /\ HandOK'
    <2>1. /\ dtor = dtor' /\ writer' = writer /\ made' = made + 1 /\ mtx_ = 0
          /\ UNCHANGED <<fp_, deque_, isClose_, hand>>
      BY <1>6 DEF Line
    <2>2. \/ at' = [at EXCEPT ![t] = "push"] /\ mtx_' = t /\ out' = out
          \/ at' = [at EXCEPT ![t] = "flush"] /\ out' = out \cup {made'} /\ mtx_' = mtx_
      BY <1>6 DEF Line, To
    <2>3. LogTypes'
      <3>1. made' \in Nat /\ mtx_' \in Loggers \cup {0}
        BY <1>1, <2>1, <2>2
      <3>2. at' \in [Loggers -> {"idle", "due", "reopen", "line", "push", "flush", "fflush", "stale"}]
        BY <1>1, <2>2
      <3>3. out' \in SUBSET Nat
        BY <1>1, <2>2, <3>1
      <3>4. QED
        BY <1>1, <2>1, <3>1, <3>2, <3>3
    <2>4. MutexOK'
      BY <1>1, <1>6, <2>1, <2>2 DEF Line, To
    <2>5. EndOK'
      BY <1>1, <1>6, <2>1, <2>2 DEF Line, To
    <2>6. HandOK'
      BY <1>1, <2>1
    <2>7. QED
      BY <2>3, <2>4, <2>5, <2>6
  <1>7. ASSUME NEW t \in Loggers, push_back(t)
        PROVE  LogTypes' /\ MutexOK' /\ EndOK' /\ HandOK'
    <2>1. deque_' \in Seq(Nat)
      BY <1>1, <1>7 DEF push_back
    <2>2. QED
      BY <1>1, <1>2, <1>7, <2>1 DEF push_back, To
  <1>8. ASSUME NEW t \in Loggers, Flush(t)
        PROVE  LogTypes' /\ MutexOK' /\ EndOK' /\ HandOK'
    BY <1>1, <1>2, <1>8 DEF Flush, To
  <1>f. ASSUME NEW t \in Loggers, fflush(t)
        PROVE  LogTypes' /\ MutexOK' /\ EndOK' /\ HandOK'
    BY <1>1, <1>f DEF fflush, To
  <1>9. CASE pop
    <2>1. deque_' \in Seq(Nat) /\ hand' \in SUBSET Nat
      <3>1. deque_ \in Seq(Nat) /\ hand \in SUBSET Nat
        BY <1>1
      <3>2. deque_ # <<>> => Tail(deque_) \in Seq(Nat) /\ Head(deque_) \in Nat
        BY <3>1, ItemsTail
      <3>3. QED
        BY <1>9, <3>1, <3>2 DEF pop
    <2>2. HandOK'
      BY <1>1, <1>9 DEF pop
    <2>3. QED
      BY <1>1, <1>9, <2>1, <2>2 DEF pop
  <1>10. CASE Put
    BY <1>1, <1>10 DEF Put
  <1>11. CASE Exit \/ Spin
    <2>1. /\ UNCHANGED <<at, mtx_, fp_, deque_, isClose_, hand, made, out>>
          /\ writer' \in {writer, Notified} /\ dtor' \in {"spin", "close"}
          /\ dtor # "done" /\ isClose_ = FALSE /\ \A t \in Loggers : at[t] = "idle"
      BY <1>1, <1>11 DEF Exit, Spin
    <2>2. LogTypes' /\ HandOK'
      BY <1>1, <1>2, <2>1
    <2>3. MutexOK' /\ EndOK'
      BY <1>1, <2>1
    <2>4. QED
      BY <2>2, <2>3
  <1>12. CASE Close
    <2>1. /\ UNCHANGED <<at, mtx_, fp_, hand, made, out>>
          /\ writer' \in {writer, Notified} /\ dtor' \in {"notify", "join"}
          /\ dtor # "done" /\ isClose_' \in BOOLEAN /\ (isClose_' => dtor' = "join")
          /\ deque_' \in {deque_, <<>>} /\ \A t \in Loggers : at[t] = "idle"
      <3>1. CASE dtor = "close" /\ deque_' = <<>> /\ dtor' = "notify" /\ UNCHANGED <<isClose_, writer>>
        BY <1>1, <1>12, <3>1 DEF Close
      <3>2. CASE dtor = "notify" /\ isClose_' = TRUE /\ writer' = Notified /\ dtor' = "join"
                 /\ UNCHANGED deque_
        BY <1>1, <1>12, <3>2 DEF Close
      <3>3. QED
        BY <1>12, <3>1, <3>2 DEF Close
    <2>2. deque_' \in Seq(Nat)
      <3>1. deque_ \in Seq(Nat) /\ <<>> \in Seq(Nat)
        BY <1>1
      <3>2. QED
        BY <2>1, <3>1
    <2>3. LogTypes' /\ HandOK'
      BY <1>1, <1>2, <2>1, <2>2
    <2>4. MutexOK' /\ EndOK'
      BY <1>1, <2>1
    <2>5. QED
      BY <2>3, <2>4
  <1>13. CASE JoinWriter \/ UNCHANGED logVars
    <2>1. /\ UNCHANGED <<at, mtx_, deque_, isClose_, writer, hand, made, out>>
          /\ \/ fp_' = FALSE /\ dtor = "join" /\ dtor' = "done"
             \/ fp_' = fp_ /\ dtor' = dtor
      BY <1>13 DEF JoinWriter, logVars
    <2>2. LogTypes' /\ HandOK'
      BY <1>1, <2>1
    <2>3. MutexOK' /\ EndOK'
      BY <1>1, <2>1
    <2>4. QED
      BY <2>2, <2>3
  <1>14. QED
    BY <1>3, <1>4, <1>5, <1>6, <1>7, <1>8, <1>f, <1>9, <1>10, <1>11, <1>12, <1>13
    DEF NextLog, Logger, Writer

\* Whether a thread is about to append, when nobody gets there or leaves.
LEMMA PendingStays ==
  ASSUME UNCHANGED made, \A t \in Loggers : at'[t] = "push" <=> at[t] = "push"
  PROVE  Pending' = Pending
  BY DEF Pending

LEMMA LineLines ==
  ASSUME LogInv, NEW t \in Loggers, Line(t), LogTypes', MutexOK', dtor' \in {"no", "spin"}
  PROVE  Apart' /\ LinesKept'
  <1>1. /\ LogTypes /\ MutexOK /\ Apart /\ LinesKept /\ dtor \in {"no", "spin"}
        /\ mtx_ = 0 /\ at[t] = "line" /\ made' = made + 1 /\ 0 \notin Loggers
        /\ UNCHANGED <<deque_, hand, fp_>> /\ Queued' = Queued
    BY LoggersAssumption DEF LogInv, Line, To, Queued
  <1>2. \A u \in Loggers : at[u] # "push"
    BY <1>1 DEF MutexOK
  <1>3. Pending = {} /\ Cardinality(Pending) = 0
    BY <1>2, FS_EmptySet DEF Pending
  <1>4. fp_ /\ made \in Nat /\ 1..made' = (1..made) \cup {made'} /\ made' \notin 1..made
    BY <1>1 DEF LinesKept, LogTypes
  <1>5. 1..made = Queued \cup hand \cup out
    BY <1>1, <1>3 DEF LinesKept
  <1>6. /\ Len(deque_) \in Nat /\ Cardinality(hand) \in Nat /\ Cardinality(out) \in Nat
        /\ made = Len(deque_) + Cardinality(hand) + Cardinality(out)
    <2>1. IsFiniteSet(1..made)
      BY <1>4, FS_Interval
    <2>2. hand \in SUBSET (1..made)
      BY <1>5
    <2>3. IsFiniteSet(hand)
      BY <2>1, <2>2, FS_Subset
    <2>4. Cardinality(hand) \in Nat /\ Cardinality(out) \in Nat
      BY <1>1, <2>3, FS_CardinalityType DEF Apart
    <2>5. Len(deque_) \in Nat
      BY <1>1 DEF LogTypes
    <2>6. made = Len(deque_) + Cardinality(hand) + Cardinality(out) + 0
      BY <1>1, <1>3 DEF LinesKept
    <2>7. QED
      BY <2>4, <2>5, <2>6
  <1>7. CASE at'[t] = "push" /\ UNCHANGED out
    <2>1. Pending' = {made'} /\ Cardinality(Pending') = 1
      BY <1>7, FS_Singleton DEF Pending
    <2>2. Apart'
      BY <1>1, <1>4, <1>5, <1>7, <2>1 DEF Apart
    <2>3. 1..made' = Queued' \cup hand' \cup out' \cup Pending'
      BY <1>1, <1>4, <1>5, <1>7, <2>1
    <2>4. made' = Len(deque_') + Cardinality(hand') + Cardinality(out') + Cardinality(Pending')
      BY <1>1, <1>6, <1>7, <2>1
    <2>5. QED
      BY <1>1, <1>4, <2>2, <2>3, <2>4 DEF LinesKept
  <1>8. CASE at' = [at EXCEPT ![t] = "flush"] /\ out' = out \cup {made'}
    <2>1. Pending' = {} /\ Cardinality(Pending') = 0
      BY <1>1, <1>2, <1>8, FS_EmptySet DEF Pending, LogTypes
    <2>2. made' \notin out /\ IsFiniteSet(out)
      BY <1>1, <1>4, <1>5 DEF Apart
    <2>3. IsFiniteSet(out') /\ Cardinality(out') = Cardinality(out) + 1
      BY <1>8, <2>2, FS_AddElement
    <2>4. Apart'
      BY <1>1, <1>4, <1>5, <1>8, <2>1, <2>3 DEF Apart
    <2>5. 1..made' = Queued' \cup hand' \cup out' \cup Pending'
      BY <1>1, <1>4, <1>5, <1>8, <2>1
    <2>6. made' = Len(deque_') + Cardinality(hand') + Cardinality(out') + Cardinality(Pending')
      BY <1>1, <1>6, <2>1, <2>3
    <2>7. QED
      BY <1>1, <1>4, <2>4, <2>5, <2>6 DEF LinesKept
  <1>9. QED
    BY <1>1, <1>7, <1>8 DEF Line, To, LogTypes

\* The terms of the count are numbers.
LEMMA LinesFinite ==
  ASSUME LogTypes, HandOK, Apart
  PROVE  /\ Len(deque_) \in Nat /\ Cardinality(hand) \in Nat /\ Cardinality(out) \in Nat
         /\ Cardinality(Pending) \in Nat /\ made \in Nat
  <1>1. IsFiniteSet(hand)
    BY FS_EmptySet, FS_Singleton DEF HandOK
  <1>2. IsFiniteSet(Pending)
    BY FS_EmptySet, FS_Singleton DEF Pending
  <1>3. QED
    BY <1>1, <1>2, FS_CardinalityType DEF LogTypes, Apart

LEMMA push_backLines ==
  ASSUME LogInv, NEW t \in Loggers, push_back(t), LogTypes', MutexOK', dtor' \in {"no", "spin"}
  PROVE  Apart' /\ LinesKept'
  <1>1. /\ LogTypes /\ MutexOK /\ HandOK /\ Apart /\ LinesKept /\ dtor \in {"no", "spin"}
        /\ at[t] = "push" /\ at' = [at EXCEPT ![t] = "flush"] /\ mtx_ = t
        /\ UNCHANGED <<hand, out, made, fp_>>
        /\ isClose_ => dtor \in {"join", "done"}
    BY DEF LogInv, push_back, To, MutexOK, EndOK
  <1>2. deque_' = Append(deque_, made)
    BY <1>1 DEF push_back
  <1>3. Pending = {made} /\ Cardinality(Pending) = 1
    BY <1>1, FS_Singleton DEF Pending
  <1>4. Pending' = {} /\ Cardinality(Pending') = 0
    <2>1. \A u \in Loggers : at'[u] # "push"
      BY <1>1 DEF LogTypes, MutexOK
    <2>2. QED
      BY <2>1, FS_EmptySet DEF Pending
  <1>5. /\ Queued' = Queued \cup {made} /\ Len(deque_') = Len(deque_) + 1
        /\ Injective(deque_')
    <2>1. deque_ \in Seq(Nat) /\ made \in Nat /\ Injective(deque_) /\ made \notin Queued
      BY <1>1, <1>3 DEF LogTypes, Apart
    <2>2. made \notin Items(deque_) /\ Queued = Items(deque_) /\ Queued' = Items(deque_')
      BY <2>1 DEF Queued, Items
    <2>3. /\ Items(Append(deque_, made)) = Items(deque_) \cup {made}
          /\ Len(Append(deque_, made)) = Len(deque_) + 1
          /\ Injective(Append(deque_, made))
      BY ONLY <2>1, <2>2, ItemsAppend
    <2>4. QED
      BY ONLY <1>2, <2>2, <2>3
  <1>6. Apart'
    BY <1>1, <1>3, <1>4, <1>5 DEF Apart
  <1>7. fp_
    BY <1>1 DEF MutexOK
  <1>8. made' = Len(deque_') + Cardinality(hand') + Cardinality(out') + Cardinality(Pending')
    BY <1>1, <1>3, <1>4, <1>5, LinesFinite DEF LinesKept
  <1>9. QED
    BY <1>1, <1>3, <1>4, <1>5, <1>6, <1>7, <1>8 DEF LinesKept

LEMMA popLines ==
  ASSUME LogInv, pop, LogTypes', MutexOK', dtor' \in {"no", "spin"}
  PROVE  Apart' /\ LinesKept'
  <1>1. /\ LogTypes /\ HandOK /\ Apart /\ LinesKept /\ dtor \in {"no", "spin"}
        /\ writer \in {"pop", "woken"} /\ hand = {}
        /\ UNCHANGED <<at, mtx_, out, made, fp_>>
    BY DEF LogInv, pop, HandOK
  <1>2. Pending' = Pending
    BY <1>1, PendingStays
  <1>3. CASE UNCHANGED <<deque_, hand>>
    BY <1>1, <1>2, <1>3 DEF Apart, LinesKept, Queued
  <1>4. CASE deque_ # <<>> /\ hand' = {Head(deque_)} /\ deque_' = Tail(deque_)
    <2>1. /\ Queued = Queued' \cup {Head(deque_)} /\ Len(deque_) = Len(deque_') + 1
          /\ Injective(deque_') /\ Head(deque_) \notin Queued'
          /\ Len(deque_') \in Nat
      <3>1. deque_ \in Seq(Nat) /\ deque_' \in Seq(Nat) /\ Injective(deque_)
        BY <1>1 DEF LogTypes, Apart
      <3>2. /\ Items(deque_) = Items(Tail(deque_)) \cup {Head(deque_)}
            /\ Len(deque_) = Len(Tail(deque_)) + 1 /\ Len(Tail(deque_)) \in Nat
            /\ Injective(Tail(deque_)) /\ Head(deque_) \notin Items(Tail(deque_))
        BY <1>4, <3>1, ItemsTail
      <3>3. Queued = Items(deque_) /\ Queued' = Items(Tail(deque_))
        BY <1>4 DEF Queued, Items
      <3>4. QED
        BY <1>4, <3>2, <3>3
    <2>2. Cardinality(hand) = 0 /\ Cardinality(hand') = 1
      BY <1>1, <1>4, FS_EmptySet, FS_Singleton
    <2>3. Apart'
      BY <1>1, <1>2, <1>4, <2>1 DEF Apart
    <2>4. made' = Len(deque_') + Cardinality(hand') + Cardinality(out') + Cardinality(Pending')
      BY <1>1, <1>2, <2>1, <2>2, LinesFinite DEF LinesKept
    <2>5. 1..made' = Queued' \cup hand' \cup out' \cup Pending'
      BY <1>1, <1>2, <1>4, <2>1 DEF LinesKept
    <2>6. QED
      BY <1>1, <2>3, <2>4, <2>5 DEF LinesKept
  <1>5. QED
    BY <1>3, <1>4 DEF pop

LEMMA PutLines ==
  ASSUME LogInv, Put, LogTypes', MutexOK', dtor' \in {"no", "spin"}
  PROVE  Apart' /\ LinesKept'
  <1>1. /\ LogTypes /\ HandOK /\ Apart /\ LinesKept /\ dtor \in {"no", "spin"}
        /\ writer = "put" /\ out' = out \cup hand /\ hand' = {}
        /\ UNCHANGED <<at, mtx_, deque_, made, fp_>>
    BY DEF LogInv, Put
  <1>2. Pending' = Pending /\ Queued' = Queued
    BY <1>1, PendingStays DEF Queued
  <1>3. PICK n \in hand : hand = {n}
    BY <1>1 DEF HandOK
  <1>4. n \notin out /\ IsFiniteSet(out) /\ out' = out \cup {n}
    BY <1>1, <1>3 DEF Apart
  <1>5. IsFiniteSet(out') /\ Cardinality(out') = Cardinality(out) + 1
    BY <1>4, FS_AddElement
  <1>6. Cardinality(hand) = 1 /\ Cardinality(hand') = 0
    BY <1>1, <1>3, FS_EmptySet, FS_Singleton
  <1>7. Apart'
    BY <1>1, <1>2, <1>5 DEF Apart
  <1>8. made' = Len(deque_') + Cardinality(hand') + Cardinality(out') + Cardinality(Pending')
    BY <1>1, <1>2, <1>5, <1>6, LinesFinite DEF LinesKept
  <1>9. 1..made' = Queued' \cup hand' \cup out' \cup Pending'
    BY <1>1, <1>2 DEF LinesKept
  <1>10. QED
    BY <1>1, <1>7, <1>8, <1>9 DEF LinesKept

LEMMA NextLogInv == LogInv /\ [NextLog]_logVars => LogInv'
  <1> SUFFICES ASSUME LogInv, [NextLog]_logVars PROVE LogInv'
    OBVIOUS
  <1>1. LogTypes' /\ MutexOK' /\ EndOK' /\ HandOK'
    BY LogShape
  <1>2. ASSUME dtor' \in {"no", "spin"}
        PROVE  Apart' /\ LinesKept'
    <2>1. ASSUME NEW t \in Loggers, Write(t) \/ CloseFile(t) \/ OpenFile(t) \/ Flush(t) \/ fflush(t)
          PROVE  Apart' /\ LinesKept'
      <3>1. Pending' = Pending
        BY <2>1, PendingStays
        DEF LogInv, LogTypes, Write, CloseFile, OpenFile, Flush, fflush, To
      <3>2. /\ UNCHANGED <<deque_, hand, made, out, dtor>>
            /\ mtx_' = 0 => fp_'
        BY <2>1 DEF Write, CloseFile, OpenFile, Flush, fflush, LogInv, LinesKept, To, EndOK, MutexOK
      <3>3. QED
        BY <1>1, <1>2, <3>1, <3>2, LinesStay
    <2>2. CASE Exit \/ Spin \/ Close \/ JoinWriter \/ UNCHANGED logVars
      <3>1. UNCHANGED <<at, mtx_, deque_, hand, made, out, fp_>> /\ dtor \in {"no", "spin"}
        BY <1>2, <2>2 DEF Exit, Spin, Close, JoinWriter, logVars
      <3>2. Pending' = Pending
        BY <3>1, PendingStays
      <3>3. mtx_' = 0 => fp_'
        BY <3>1 DEF LogInv, LinesKept
      <3>4. QED
        BY <1>1, <1>2, <3>1, <3>2, <3>3, LinesStay
    <2>3. QED
      BY <1>1, <1>2, <2>1, <2>2, LineLines, push_backLines, popLines, PutLines
      DEF NextLog, Logger, Writer
  <1>3. QED
    BY <1>1, <1>2 DEF LogInv

\* Every line logged is in one place, the queue, the hand of a thread or the file,
\* for any threads and any capacity, until ~Log clears the queue; and who takes the
\* mutex to write finds the file open (Log::write, push_back, pop, AsyncWrite_).
THEOREM LogKeepsLines == SpecLog => []LinesKept
  <1>1. SpecLog => []LogInv
    BY InitLogInv, NextLogInv, PTL DEF SpecLog
  <1>2. LogInv => LinesKept
    BY DEF LogInv, LinesKept
  <1>3. QED
    BY <1>1, <1>2, PTL

\* What keeps the log going: the queue keeps to its bound, a thread that holds the
\* mutex can do its step, and the writing thread sleeps on an empty queue only.
Unstalled ==
  /\ Len(deque_) <= capacity_
  /\ \A t \in Loggers : mtx_ = t => at[t] = "reopen" \/ (at[t] = "push" /\ Len(deque_) < capacity_)
  /\ writer = "wait" => deque_ = <<>>

LEMMA UnstalledStep ==
  ASSUME LogInv, Unstalled, [NextLog]_logVars
  PROVE  Unstalled'
  <1>1. /\ LogTypes /\ MutexOK /\ LogTypes' /\ MutexOK' /\ 0 \notin Loggers
        /\ deque_ \in Seq(Nat) /\ Len(deque_) \in Nat /\ capacity_ \in Nat
        /\ at \in [Loggers -> {"idle", "due", "reopen", "line", "push", "flush", "fflush", "stale"}]
    BY LogShape, LoggersAssumption, CapacityAssumption DEF LogInv, LogTypes
  <1>2. Notified # "wait" /\ (deque_ = <<>> => Len(deque_) = 0)
    BY DEF Notified
  <1>3. ASSUME NEW t \in Loggers, Write(t) \/ CloseFile(t) \/ OpenFile(t) \/ Flush(t) \/ fflush(t)
        PROVE  Unstalled'
    <2>1. /\ deque_' = deque_ /\ writer' \in {writer, Notified}
          /\ \A u \in Loggers : at'[u] = "push" <=> at[u] = "push"
      BY <1>1, <1>3 DEF Write, CloseFile, OpenFile, Flush, fflush, To
    <2>2. \A u \in Loggers : at[u] = "push" => Len(deque_) < capacity_
      BY <1>1 DEF MutexOK, Unstalled
    <2>3. \A u \in Loggers : mtx_' = u => at'[u] \in {"reopen", "push"}
      BY <1>1 DEF MutexOK
    <2>4. QED
      BY <1>2, <2>1, <2>2, <2>3 DEF Unstalled
  <1>4. ASSUME NEW t \in Loggers, Line(t)
        PROVE  Unstalled'
    <2>1. /\ deque_' = deque_ /\ writer' = writer /\ mtx_ = 0
          /\ \/ Len(deque_) < capacity_ /\ mtx_' = t /\ at' = [at EXCEPT ![t] = "push"]
             \/ mtx_' = mtx_
      BY <1>4 DEF Line, To
    <2>2. \A u \in Loggers : mtx_' = u => at'[u] = "push" /\ Len(deque_) < capacity_
      BY <1>1, <2>1
    <2>3. QED
      BY <2>1, <2>2 DEF Unstalled
  <1>5. ASSUME NEW t \in Loggers, push_back(t)
        PROVE  Unstalled'
    <2>1. /\ mtx_' = 0
          /\ \/ UNCHANGED <<deque_, writer>>
             \/ /\ Len(deque_) < capacity_ /\ deque_' = Append(deque_, made)
                /\ writer' = Notified
      BY <1>5 DEF push_back
    <2>2. made \in Nat
      BY <1>1 DEF LogTypes
    <2>3. Len(Append(deque_, made)) = Len(deque_) + 1
      BY <1>1, <2>2
    <2>4. Len(deque_') <= capacity_
      BY <1>1, <2>1, <2>3 DEF Unstalled
    <2>5. writer' = "wait" => deque_' = <<>>
      BY <1>2, <2>1 DEF Unstalled
    <2>6. QED
      BY <1>1, <2>1, <2>4, <2>5 DEF Unstalled
  <1>6. CASE pop
    <2>1. UNCHANGED <<at, mtx_>>
      BY <1>6 DEF pop
    <2>2. deque_' = deque_ \/ (deque_ # <<>> /\ deque_' = Tail(deque_))
      BY <1>6 DEF pop
    <2>3. deque_ # <<>> => Len(Tail(deque_)) = Len(deque_) - 1
      BY <1>1
    <2>4. Len(deque_') <= Len(deque_) /\ Len(deque_') \in Nat
      BY <1>1, <2>2, <2>3 DEF LogTypes
    <2>5. writer' = "wait" => deque_' = <<>>
      BY <1>6 DEF pop
    <2>6. QED
      BY <1>1, <2>1, <2>4, <2>5 DEF Unstalled
  <1>7. CASE Put \/ Exit \/ Spin \/ JoinWriter \/ UNCHANGED logVars
    <2>1. /\ UNCHANGED <<at, deque_, mtx_>>
          /\ writer' \in {writer, Notified, "pop"}
      BY <1>7 DEF Put, Exit, Spin, JoinWriter, logVars
    <2>2. QED
      BY <1>2, <2>1 DEF Unstalled
  <1>8. CASE Close
    <2>1. /\ UNCHANGED <<at, mtx_>> /\ writer' \in {writer, Notified}
          /\ deque_' = deque_ \/ (deque_' = <<>> /\ Len(deque_') = 0)
      BY <1>8 DEF Close
    <2>2. Len(deque_') <= Len(deque_) /\ Len(deque_') \in Nat
      BY <1>1, <2>1
    <2>3. writer' = "wait" => deque_' = <<>>
      BY <1>2, <2>1 DEF Unstalled
    <2>4. QED
      BY <1>1, <2>1, <2>2, <2>3 DEF Unstalled
  <1>9. QED
    BY <1>3, <1>4, <1>5, <1>6, <1>7, <1>8 DEF NextLog, Logger, Writer

\* push_back, called with the mutex held that the writing thread needs to make a
\* place, never finds the queue full, and no line is queued while the writing
\* thread sleeps: for any threads and capacity (write, push_back, AsyncWrite_).
THEOREM PushNeverWaits == SpecLog => []Unstalled
  <1>1. InitLog => Unstalled
    BY LoggersAssumption, CapacityAssumption DEF InitLog, Unstalled
  <1>2. LogInv /\ [NextLog]_logVars => LogInv'
    BY NextLogInv
  <1>3. LogInv /\ Unstalled /\ [NextLog]_logVars => Unstalled'
    BY UnstalledStep
  <1>4. QED
    BY <1>1, <1>2, <1>3, InitLogInv, PTL DEF SpecLog

-------------------------------------------------------------------------------
(* The pool of database connections: the semaphore counts the queue.         *)

SqlTypes ==
  /\ connQue_ \in Seq(Conns) /\ semId_ \in Nat /\ dbClosed \in BOOLEAN
  /\ step \in [Verifiers -> {"idle", "sem", "pop", "free", "query", "answer", "null"}]
  /\ sql \in [Verifiers -> SUBSET Conns]

Popping == {t \in Verifiers : step[t] = "pop"}

\* Each connection has one place, the queue or the thread that took it.
Alone ==
  /\ Injective(connQue_)
  /\ \A t \in Owned : \E c \in Conns \ InPool : sql[t] = {c}
  /\ \A t, u \in Owned : t # u => sql[t] \cap sql[u] = {}
  /\ InPool \cup UNION {sql[t] : t \in Owned} = Conns

SqlInv ==
  /\ SqlTypes
  /\ dbClosed => \A t \in Verifiers : step[t] = "idle"
  /\ ~dbClosed => Alone /\ Len(connQue_) = semId_ + Cardinality(Popping)

\* The threads at one place are a finite number, that changes by one.
LEMMA PoppingChanges ==
  ASSUME NEW t \in Verifiers
  PROVE  /\ IsFiniteSet(Popping) /\ Cardinality(Popping) \in Nat
         /\ t \notin Popping /\ Popping' = Popping \cup {t}
              => Cardinality(Popping') = Cardinality(Popping) + 1
         /\ t \in Popping /\ Popping' = Popping \ {t}
              => Cardinality(Popping') = Cardinality(Popping) - 1
  <1>1. Popping \in SUBSET Verifiers
    BY DEF Popping
  <1>2. IsFiniteSet(Popping)
    BY <1>1, PoolAssumption, FS_Subset
  <1>3. Cardinality(Popping) \in Nat
    BY <1>2, FS_CardinalityType
  <1>4. t \notin Popping => Cardinality(Popping \cup {t}) = Cardinality(Popping) + 1
    BY <1>2, FS_AddElement
  <1>5. t \in Popping => Cardinality(Popping \ {t}) = Cardinality(Popping) - 1
    BY <1>2, FS_RemoveElement
  <1>6. QED
    BY <1>2, <1>3, <1>4, <1>5

LEMMA InitSqlInv == InitSql => SqlInv
  <1> SUFFICES ASSUME InitSql PROVE SqlInv
    OBVIOUS
  <1> DEFINE n == Cardinality(Conns)
             Full(q) == \A c \in Conns : \E i \in DOMAIN q : q[i] = c
  <1>1. n \in Nat /\ ExistsBijection(1..n, Conns)
    BY PoolAssumption, FS_CardinalityType
  <1>2. \E q \in [1..n -> Conns] : Full(q)
    BY <1>1 DEF ExistsBijection, Bijection, Injection, Surjection, IsInjective
  <1>3. connQue_ = CHOOSE q \in [1..n -> Conns] : Full(q)
    BY DEF InitSql
  <1>4. connQue_ \in [1..n -> Conns] /\ Full(connQue_)
    BY <1>2, <1>3
  <1>5. connQue_ \in Seq(Conns) /\ Len(connQue_) = n /\ DOMAIN connQue_ = 1..n
    BY <1>1, <1>4
  <1>6. Injective(connQue_)
    <2>1. connQue_ \in Surjection(1..n, Conns)
      BY <1>4 DEF Surjection
    <2>2. IsFiniteSet(1..n) /\ Cardinality(1..n) = n
      BY <1>1, FS_Interval
    <2>3. connQue_ \in Injection(1..n, Conns)
      BY <2>1, <2>2, FS_SurjSameCardinalityImpliesInj
    <2>4. QED
      BY <1>5, <2>3 DEF Injection, IsInjective, Injective
  <1>7. InPool = Conns
    BY <1>4, <1>5 DEF InPool
  <1>8. Owned = {} /\ Popping = {} /\ Cardinality(Popping) = 0
    BY FS_EmptySet DEF InitSql, Owned, Popping
  <1>9. SqlTypes
    BY <1>1, <1>5 DEF InitSql, SqlTypes
  <1>10. Alone
    BY <1>6, <1>7, <1>8 DEF Alone
  <1>11. QED
    BY <1>1, <1>5, <1>8, <1>9, <1>10 DEF InitSql, SqlInv

\* Steps that move no connection: the count of those about to pop is what changes.
LEMMA SqlStays ==
  ASSUME SqlInv, SqlTypes', UNCHANGED <<connQue_, dbClosed>>, ~dbClosed,
         Owned' = Owned, \A t \in Owned : sql'[t] = sql[t],
         semId_' + Cardinality(Popping') = semId_ + Cardinality(Popping)
  PROVE  SqlInv'
  <1>1. Alone /\ Len(connQue_) = semId_ + Cardinality(Popping) /\ InPool' = InPool
    BY DEF SqlInv, InPool
  <1>2. Alone'
    BY <1>1 DEF Alone
  <1>3. QED
    BY <1>1, <1>2 DEF SqlInv

LEMMA PopInv ==
  ASSUME SqlInv, NEW t \in Verifiers, Pop(t)
  PROVE  SqlInv'
  <1>1. /\ SqlTypes /\ step[t] = "pop" /\ connQue_ # <<>> /\ ~dbClosed
        /\ step' = [step EXCEPT ![t] = "free"]
        /\ sql' = [sql EXCEPT ![t] = {Head(connQue_)}]
        /\ connQue_' = Tail(connQue_) /\ UNCHANGED <<semId_, dbClosed>>
    BY DEF SqlInv, Pop, Steps
  <1>2. Alone /\ Len(connQue_) = semId_ + Cardinality(Popping)
    BY <1>1 DEF SqlInv
  <1>3. connQue_ \in Seq(Conns) /\ Injective(connQue_)
    BY <1>1, <1>2 DEF SqlTypes, Alone
  <1>4. /\ Tail(connQue_) \in Seq(Conns) /\ Len(connQue_) = Len(Tail(connQue_)) + 1
        /\ Head(connQue_) \in Conns /\ Len(Tail(connQue_)) \in Nat
        /\ Items(connQue_) = Items(Tail(connQue_)) \cup {Head(connQue_)}
        /\ Injective(Tail(connQue_)) /\ Head(connQue_) \notin Items(Tail(connQue_))
    BY <1>1, <1>3, ItemsTail
  <1>5. InPool = Items(connQue_) /\ InPool' = Items(Tail(connQue_))
    BY <1>1 DEF InPool, Items
  <1>6. SqlTypes'
    BY <1>1, <1>4 DEF SqlTypes
  <1>7. t \in Popping /\ Popping' = Popping \ {t} /\ t \notin Owned /\ Owned' = Owned \cup {t}
    BY <1>1 DEF SqlTypes, Popping, Owned
  <1>8. Cardinality(Popping') = Cardinality(Popping) - 1 /\ Cardinality(Popping) \in Nat
    BY <1>7, PoppingChanges
  <1>9. \A u \in Owned' : /\ u = t => sql'[u] = {Head(connQue_)}
                          /\ u # t => u \in Owned /\ sql'[u] = sql[u]
    BY <1>1, <1>7 DEF SqlTypes, Owned
  <1>10. Alone'
    <2>1. \A u \in Owned' : \E c \in Conns \ InPool' : sql'[u] = {c}
      BY <1>2, <1>4, <1>5, <1>9 DEF Alone
    <2>2. \A u, v \in Owned' : u # v => sql'[u] \cap sql'[v] = {}
      <3>1. \A u \in Owned : Head(connQue_) \notin sql[u]
        BY <1>2, <1>4, <1>5 DEF Alone
      <3>2. QED
        BY <1>2, <1>9, <3>1 DEF Alone
    <2>3. InPool' \cup (UNION {sql'[u] : u \in Owned'}) = Conns
      <3>1. UNION {sql'[u] : u \in Owned'} = (UNION {sql[u] : u \in Owned}) \cup {Head(connQue_)}
        BY <1>7, <1>9
      <3>2. InPool \cup (UNION {sql[u] : u \in Owned}) = Conns
        BY <1>2 DEF Alone
      <3>3. QED
        BY <1>4, <1>5, <3>1, <3>2
    <2>4. QED
      BY <1>1, <1>4, <2>1, <2>2, <2>3 DEF Alone
  <1>11. Len(connQue_') = semId_' + Cardinality(Popping')
    BY <1>1, <1>2, <1>4, <1>8 DEF SqlTypes
  <1>12. QED
    BY <1>1, <1>6, <1>10, <1>11 DEF SqlInv

LEMMA FreeConnInv ==
  ASSUME SqlInv, NEW t \in Verifiers, FreeConn(t)
  PROVE  SqlInv'
  <1>1. /\ SqlTypes /\ step[t] = "free" /\ ~dbClosed
        /\ step' = [step EXCEPT ![t] = "query"]
        /\ connQue_' = Append(connQue_, CHOOSE c \in sql[t] : TRUE)
        /\ semId_' = semId_ + 1 /\ UNCHANGED <<sql, dbClosed>>
    BY DEF SqlInv, FreeConn, Steps
  <1>2. Alone /\ Len(connQue_) = semId_ + Cardinality(Popping)
    BY <1>1 DEF SqlInv
  <1>3. t \in Owned /\ Owned' = Owned \ {t} /\ Popping' = Popping
    BY <1>1 DEF SqlTypes, Popping, Owned
  <1>4. PICK c \in Conns \ InPool : sql[t] = {c}
    BY <1>2, <1>3 DEF Alone
  <1>5. connQue_' = Append(connQue_, c)
    BY <1>1, <1>4
  <1>6. connQue_ \in Seq(Conns) /\ Injective(connQue_) /\ InPool = Items(connQue_)
        /\ Len(connQue_) \in Nat
    BY <1>1, <1>2 DEF SqlTypes, Alone, InPool, Items
  <1>7. /\ Append(connQue_, c) \in Seq(Conns) /\ Len(Append(connQue_, c)) = Len(connQue_) + 1
        /\ Items(Append(connQue_, c)) = Items(connQue_) \cup {c}
        /\ Injective(Append(connQue_, c))
    BY <1>4, <1>6, ItemsAppend
  <1>8. InPool' = InPool \cup {c}
    BY <1>5, <1>6, <1>7 DEF InPool, Items
  <1>9. SqlTypes'
    <2>1. step' \in [Verifiers -> {"idle", "sem", "pop", "free", "query", "answer", "null"}]
      BY <1>1 DEF SqlTypes
    <2>2. semId_' \in Nat
      BY <1>1 DEF SqlTypes
    <2>3. connQue_' \in Seq(Conns)
      BY <1>5, <1>7
    <2>4. QED
      BY <1>1, <2>1, <2>2, <2>3 DEF SqlTypes
  <1>10. Alone'
    <2>1. \A u \in Owned' : \E d \in Conns \ InPool' : sql'[u] = {d}
      BY <1>1, <1>2, <1>3, <1>4, <1>8 DEF Alone
    <2>2. \A u, v \in Owned' : u # v => sql'[u] \cap sql'[v] = {}
      BY <1>1, <1>2, <1>3 DEF Alone
    <2>3. InPool' \cup (UNION {sql'[u] : u \in Owned'}) = Conns
      BY <1>1, <1>2, <1>3, <1>4, <1>8 DEF Alone
    <2>4. QED
      BY <1>5, <1>7, <2>1, <2>2, <2>3 DEF Alone
  <1>11. Len(connQue_') = semId_' + Cardinality(Popping')
    BY <1>1, <1>2, <1>3, <1>5, <1>7, PoppingChanges DEF SqlTypes
  <1>12. QED
    BY <1>1, <1>9, <1>10, <1>11 DEF SqlInv

LEMMA NextSqlInv == SqlInv /\ [NextSql]_sqlVars => SqlInv'
  <1> SUFFICES ASSUME SqlInv, [NextSql]_sqlVars PROVE SqlInv'
    OBVIOUS
  <1>1. SqlTypes
    BY DEF SqlInv
  <1>2. ASSUME NEW t \in Verifiers, GetConn(t) \/ Query(t)
        PROVE  SqlInv'
    <2>1. /\ UNCHANGED <<connQue_, semId_, dbClosed>> /\ ~dbClosed
          /\ \/ step[t] \in {"idle", "query"} /\ sql' = sql
             \/ step[t] = "answer" /\ sql' = [sql EXCEPT ![t] = {}]
          /\ \E to \in {"sem", "null", "answer", "idle"} : step' = [step EXCEPT ![t] = to]
      BY <1>2 DEF SqlInv, GetConn, Query, Steps
    <2>2. /\ SqlTypes' /\ Owned' = Owned /\ Popping' = Popping
          /\ \A u \in Owned : sql'[u] = sql[u]
      BY <1>1, <2>1 DEF SqlTypes, Owned, Popping
    <2>3. QED
      BY <2>1, <2>2, SqlStays
  <1>3. ASSUME NEW t \in Verifiers, sem_wait(t)
        PROVE  SqlInv'
    <2>1. /\ UNCHANGED <<connQue_, dbClosed, sql>> /\ ~dbClosed
          /\ semId_ > 0 /\ semId_' = semId_ - 1
          /\ step[t] = "sem" /\ step' = [step EXCEPT ![t] = "pop"]
      BY <1>3 DEF SqlInv, sem_wait, Steps
    <2>2. SqlTypes'
      BY <1>1, <2>1 DEF SqlTypes
    <2>3. Owned' = Owned /\ t \notin Popping /\ Popping' = Popping \cup {t}
      BY <1>1, <2>1 DEF SqlTypes, Owned, Popping
    <2>4. semId_' + Cardinality(Popping') = semId_ + Cardinality(Popping)
      <3>1. Cardinality(Popping') = Cardinality(Popping) + 1 /\ Cardinality(Popping) \in Nat
        BY <1>1, <2>1, <2>3, PoppingChanges DEF SqlTypes
      <3>2. QED
        BY <1>1, <2>1, <3>1 DEF SqlTypes
    <2>5. QED
      BY <2>1, <2>2, <2>3, <2>4, SqlStays
  <1>4. CASE ClosePool
    <2>1. connQue_' = <<>> /\ dbClosed' = TRUE /\ UNCHANGED <<semId_, step, sql>>
          /\ \A t \in Verifiers : step[t] = "idle"
      BY <1>4 DEF ClosePool
    <2>2. connQue_' \in Seq(Conns)
      BY <2>1
    <2>3. QED
      BY <1>1, <2>1, <2>2 DEF SqlInv, SqlTypes
  <1>5. CASE UNCHANGED sqlVars
    BY <1>5 DEF sqlVars, SqlInv, SqlTypes, Alone, Owned, InPool, Popping
  <1>6. QED
    BY <1>2, <1>3, <1>4, <1>5, PopInv, FreeConnInv DEF NextSql, Verify

\* A thread past the semaphore finds a connection, and no connection is lost or in
\* the pool twice, for any connections and threads (GetConn, FreeConn).
THEOREM SemaphoreCountsPool == SpecSql => []PoolWhole
  <1>1. SpecSql => []SqlInv
    BY InitSqlInv, NextSqlInv, PTL DEF SpecSql
  <1>2. SqlInv => PoolWhole
    <2> SUFFICES ASSUME SqlInv, ~dbClosed PROVE PoolWhole
      BY DEF PoolWhole
    <2>1. Alone /\ Len(connQue_) = semId_ + Cardinality(Popping) /\ connQue_ \in Seq(Conns)
      BY DEF SqlInv, SqlTypes
    <2>2. Cardinality(InPool) = Len(connQue_)
      <3>1. /\ Len(connQue_) \in Nat /\ DOMAIN connQue_ = 1..Len(connQue_)
            /\ connQue_ \in [1..Len(connQue_) -> Conns]
        BY <2>1
      <3>2. IsFiniteSet(1..Len(connQue_)) /\ Cardinality(1..Len(connQue_)) = Len(connQue_)
        BY <3>1, FS_Interval
      <3>3. connQue_ \in Bijection(1..Len(connQue_), InPool)
        BY <2>1, <3>1
        DEF Alone, InPool, Injective, Bijection, Injection, Surjection, IsInjective
      <3>4. QED
        BY <3>2, <3>3, FS_Bijection DEF ExistsBijection
    <2>3. QED
      BY <2>1, <2>2 DEF PoolWhole, Popping, Alone
  <1>3. QED
    BY <1>1, <1>2, PTL

\* A thread past the semaphore finds a connection, a thread that waits at it waits
\* for one that another thread is about to take or to give back, and the
\* connections taken and not yet given back are each one thread's.
Served ==
  ~dbClosed =>
    /\ Popping # {} => connQue_ # <<>>
    /\ semId_ = 0 /\ Conns # {} => Popping \cup Owned # {}
    /\ \A t, u \in Owned : t # u => sql[t] \cap sql[u] = {}

\* Nobody waits at the semaphore for a connection that no thread has, nor pops the
\* empty queue, and a connection has one holder from pop to FreeConn (GetConn,
\* FreeConn; OneUserPerConnection asks it until the end of UserVerify).
THEOREM ConnectionsComeBack == SpecSql => []Served
  <1>1. SpecSql => []SqlInv
    BY InitSqlInv, NextSqlInv, PTL DEF SpecSql
  <1>2. SqlInv => Served
    <2> SUFFICES ASSUME SqlInv, ~dbClosed PROVE Served
      BY DEF Served
    <2>1. Alone /\ Len(connQue_) = semId_ + Cardinality(Popping)
          /\ connQue_ \in Seq(Conns) /\ semId_ \in Nat
      BY DEF SqlInv, SqlTypes
    <2>2. IsFiniteSet(Popping) /\ Cardinality(Popping) \in Nat
      <3>1. Popping \in SUBSET Verifiers
        BY DEF Popping
      <3>2. QED
        BY <3>1, PoolAssumption, FS_Subset, FS_CardinalityType
    <2>3. Popping # {} => Cardinality(Popping) > 0
      BY <2>2, FS_EmptySet
    <2>4. Popping # {} => connQue_ # <<>>
      BY <2>1, <2>2, <2>3
    <2>5. ASSUME semId_ = 0, Conns # {}, Popping = {}
          PROVE  Owned # {}
      <3>1. Cardinality(Popping) = 0
        BY <2>5, FS_EmptySet
      <3>2. Len(connQue_) = 0
        BY <2>1, <2>5, <3>1
      <3>3. InPool = {}
        BY <2>1, <3>2 DEF InPool
      <3>4. QED
        BY <2>1, <2>5, <3>3 DEF Alone
    <2>6. QED
      BY <2>1, <2>4, <2>5 DEF Served, Alone
  <1>3. QED
    BY <1>1, <1>2, PTL

-------------------------------------------------------------------------------
(* The pool of 2_ThreadPool: where every task is, and who looks after it.    *)

Running == {w \in Workers : workers[w] = "task"}

PoolTypes ==
  /\ workers \in [Workers -> {"check", "wait", "task", "ended"}]
  /\ tasks \in Nat /\ ran \in Nat /\ stop \in BOOLEAN
  /\ caller \in [at : {"idle", "notify", "notifyAll", "join", "done"}, made : Nat]

\* A worker ends on an empty queue, which nobody fills any more.
EndedOK ==
  /\ stop <=> caller.at \in {"notifyAll", "join", "done"}
  /\ \A w \in Workers : workers[w] = "ended" => stop /\ tasks = 0
  /\ caller.at = "done" => \A w \in Workers : workers[w] = "ended"

\* A task is in the queue, with a worker, or done.
TasksKept == caller.made = tasks + Cardinality(Running) + ran

\* No worker sleeps past notify_all, and a queued task has a worker that will
\* look at the queue again, or else the caller is about to wake one.
PoolAwake ==
  /\ caller.at \in {"join", "done"} => Waiting = {}
  /\ tasks > 0 /\ caller.at # "notify" => \E w \in Workers : workers[w] \in {"check", "task"}

PoolInv == PoolTypes /\ EndedOK /\ TasksKept /\ (Workers # {} => PoolAwake)

LEMMA RunningChanges ==
  ASSUME NEW w \in Workers
  PROVE  /\ Cardinality(Running) \in Nat
         /\ w \notin Running /\ Running' = Running \cup {w}
              => Cardinality(Running') = Cardinality(Running) + 1
         /\ w \in Running /\ Running' = Running \ {w}
              => Cardinality(Running') = Cardinality(Running) - 1
  <1>1. Running \in SUBSET Workers
    BY DEF Running
  <1>2. IsFiniteSet(Running)
    BY <1>1, WorkersAssumption, FS_Subset
  <1>3. Cardinality(Running) \in Nat
    BY <1>2, FS_CardinalityType
  <1>4. w \notin Running => Cardinality(Running \cup {w}) = Cardinality(Running) + 1
    BY <1>2, FS_AddElement
  <1>5. w \in Running => Cardinality(Running \ {w}) = Cardinality(Running) - 1
    BY <1>2, FS_RemoveElement
  <1>6. QED
    BY <1>3, <1>4, <1>5

LEMMA InitPoolInv == InitPool => PoolInv
  <1> SUFFICES ASSUME InitPool PROVE PoolInv
    OBVIOUS
  <1>1. Running = {} /\ Cardinality(Running) = 0
    BY FS_EmptySet DEF InitPool, Running
  <1>2. PoolTypes
    BY DEF InitPool, PoolTypes
  <1>3. EndedOK /\ PoolAwake
    BY DEF InitPool, EndedOK, PoolAwake
  <1>4. TasksKept
    BY <1>1 DEF InitPool, TasksKept
  <1>5. QED
    BY <1>2, <1>3, <1>4 DEF PoolInv

\* A worker takes a task, waits or ends, under the mutex.
LEMMA TakeTaskInv ==
  ASSUME PoolInv, NEW w \in Workers, TakeTask(w)
  PROVE  PoolInv'
  <1>1. PoolTypes /\ EndedOK /\ TasksKept /\ (Workers # {} => PoolAwake)
    BY DEF PoolInv
  <1>2. workers[w] = "check" /\ UNCHANGED <<stop, ran, caller>>
    BY DEF TakeTask, Worker
  <1>3. CASE tasks > 0 /\ tasks' = tasks - 1 /\ workers' = [workers EXCEPT ![w] = "task"]
    <2>1. PoolTypes'
      BY <1>1, <1>2, <1>3 DEF PoolTypes
    <2>2. EndedOK'
      BY <1>1, <1>2, <1>3 DEF PoolTypes, EndedOK
    <2>3. w \notin Running /\ Running' = Running \cup {w}
      BY <1>1, <1>2, <1>3 DEF PoolTypes, Running
    <2>4. Cardinality(Running) \in Nat /\ Cardinality(Running') = Cardinality(Running) + 1
      BY <2>3, RunningChanges
    <2>5. TasksKept'
      BY <1>1, <1>2, <1>3, <2>4 DEF PoolTypes, TasksKept
    <2>6. workers'[w] = "task" /\ Waiting' = Waiting
      BY <1>1, <1>2, <1>3 DEF PoolTypes, Waiting
    <2>7. PoolAwake'
      BY <1>1, <1>2, <2>6 DEF PoolAwake
    <2>8. QED
      BY <2>1, <2>2, <2>5, <2>7 DEF PoolInv
  <1>4. CASE /\ tasks = 0 /\ tasks' = tasks
             /\ \/ ~stop /\ workers' = [workers EXCEPT ![w] = "wait"]
                \/ stop /\ workers' = [workers EXCEPT ![w] = "ended"]
    <2>1. PoolTypes'
      BY <1>1, <1>2, <1>4 DEF PoolTypes
    <2>2. EndedOK'
      BY <1>1, <1>2, <1>4 DEF PoolTypes, EndedOK
    <2>3. Running' = Running
      BY <1>1, <1>2, <1>4 DEF PoolTypes, Running
    <2>4. TasksKept'
      BY <1>1, <1>2, <1>4, <2>3 DEF TasksKept
    <2>5. stop => Waiting' = Waiting
      BY <1>1, <1>2, <1>4 DEF PoolTypes, Waiting
    <2>6. PoolAwake'
      BY <1>1, <1>2, <1>4, <2>5 DEF EndedOK, PoolAwake
    <2>7. QED
      BY <2>1, <2>2, <2>4, <2>6 DEF PoolInv
  <1>5. QED
    BY <1>3, <1>4 DEF TakeTask, Worker

LEMMA RunInv ==
  ASSUME PoolInv, NEW w \in Workers, Run(w)
  PROVE  PoolInv'
  <1>1. PoolTypes /\ EndedOK /\ TasksKept /\ (Workers # {} => PoolAwake)
    BY DEF PoolInv
  <1>2. /\ workers[w] = "task" /\ workers' = [workers EXCEPT ![w] = "check"]
        /\ ran' = ran + 1 /\ UNCHANGED <<tasks, stop, caller>>
    BY DEF Run, Worker
  <1>3. PoolTypes'
    BY <1>1, <1>2 DEF PoolTypes
  <1>4. EndedOK'
    BY <1>1, <1>2 DEF PoolTypes, EndedOK
  <1>5. w \in Running /\ Running' = Running \ {w}
    BY <1>1, <1>2 DEF PoolTypes, Running
  <1>6. Cardinality(Running) \in Nat /\ Cardinality(Running') = Cardinality(Running) - 1
    BY <1>5, RunningChanges
  <1>7. TasksKept'
    BY <1>1, <1>2, <1>6 DEF PoolTypes, TasksKept
  <1>8. workers'[w] = "check" /\ Waiting' = Waiting
    BY <1>1, <1>2 DEF PoolTypes, Waiting
  <1>9. PoolAwake'
    BY <1>1, <1>2, <1>8 DEF PoolAwake
  <1>10. QED
    BY <1>3, <1>4, <1>7, <1>9 DEF PoolInv

\* The steps of the caller: those it wakes were waiting, and look again.
LEMMA CallerInv ==
  ASSUME PoolInv, enqueue \/ Caller
  PROVE  PoolInv'
  <1>1. PoolTypes /\ EndedOK /\ TasksKept /\ (Workers # {} => PoolAwake)
    BY DEF PoolInv
  <1>2. CASE enqueue
    <2>1. /\ caller.at = "idle" /\ ~stop /\ tasks' = tasks + 1
          /\ caller' = [at |-> "notify", made |-> caller.made + 1]
          /\ UNCHANGED <<workers, stop, ran>>
      BY <1>2 DEF enqueue
    <2>2. PoolTypes'
      BY <1>1, <2>1 DEF PoolTypes
    <2>3. EndedOK'
      BY <1>1, <2>1 DEF EndedOK
    <2>4. Running' = Running /\ Cardinality(Running) \in Nat
      <3>1. Running \in SUBSET Workers
        BY DEF Running
      <3>2. QED
        BY <2>1, <3>1, WorkersAssumption, FS_Subset, FS_CardinalityType DEF Running
    <2>5. TasksKept'
      BY <1>1, <2>1, <2>4 DEF PoolTypes, TasksKept
    <2>6. PoolAwake'
      BY <2>1 DEF PoolAwake
    <2>7. QED
      BY <2>2, <2>3, <2>5, <2>6 DEF PoolInv
  <1>3. CASE SetStop \/ join
    <2>1. /\ UNCHANGED <<workers, tasks, ran>>
          /\ \/ caller.at = "idle" /\ caller' = [caller EXCEPT !.at = "notifyAll"] /\ stop'
             \/ /\ caller.at = "join" /\ \A w \in Workers : workers[w] = "ended"
                /\ caller' = [caller EXCEPT !.at = "done"] /\ stop' = stop
      BY <1>3 DEF SetStop, join
    <2>2. PoolTypes'
      BY <1>1, <1>3, <2>1 DEF PoolTypes, SetStop, join
    <2>3. /\ caller'.made = caller.made
          /\ \/ caller.at = "idle" /\ caller'.at = "notifyAll" /\ stop'
             \/ caller.at = "join" /\ caller'.at = "done" /\ stop' = stop
      BY <1>1, <2>1 DEF PoolTypes
    <2>4. EndedOK'
      BY <1>1, <2>1, <2>3 DEF EndedOK
    <2>5. Running' = Running /\ Waiting' = Waiting
      BY <2>1 DEF Running, Waiting
    <2>6. TasksKept'
      BY <1>1, <2>1, <2>3, <2>5 DEF TasksKept
    <2>7. Workers # {} => PoolAwake'
      BY <1>1, <2>1, <2>3, <2>5 DEF PoolAwake
    <2>8. QED
      BY <2>2, <2>4, <2>6, <2>7 DEF PoolInv
  <1>4. CASE notify_one \/ notify_all
    <2>1. /\ UNCHANGED <<tasks, stop, ran>> /\ caller'.made = caller.made
          /\ \/ caller.at = "notify" /\ caller' = [caller EXCEPT !.at = "idle"]
             \/ caller.at = "notifyAll" /\ caller' = [caller EXCEPT !.at = "join"]
      BY <1>1, <1>4 DEF PoolTypes, notify_one, notify_all
    <2>2. /\ workers' \in [Workers -> {"check", "wait", "task", "ended"}]
          /\ \A w \in Workers : workers'[w] = workers[w]
                                \/ (workers[w] = "wait" /\ workers'[w] = "check")
      BY <1>1, <1>4 DEF PoolTypes, notify_one, notify_all, Waiting
    <2>3. PoolTypes'
      BY <1>1, <2>1, <2>2 DEF PoolTypes
    <2>4. \/ caller.at = "notify" /\ caller'.at = "idle"
          \/ caller.at = "notifyAll" /\ caller'.at = "join"
      BY <1>1, <2>1 DEF PoolTypes
    <2>5. EndedOK'
      BY <1>1, <2>1, <2>2, <2>4 DEF EndedOK
    <2>6. Running' = Running
      BY <2>2 DEF Running
    <2>7. TasksKept'
      BY <1>1, <2>1, <2>6 DEF TasksKept
    <2>8. caller.at = "notifyAll" => Waiting' = {}
      BY <1>1, <1>4 DEF PoolTypes, notify_one, notify_all, Waiting
    <2>9. ASSUME tasks > 0, NEW v \in Workers
          PROVE  \E w \in Workers : workers'[w] \in {"check", "task"}
      <3>1. CASE caller.at = "notify"
        <4>1. CASE Waiting = {}
          <5>1. workers[v] \in {"check", "task"}
            BY <1>1, <2>9, <4>1 DEF PoolTypes, EndedOK, Waiting
          <5>2. QED
            BY <2>2, <5>1
        <4>2. CASE Waiting # {}
          BY <1>1, <1>4, <3>1, <4>2 DEF PoolTypes, notify_one, notify_all, Waiting
        <4>3. QED
          BY <4>1, <4>2
      <3>2. CASE caller.at # "notify"
        BY <1>1, <2>2, <2>9, <3>2 DEF PoolAwake
      <3>3. QED
        BY <3>1, <3>2
    <2>10. Workers # {} => PoolAwake'
      BY <2>1, <2>4, <2>8, <2>9 DEF PoolAwake
    <2>11. QED
      BY <2>3, <2>5, <2>7, <2>10 DEF PoolInv
  <1>5. QED
    BY <1>2, <1>3, <1>4 DEF Caller

LEMMA PoolInvHolds == SpecPool => []PoolInv
  <1>1. PoolInv /\ [NextPool]_poolVars => PoolInv'
    <2> SUFFICES ASSUME PoolInv, [NextPool]_poolVars PROVE PoolInv'
      OBVIOUS
    <2>1. CASE UNCHANGED poolVars
      BY <2>1 DEF poolVars, PoolInv, PoolTypes, EndedOK, TasksKept, PoolAwake, Running, Waiting
    <2>2. QED
      BY <2>1, TakeTaskInv, RunInv, CallerInv DEF NextPool, WorkerStep
  <1>2. QED
    BY <1>1, InitPoolInv, PTL DEF SpecPool

\* No worker of a pool that has some misses the notification it needs: none waits
\* once ~ThreadPool has notified all, and a queued task is never left to workers
\* that all wait (enqueue, ~ThreadPool against the loop of the workers).
THEOREM NobodyMissesANotification == ASSUME Workers # {} PROVE SpecPool => []PoolAwake
  <1>1. PoolInv => PoolAwake
    BY DEF PoolInv
  <1>2. QED
    BY <1>1, PoolInvHolds, PTL

\* What has run when the destructor returns.
AllRan == caller.at = "done" => ran = caller.made

\* When ~ThreadPool returns, every task that was enqueued has run: a worker ends
\* on an empty queue only, and the joins wait for the tasks that were taken.
THEOREM TasksAllRun == ASSUME Workers # {} PROVE SpecPool => []AllRan
  <1>1. PoolInv => AllRan
    <2> SUFFICES ASSUME PoolInv, caller.at = "done" PROVE ran = caller.made
      BY DEF AllRan
    <2>1. /\ PoolTypes /\ TasksKept /\ tasks = 0
          /\ \A w \in Workers : workers[w] = "ended"
      BY DEF PoolInv, EndedOK
    <2>2. Running = {} /\ Cardinality(Running) = 0
      BY <2>1, FS_EmptySet DEF Running
    <2>3. QED
      BY <2>1, <2>2 DEF PoolTypes, TasksKept
  <1>2. QED
    BY <1>1, PoolInvHolds, PTL

-------------------------------------------------------------------------------
(* The transcoder: where every packet of a stream is.                        *)

Places == {"take", "block", "wait", "tell", "push", "full", "notify", "ended"}
Coders == [Streams -> [1..2 -> Places]]
Queues == [Streams -> [0..2 -> Nat]]
Insides == [Streams -> [1..2 -> Nat]]
Flags == [Streams -> [0..2 -> BOOLEAN]]
Readers == [at : {"read", "videoCV", "audio", "audioCV", "ended"}, left : [Streams -> Nat]]
\* Where the writer is before its loop, in it, and after it.
Muxes == [at : {"empty", "flag", "skipped", "lock", "block", "wait", "woken", "ended"},
          of : Streams, wrote : [Streams -> Nat]]

MediaTypes == /\ queue \in Queues /\ done \in Flags /\ coder \in Coders
              /\ inside \in Insides /\ reader \in Readers /\ mux \in Muxes

\* A coder here has an output in its hands; or it has set its flag.
Loaded(p) == p \in {"push", "full"}
Gone(p) == p \in {"notify", "ended"}

\* Every packet of the stream is in one place.
Conserved(s) ==
  reader.left[s] + queue[s][0] + inside[s][1] + queue[s][1] + inside[s][2]
    + queue[s][2] + mux.wrote[s] = NumPackets[s]

Filled(s) == /\ Loaded(coder[s][1]) => inside[s][1] > 0
             /\ Loaded(coder[s][2]) => inside[s][2] > 0

\* A flag is set by who has nothing more to give.
Honest(s) ==
  /\ done[s][0] => reader.left[s] = 0
  /\ done[s][1] <=> Gone(coder[s][1])
  /\ done[s][2] <=> Gone(coder[s][2])
  /\ Gone(coder[s][1]) => done[s][0] /\ queue[s][0] = 0
  /\ Gone(coder[s][2]) => done[s][1] /\ queue[s][1] = 0 /\ inside[s][2] = 0

Sound(s) == Conserved(s) /\ Filled(s) /\ Honest(s)

\* No packet of the stream will come any more.
Over(s) == done[s][2] /\ queue[s][2] = 0

\* What the writer has found out when it leaves its loop, or never enters it.
Closed(s) ==
  /\ mux.at = "ended" => Over(s)
  /\ mux.at = "skipped" => done[s][2]
  /\ mux.at \in {"empty", "flag"} /\ mux.of = "audio" => done["video"][2]

MediaInv == /\ MediaTypes
            /\ \A s \in Streams : Sound(s) /\ Closed(s)

\* The table of the file, and the two streams.
LEMMA FileTypes == /\ NumPackets \in [Streams -> Nat]
                   /\ "video" \in Streams /\ "audio" \in Streams
  BY FileAssumption DEF Streams

\* A notification changes nothing of what is counted.
LEMMA WokenKeeps ==
  ASSUME NEW s \in Streams, NEW n \in 0..2, NEW co \in Coders
  PROVE  /\ Woken(s, n, co) \in Coders
         /\ \A r \in Streams, j \in 1..2 :
              /\ Loaded(Woken(s, n, co)[r][j]) <=> Loaded(co[r][j])
              /\ Gone(Woken(s, n, co)[r][j]) <=> Gone(co[r][j])
  <1> DEFINE row == [j \in 1..2 |-> CASE co[s][j] = "wait" /\ j = n + 1 -> "take"
                                      [] co[s][j] = "full" /\ j = n -> "push"
                                      [] OTHER -> co[s][j]]
  <1>1. Woken(s, n, co) = [co EXCEPT ![s] = row]
    BY DEF Woken
  <1>2. \A j \in 1..2 : /\ row[j] \in Places
                        /\ Loaded(row[j]) <=> Loaded(co[s][j])
                        /\ Gone(row[j]) <=> Gone(co[s][j])
    BY DEF Coders, Places, Loaded, Gone
  <1>3. row \in [1..2 -> Places]
    BY <1>2
  <1> HIDE DEF row
  <1>4. QED
    BY <1>1, <1>2, <1>3 DEF Coders

Moved(co, s, k, to) == [co EXCEPT ![s][k] = to]

\* One coder moves, with or without a notification.
LEMMA CoderMovesTo ==
  ASSUME NEW s \in Streams, NEW k \in 1..2, NEW to \in Places, NEW co \in Coders,
         NEW new,
         \/ new = Moved(co, s, k, to)
         \/ \E n \in 0..2 : new = Woken(s, n, Moved(co, s, k, to))
  PROVE  /\ new \in Coders
         /\ Loaded(new[s][k]) <=> Loaded(to)
         /\ Gone(new[s][k]) <=> Gone(to)
         /\ \A r \in Streams, j \in 1..2 : (r # s \/ j # k) =>
              /\ Loaded(new[r][j]) <=> Loaded(co[r][j])
              /\ Gone(new[r][j]) <=> Gone(co[r][j])
  <1> DEFINE moved == Moved(co, s, k, to)
  <1>1. moved \in Coders
    BY DEF Coders, Moved
  <1>2. /\ moved[s][k] = to
        /\ \A r \in Streams, j \in 1..2 : (r # s \/ j # k) => moved[r][j] = co[r][j]
    BY DEF Coders, Moved
  <1> HIDE DEF moved
  <1>3. /\ new \in Coders
        /\ \A r \in Streams, j \in 1..2 : /\ Loaded(new[r][j]) <=> Loaded(moved[r][j])
                                          /\ Gone(new[r][j]) <=> Gone(moved[r][j])
    <2>1. CASE new = moved
      BY <1>1, <2>1
    <2>2. CASE \E n \in 0..2 : new = Woken(s, n, moved)
      BY <1>1, <2>2, WokenKeeps
    <2>3. QED
      BY <2>1, <2>2 DEF moved
  <1>4. QED
    BY <1>2, <1>3

LEMMA InitMediaInv == InitMedia => MediaInv
  <1> SUFFICES ASSUME InitMedia PROVE MediaInv
    OBVIOUS
  <1>1. MediaTypes
    <2>1. queue \in Queues /\ done \in Flags /\ coder \in Coders /\ inside \in Insides
      BY DEF InitMedia, Queues, Flags, Coders, Insides, Places
    <2>2. reader \in Readers /\ mux \in Muxes
      BY FileTypes DEF InitMedia, Readers, Muxes
    <2>3. QED
      BY <2>1, <2>2 DEF MediaTypes
  <1>2. ASSUME NEW s \in Streams
        PROVE  Sound(s) /\ Closed(s)
    <2>1. /\ queue[s][0] = 0 /\ queue[s][1] = 0 /\ queue[s][2] = 0
          /\ ~done[s][0] /\ ~done[s][1] /\ ~done[s][2]
          /\ coder[s][1] = "take" /\ coder[s][2] = "take"
          /\ inside[s][1] = 0 /\ inside[s][2] = 0
          /\ reader.left = NumPackets /\ mux.wrote[s] = 0
          /\ mux.at = "empty" /\ mux.of = "video"
      BY DEF InitMedia
    <2>2. ~Loaded("take") /\ ~Gone("take")
      BY DEF Loaded, Gone
    <2>3. NumPackets[s] \in Nat
      BY <2>1, FileTypes
    <2>4. Conserved(s)
      BY <2>1, <2>3 DEF Conserved
    <2>5. Filled(s) /\ Honest(s)
      BY <2>1, <2>2 DEF Filled, Honest
    <2>6. Closed(s)
      BY <2>1 DEF Closed
    <2>7. QED
      BY <2>4, <2>5, <2>6 DEF Sound
  <1>3. QED
    BY <1>1, <1>2 DEF MediaInv

\* What a step of another thread leaves of the writer.
MuxKeeps ==
  /\ mux'.wrote = mux.wrote /\ mux'.of = mux.of
  /\ mux'.at \in {"empty", "flag", "skipped", "ended"} => mux'.at = mux.at

\* Where a step leaves Sound alone, nobody takes back that a stream is over.
LEMMA MuxStays ==
  ASSUME MediaInv, MediaTypes', MuxKeeps,
         \A s \in Streams : Sound(s)' /\ (done[s][2] => done'[s][2]) /\ (Over(s) => Over(s)')
  PROVE  MediaInv'
  <1>1. ASSUME NEW s \in Streams PROVE Closed(s)'
    <2>1. Closed(s) /\ (done["video"][2] => done'["video"][2])
      BY FileTypes DEF MediaInv
    <2>2. (mux'.at = "ended" => Over(s)') /\ (mux'.at = "skipped" => done'[s][2])
      BY <2>1 DEF MuxKeeps, Closed
    <2>3. mux'.at \in {"empty", "flag"} /\ mux'.of = "audio" => done'["video"][2]
      BY <2>1 DEF MuxKeeps, Closed
    <2>4. QED
      BY <2>2, <2>3 DEF Closed
  <1>2. QED
    BY <1>1 DEF MediaInv

LEMMA MuxWokenKeeps ==
  ASSUME MediaTypes, NEW s \in Streams, NEW k \in 1..2, mux' = MuxWoken(s, k)
  PROVE  mux' \in Muxes /\ MuxKeeps
  BY DEF MuxWoken, MediaTypes, Muxes, MuxKeeps

LEMMA MuxSame ==
  ASSUME MediaTypes, mux' = mux
  PROVE  mux' \in Muxes /\ MuxKeeps
  BY DEF MediaTypes, MuxKeeps

\* The numbers of a stream.
LEMMA MediaNumbers ==
  ASSUME MediaTypes, NEW s \in Streams
  PROVE  /\ reader.left[s] \in Nat /\ mux.wrote[s] \in Nat
         /\ queue[s][0] \in Nat /\ queue[s][1] \in Nat /\ queue[s][2] \in Nat
         /\ inside[s][1] \in Nat /\ inside[s][2] \in Nat
  BY DEF MediaTypes, Queues, Insides, Readers, Muxes

LEMMA ReaderInv ==
  ASSUME MediaInv, NEW s \in Streams,
         \/ Read(s)
         \/ \E a, n \in {"read", "videoCV", "audio", "audioCV", "ended"} : ReadEnds(s, a, n)
  PROVE  MediaInv'
  <1>1. MediaTypes
    BY DEF MediaInv
  <1>2. CASE Read(s)
    <2>1. /\ reader.left[s] > 0 /\ reader' = [reader EXCEPT !.left[s] = @ - 1]
          /\ queue' = [queue EXCEPT ![s][0] = @ + 1] /\ coder' = Woken(s, 0, coder)
          /\ UNCHANGED <<done, inside, mux>>
      BY <1>2 DEF Read
    <2>2. /\ coder' \in Coders
          /\ \A r \in Streams, j \in 1..2 : /\ Loaded(coder'[r][j]) <=> Loaded(coder[r][j])
                                            /\ Gone(coder'[r][j]) <=> Gone(coder[r][j])
      BY <1>1, <2>1, WokenKeeps DEF MediaTypes
    <2>3. /\ queue' \in Queues /\ queue'[s][0] = queue[s][0] + 1
          /\ queue'[s][1] = queue[s][1] /\ queue'[s][2] = queue[s][2]
          /\ \A r \in Streams \ {s} : queue'[r] = queue[r]
      BY <1>1, <2>1 DEF MediaTypes, Queues
    <2>4. /\ reader' \in Readers /\ reader'.left[s] = reader.left[s] - 1
          /\ \A r \in Streams \ {s} : reader'.left[r] = reader.left[r]
      BY <1>1, <2>1 DEF MediaTypes, Readers
    <2>5. MediaTypes'
      BY <1>1, <2>1, <2>2, <2>3, <2>4 DEF MediaTypes
    <2>6. ASSUME NEW r \in Streams
          PROVE  Sound(r)' /\ (done[r][2] => done'[r][2]) /\ (Over(r) => Over(r)')
      <3>1. Conserved(r) /\ Filled(r) /\ Honest(r)
        BY DEF MediaInv, Sound
      <3>2. /\ Loaded(coder'[r][1]) <=> Loaded(coder[r][1])
            /\ Loaded(coder'[r][2]) <=> Loaded(coder[r][2])
            /\ Gone(coder'[r][1]) <=> Gone(coder[r][1])
            /\ Gone(coder'[r][2]) <=> Gone(coder[r][2])
        BY <2>2
      <3>3. Conserved(r)'
        <4>1. CASE r = s
          BY <1>1, <2>1, <2>3, <2>4, <3>1, <4>1, MediaNumbers DEF Conserved
        <4>2. CASE r # s
          BY <2>1, <2>3, <2>4, <3>1, <4>2 DEF Conserved
        <4>3. QED
          BY <4>1, <4>2
      <3>4. Filled(r)'
        BY <2>1, <3>1, <3>2 DEF Filled
      <3>5. Honest(r)'
        <4>1. CASE r = s
          BY <2>1, <2>3, <3>1, <3>2, <4>1 DEF Honest
        <4>2. CASE r # s
          BY <2>1, <2>3, <2>4, <3>1, <3>2, <4>2 DEF Honest
        <4>3. QED
          BY <4>1, <4>2
      <3>6. Over(r) => Over(r)'
        BY <2>1, <2>3 DEF Over
      <3>7. QED
        BY <2>1, <3>3, <3>4, <3>5, <3>6 DEF Sound
    <2>7. QED
      BY <1>1, <2>1, <2>5, <2>6, MuxStays, MuxSame
  <1>3. ASSUME NEW a \in {"read", "videoCV", "audio", "audioCV", "ended"},
               NEW n \in {"read", "videoCV", "audio", "audioCV", "ended"}, ReadEnds(s, a, n)
        PROVE  MediaInv'
    <2>1. /\ \A r \in Streams : reader.left[r] = 0
          /\ reader' = [reader EXCEPT !.at = n] /\ UNCHANGED <<queue, inside, mux>>
          /\ \/ done' = [done EXCEPT ![s][0] = TRUE] /\ UNCHANGED coder
             \/ coder' = Woken(s, 0, coder) /\ UNCHANGED done
      BY <1>3 DEF ReadEnds
    <2>2. /\ coder' \in Coders
          /\ \A r \in Streams, j \in 1..2 : /\ Loaded(coder'[r][j]) <=> Loaded(coder[r][j])
                                            /\ Gone(coder'[r][j]) <=> Gone(coder[r][j])
      <3>1. CASE coder' = Woken(s, 0, coder)
        BY <1>1, <3>1, WokenKeeps DEF MediaTypes
      <3>2. CASE coder' = coder
        BY <1>1, <3>2 DEF MediaTypes
      <3>3. QED
        BY <2>1, <3>1, <3>2
    <2>3. reader' \in Readers /\ reader'.left = reader.left
      BY <1>1, <2>1 DEF MediaTypes, Readers
    <2>4. /\ done' \in Flags
          /\ \A r \in Streams : /\ done[r][0] => done'[r][0]
                                /\ done'[r][1] = done[r][1] /\ done'[r][2] = done[r][2]
      <3>1. CASE done' = done
        BY <1>1, <3>1 DEF MediaTypes
      <3>2. CASE done' = [done EXCEPT ![s][0] = TRUE]
        BY <1>1, <3>2 DEF MediaTypes, Flags
      <3>3. QED
        BY <2>1, <3>1, <3>2
    <2>5. MediaTypes'
      BY <1>1, <2>1, <2>2, <2>3, <2>4 DEF MediaTypes
    <2>6. ASSUME NEW r \in Streams
          PROVE  Sound(r)' /\ (done[r][2] => done'[r][2]) /\ (Over(r) => Over(r)')
      <3>1. Conserved(r) /\ Filled(r) /\ Honest(r)
        BY DEF MediaInv, Sound
      <3>2. /\ Loaded(coder'[r][1]) <=> Loaded(coder[r][1])
            /\ Loaded(coder'[r][2]) <=> Loaded(coder[r][2])
            /\ Gone(coder'[r][1]) <=> Gone(coder[r][1])
            /\ Gone(coder'[r][2]) <=> Gone(coder[r][2])
        BY <2>2
      <3>3. Conserved(r)'
        BY <2>1, <2>3, <3>1 DEF Conserved
      <3>4. Filled(r)'
        BY <2>1, <3>1, <3>2 DEF Filled
      <3>5. Honest(r)'
        BY <2>1, <2>3, <2>4, <3>1, <3>2 DEF Honest
      <3>6. (done[r][2] => done'[r][2]) /\ (Over(r) => Over(r)')
        BY <2>1, <2>4 DEF Over
      <3>7. QED
        BY <3>3, <3>4, <3>5, <3>6 DEF Sound
    <2>7. QED
      BY <1>1, <2>1, <2>5, <2>6, MuxStays, MuxSame
  <1>4. QED
    BY <1>2, <1>3

\* An input goes from the queue into the codec.
LEMMA FeedInv ==
  ASSUME MediaInv, NEW s \in Streams, NEW k \in 1..2, NEW to \in Places,
         coder[s][k] = "take", coder' = Moved(coder, s, k, to), ~Gone(to),
         queue[s][k - 1] > 0, queue' = [queue EXCEPT ![s][k - 1] = @ - 1],
         inside' = [inside EXCEPT ![s][k] = @ + 1],
         UNCHANGED <<done, reader, mux>>
  PROVE  MediaInv'
  <1>1. MediaTypes /\ k - 1 \in 0..2
    BY DEF MediaInv
  <1>2. /\ coder' \in Coders /\ ~Gone(coder'[s][k]) /\ ~Gone(coder[s][k])
        /\ \A r \in Streams, j \in 1..2 : (r # s \/ j # k) =>
             /\ Loaded(coder'[r][j]) <=> Loaded(coder[r][j])
             /\ Gone(coder'[r][j]) <=> Gone(coder[r][j])
    BY <1>1, CoderMovesTo DEF MediaTypes, Gone
  <1>3. /\ queue' \in Queues /\ queue'[s][k - 1] = queue[s][k - 1] - 1
        /\ \A r \in Streams, n \in 0..2 : (r # s \/ n # k - 1) => queue'[r][n] = queue[r][n]
    BY <1>1 DEF MediaTypes, Queues
  <1>4. /\ inside' \in Insides /\ inside'[s][k] = inside[s][k] + 1
        /\ \A r \in Streams, j \in 1..2 : (r # s \/ j # k) => inside'[r][j] = inside[r][j]
    BY <1>1 DEF MediaTypes, Insides
  <1>5. MediaTypes'
    BY <1>1, <1>2, <1>3, <1>4 DEF MediaTypes
  <1>6. ASSUME NEW r \in Streams
        PROVE  Sound(r)' /\ (done[r][2] => done'[r][2]) /\ (Over(r) => Over(r)')
    <2>1. Conserved(r) /\ Filled(r) /\ Honest(r)
      BY DEF MediaInv, Sound
    <2>2. queue'[r][2] = queue[r][2]
      BY <1>3
    <2>3. CASE r # s
      <3>1. /\ queue'[r][0] = queue[r][0] /\ queue'[r][1] = queue[r][1]
            /\ inside'[r][1] = inside[r][1] /\ inside'[r][2] = inside[r][2]
        BY <1>3, <1>4, <2>3
      <3>2. /\ Loaded(coder'[r][1]) <=> Loaded(coder[r][1])
            /\ Loaded(coder'[r][2]) <=> Loaded(coder[r][2])
            /\ Gone(coder'[r][1]) <=> Gone(coder[r][1])
            /\ Gone(coder'[r][2]) <=> Gone(coder[r][2])
        BY <1>2, <2>3
      <3>3. Conserved(r)'
        BY <2>1, <2>2, <3>1 DEF Conserved
      <3>4. Filled(r)' /\ Honest(r)'
        BY <2>1, <3>1, <3>2 DEF Filled, Honest
      <3>5. QED
        BY <2>2, <3>3, <3>4 DEF Sound, Over
    <2>4. CASE r = s /\ k = 1
      <3>1. /\ queue'[r][0] = queue[r][0] - 1 /\ queue'[r][1] = queue[r][1]
            /\ inside'[r][1] = inside[r][1] + 1 /\ inside'[r][2] = inside[r][2]
        BY <1>3, <1>4, <2>4
      <3>2. /\ Loaded(coder'[r][2]) <=> Loaded(coder[r][2])
            /\ ~Gone(coder'[r][1]) /\ ~Gone(coder[r][1])
            /\ Gone(coder'[r][2]) <=> Gone(coder[r][2])
        BY <1>2, <2>4
      <3>3. Conserved(r)'
        BY <1>1, <2>1, <2>2, <3>1, MediaNumbers DEF Conserved
      <3>4. Filled(r)'
        BY <1>1, <2>1, <3>1, <3>2, MediaNumbers DEF Filled
      <3>5. Honest(r)'
        BY <2>1, <3>1, <3>2 DEF Honest
      <3>6. QED
        BY <2>2, <3>3, <3>4, <3>5 DEF Sound, Over
    <2>5. CASE r = s /\ k = 2
      <3>1. /\ queue'[r][0] = queue[r][0] /\ queue'[r][1] = queue[r][1] - 1
            /\ inside'[r][1] = inside[r][1] /\ inside'[r][2] = inside[r][2] + 1
        BY <1>3, <1>4, <2>5
      <3>2. /\ Loaded(coder'[r][1]) <=> Loaded(coder[r][1])
            /\ ~Gone(coder'[r][2]) /\ ~Gone(coder[r][2])
            /\ Gone(coder'[r][1]) <=> Gone(coder[r][1])
        BY <1>2, <2>5
      <3>3. Conserved(r)'
        BY <1>1, <2>1, <2>2, <3>1, MediaNumbers DEF Conserved
      <3>4. Filled(r)'
        BY <1>1, <2>1, <3>1, <3>2, MediaNumbers DEF Filled
      <3>5. Honest(r)'
        BY <2>1, <3>1, <3>2 DEF Honest
      <3>6. QED
        BY <2>2, <3>3, <3>4, <3>5 DEF Sound, Over
    <2>6. QED
      BY <2>3, <2>4, <2>5
  <1>7. QED
    BY <1>1, <1>5, <1>6, MuxStays, MuxSame

\* A coder moves, and no queue and no codec changes.
LEMMA MoveInv ==
  ASSUME MediaInv, NEW s \in Streams, NEW k \in 1..2, NEW to \in Places,
         UNCHANGED <<queue, done, inside, reader>>, mux' \in Muxes, MuxKeeps,
         Loaded(to) => inside[s][k] > 0, Gone(to) <=> Gone(coder[s][k]),
         \/ coder' = Moved(coder, s, k, to)
         \/ \E n \in 0..2 : coder' = Woken(s, n, Moved(coder, s, k, to))
  PROVE  MediaInv'
  <1>1. MediaTypes
    BY DEF MediaInv
  <1>2. /\ coder' \in Coders /\ (Loaded(coder'[s][k]) <=> Loaded(to))
        /\ Gone(coder'[s][k]) <=> Gone(to)
        /\ \A r \in Streams, j \in 1..2 : (r # s \/ j # k) =>
             /\ Loaded(coder'[r][j]) <=> Loaded(coder[r][j])
             /\ Gone(coder'[r][j]) <=> Gone(coder[r][j])
    BY <1>1, CoderMovesTo DEF MediaTypes
  <1>3. MediaTypes'
    BY <1>1, <1>2 DEF MediaTypes
  <1>4. ASSUME NEW r \in Streams
        PROVE  Sound(r)' /\ (done[r][2] => done'[r][2]) /\ (Over(r) => Over(r)')
    <2>1. Conserved(r) /\ Filled(r) /\ Honest(r)
      BY DEF MediaInv, Sound
    <2>2. ASSUME NEW j \in 1..2
          PROVE  /\ Loaded(coder'[r][j]) => inside[r][j] > 0
                 /\ Gone(coder'[r][j]) <=> Gone(coder[r][j])
      <3>1. Loaded(coder[r][j]) => inside[r][j] > 0
        BY <2>1 DEF Filled
      <3>2. QED
        BY <1>2, <3>1
    <2>3. Conserved(r)'
      BY <2>1 DEF Conserved, MuxKeeps
    <2>4. Filled(r)'
      BY <2>2 DEF Filled
    <2>5. Honest(r)'
      <3>1. /\ Gone(coder'[r][1]) <=> Gone(coder[r][1])
            /\ Gone(coder'[r][2]) <=> Gone(coder[r][2])
        BY <2>2
      <3>2. QED
        BY <2>1, <3>1 DEF Honest
    <2>6. QED
      BY <2>3, <2>4, <2>5 DEF Sound, Over
  <1>5. QED
    BY <1>3, <1>4, MuxStays

LEMMA PushInv ==
  ASSUME MediaInv, NEW s \in Streams, NEW k \in 1..2, Push(s, k)
  PROVE  MediaInv'
  <1>1. MediaTypes /\ coder[s][k] = "push" /\ UNCHANGED <<done, reader>>
    BY DEF MediaInv, Push
  <1>2. /\ Loaded("push") /\ Loaded("full") /\ ~Gone("push") /\ ~Gone("full")
        /\ "full" \in Places /\ k \in 0..2
    BY DEF Loaded, Gone, Places
  <1>3. inside[s][k] > 0
    <2>1. Filled(s)
      BY DEF MediaInv, Sound
    <2>2. QED
      BY <1>1, <1>2, <2>1 DEF Filled
  <1>4. CASE coder' = Moved(coder, s, k, "full") /\ UNCHANGED <<queue, inside, mux>>
    <2>1. mux' \in Muxes /\ MuxKeeps
      BY <1>1, <1>4, MuxSame
    <2>2. QED
      BY <1>1, <1>2, <1>3, <1>4, <2>1, MoveInv
  <1>5. ASSUME NEW to \in {"push", "take"},
               inside'[s][k] = 0 => to = "take",
               queue' = [queue EXCEPT ![s][k] = @ + 1], mux' = MuxWoken(s, k),
               inside' = [inside EXCEPT ![s][k] = @ - 1],
               coder' = Woken(s, k, Moved(coder, s, k, to))
        PROVE  MediaInv'
    <2>1. mux' \in Muxes /\ MuxKeeps
      BY <1>1, <1>5, MuxWokenKeeps
    <2>2. to \in Places /\ ~Gone(to) /\ (Loaded(to) => to # "take")
      BY DEF Loaded, Gone, Places
    <2>3. /\ coder' \in Coders /\ (Loaded(coder'[s][k]) <=> Loaded(to)) /\ ~Gone(coder'[s][k])
          /\ \A r \in Streams, j \in 1..2 : (r # s \/ j # k) =>
               /\ Loaded(coder'[r][j]) <=> Loaded(coder[r][j])
               /\ Gone(coder'[r][j]) <=> Gone(coder[r][j])
      BY <1>1, <1>2, <1>5, <2>2, CoderMovesTo DEF MediaTypes
    <2>4. /\ queue' \in Queues /\ queue'[s][k] = queue[s][k] + 1
          /\ \A r \in Streams, n \in 0..2 : (r # s \/ n # k) => queue'[r][n] = queue[r][n]
      BY <1>1, <1>2, <1>5 DEF MediaTypes, Queues
    <2>5. /\ inside' \in Insides /\ inside'[s][k] = inside[s][k] - 1
          /\ \A r \in Streams, j \in 1..2 : (r # s \/ j # k) => inside'[r][j] = inside[r][j]
      BY <1>1, <1>3, <1>5 DEF MediaTypes, Insides
    <2>6. MediaTypes'
      BY <1>1, <2>1, <2>3, <2>4, <2>5 DEF MediaTypes
    <2>7. inside'[s][k] \in Nat /\ (Loaded(coder'[s][k]) => inside'[s][k] > 0)
      <3>1. inside'[s][k] \in Nat
        BY <2>5 DEF Insides
      <3>2. inside'[s][k] = 0 => to = "take"
        BY <1>5
      <3>3. QED
        BY <2>2, <2>3, <3>1, <3>2
    <2>8. ASSUME NEW r \in Streams
          PROVE  Sound(r)' /\ (done[r][2] => done'[r][2]) /\ (Over(r) => Over(r)')
      <3>1. Conserved(r) /\ Filled(r) /\ Honest(r)
        BY DEF MediaInv, Sound
      <3>2. queue'[r][0] = queue[r][0] /\ mux'.wrote = mux.wrote
        BY <2>1, <2>4 DEF MuxKeeps
      <3>3. CASE r # s
        <4>1. /\ queue'[r][1] = queue[r][1] /\ queue'[r][2] = queue[r][2]
              /\ inside'[r][1] = inside[r][1] /\ inside'[r][2] = inside[r][2]
          BY <2>4, <2>5, <3>3
        <4>2. /\ Loaded(coder'[r][1]) <=> Loaded(coder[r][1])
              /\ Loaded(coder'[r][2]) <=> Loaded(coder[r][2])
              /\ Gone(coder'[r][1]) <=> Gone(coder[r][1])
              /\ Gone(coder'[r][2]) <=> Gone(coder[r][2])
          BY <2>3, <3>3
        <4>3. Conserved(r)'
          BY <1>1, <3>1, <3>2, <4>1 DEF Conserved
        <4>4. Filled(r)' /\ Honest(r)'
          BY <1>1, <3>1, <3>2, <4>1, <4>2 DEF Filled, Honest
        <4>5. QED
          BY <1>1, <4>1, <4>3, <4>4 DEF Sound, Over
      <3>4. CASE r = s /\ k = 1
        <4>1. /\ queue'[r][1] = queue[r][1] + 1 /\ queue'[r][2] = queue[r][2]
              /\ inside'[r][1] = inside[r][1] - 1 /\ inside'[r][2] = inside[r][2]
          BY <2>4, <2>5, <3>4
        <4>2. /\ Loaded(coder'[r][1]) => inside'[r][1] > 0
              /\ Loaded(coder'[r][2]) <=> Loaded(coder[r][2])
              /\ ~Gone(coder'[r][1]) /\ ~Gone(coder[r][1])
              /\ Gone(coder'[r][2]) <=> Gone(coder[r][2])
          BY <1>1, <1>2, <2>3, <2>7, <3>4
        <4>3. Conserved(r)'
          BY <1>1, <3>1, <3>2, <4>1, MediaNumbers DEF Conserved
        <4>4. Filled(r)'
          BY <3>1, <4>1, <4>2 DEF Filled
        <4>5. Honest(r)'
          BY <1>1, <3>1, <3>2, <4>1, <4>2 DEF Honest
        <4>6. QED
          BY <1>1, <4>1, <4>3, <4>4, <4>5 DEF Sound, Over
      <3>5. CASE r = s /\ k = 2
        <4>1. /\ queue'[r][2] = queue[r][2] + 1 /\ queue'[r][1] = queue[r][1]
              /\ inside'[r][2] = inside[r][2] - 1 /\ inside'[r][1] = inside[r][1]
          BY <2>4, <2>5, <3>5
        <4>2. /\ Loaded(coder'[r][2]) => inside'[r][2] > 0
              /\ Loaded(coder'[r][1]) <=> Loaded(coder[r][1])
              /\ ~Gone(coder'[r][2]) /\ ~Gone(coder[r][2])
              /\ Gone(coder'[r][1]) <=> Gone(coder[r][1])
          BY <1>1, <1>2, <2>3, <2>7, <3>5
        <4>3. Conserved(r)'
          BY <1>1, <3>1, <3>2, <4>1, MediaNumbers DEF Conserved
        <4>4. Filled(r)'
          BY <3>1, <4>1, <4>2 DEF Filled
        <4>5. Honest(r)'
          BY <1>1, <3>1, <3>2, <4>1, <4>2 DEF Honest
        <4>6. ~Over(r) /\ done'[r][2] = done[r][2]
          BY <1>1, <3>1, <4>2 DEF Over, Honest
        <4>7. QED
          BY <4>3, <4>4, <4>5, <4>6 DEF Sound
      <3>6. QED
        BY <3>3, <3>4, <3>5
    <2>9. QED
      BY <2>1, <2>6, <2>8, MuxStays
  <1>6. CASE k = 1 /\ queue[s][1] = Capacity
    BY <1>4, <1>6 DEF Push, At, Moved
  <1>7. CASE ~(k = 1 /\ queue[s][1] = Capacity)
    <2>1. PICK to \in Received(inside'[s][k]) : coder' = Woken(s, k, Moved(coder, s, k, to))
      BY <1>7 DEF Push, Moved
    <2>2. to \in {"push", "take"} /\ (inside'[s][k] = 0 => to = "take")
      BY DEF Received
    <2>3. /\ queue' = [queue EXCEPT ![s][k] = @ + 1] /\ mux' = MuxWoken(s, k)
          /\ inside' = [inside EXCEPT ![s][k] = @ - 1]
      BY <1>7 DEF Push
    <2>4. QED
      BY <1>5, <2>1, <2>2, <2>3
  <1>8. QED
    BY <1>6, <1>7

LEMMA FlagInv ==
  ASSUME MediaInv, NEW s \in Streams, NEW k \in 1..2, Flag(s, k)
  PROVE  MediaInv'
  <1>1. /\ MediaTypes /\ UNCHANGED <<queue, inside, reader, mux>>
        /\ done[s][k - 1] /\ queue[s][k - 1] = 0 /\ (k = 2 => inside[s][2] = 0)
        /\ coder[s][k] = "take" /\ coder' = Moved(coder, s, k, "notify")
        /\ done' = [done EXCEPT ![s][k] = TRUE]
    BY DEF MediaInv, Flag, Fed, At, Moved
  <1>2. /\ ~Loaded("take") /\ ~Gone("take") /\ k \in 0..2
        /\ ~Loaded("notify") /\ Gone("notify") /\ "notify" \in Places
    BY DEF Loaded, Gone, Places
  <1>3. /\ coder' \in Coders /\ ~Loaded(coder'[s][k]) /\ Gone(coder'[s][k])
        /\ \A r \in Streams, j \in 1..2 : (r # s \/ j # k) =>
             /\ Loaded(coder'[r][j]) <=> Loaded(coder[r][j])
             /\ Gone(coder'[r][j]) <=> Gone(coder[r][j])
    BY <1>1, <1>2, CoderMovesTo DEF MediaTypes
  <1>4. /\ done' \in Flags /\ done'[s][k]
        /\ \A r \in Streams, n \in 0..2 : (r # s \/ n # k) => done'[r][n] = done[r][n]
    BY <1>1, <1>2 DEF MediaTypes, Flags
  <1>5. MediaTypes'
    BY <1>1, <1>3, <1>4 DEF MediaTypes
  <1>6. ASSUME NEW r \in Streams
        PROVE  Sound(r)' /\ (done[r][2] => done'[r][2]) /\ (Over(r) => Over(r)')
    <2>1. Conserved(r) /\ Filled(r) /\ Honest(r)
      BY DEF MediaInv, Sound
    <2>2. Conserved(r)'
      BY <1>1, <2>1 DEF Conserved
    <2>3. Filled(r)'
      <3>1. \A j \in 1..2 : Loaded(coder'[r][j]) => Loaded(coder[r][j])
        BY <1>3
      <3>2. QED
        BY <1>1, <2>1, <3>1 DEF Filled
    <2>4. done'[r][0] = done[r][0]
      BY <1>4
    <2>5. CASE r # s
      <3>1. /\ Gone(coder'[r][1]) <=> Gone(coder[r][1])
            /\ Gone(coder'[r][2]) <=> Gone(coder[r][2])
            /\ done'[r][1] = done[r][1] /\ done'[r][2] = done[r][2]
        BY <1>3, <1>4, <2>5
      <3>2. Honest(r)'
        BY <1>1, <2>1, <2>4, <3>1 DEF Honest
      <3>3. QED
        BY <1>1, <2>2, <2>3, <3>1, <3>2 DEF Sound, Over
    <2>6. CASE r = s /\ k = 1
      <3>1. /\ Gone(coder'[r][1]) /\ done'[r][1] /\ done[r][0] /\ queue[r][0] = 0
            /\ Gone(coder'[r][2]) <=> Gone(coder[r][2])
            /\ done'[r][2] = done[r][2]
        BY <1>1, <1>3, <1>4, <2>6
      <3>2. Honest(r)'
        BY <1>1, <2>1, <2>4, <3>1 DEF Honest
      <3>3. QED
        BY <1>1, <2>2, <2>3, <3>1, <3>2 DEF Sound, Over
    <2>7. CASE r = s /\ k = 2
      <3>1. /\ Gone(coder'[r][2]) /\ done'[r][2] /\ done[r][1] /\ queue[r][1] = 0
            /\ inside[r][2] = 0
            /\ Gone(coder'[r][1]) <=> Gone(coder[r][1])
            /\ done'[r][1] = done[r][1]
        BY <1>1, <1>3, <1>4, <2>7
      <3>2. Honest(r)'
        BY <1>1, <2>1, <2>4, <3>1 DEF Honest
      <3>3. QED
        BY <1>1, <2>2, <2>3, <3>1, <3>2 DEF Sound, Over
    <2>8. QED
      BY <2>5, <2>6, <2>7
  <1>7. QED
    BY <1>1, <1>5, <1>6, MuxStays, MuxSame

LEMMA CoderInv ==
  ASSUME MediaInv, NEW s \in Streams, NEW k \in 1..2, Coder(s, k)
  PROVE  MediaInv'
  <1>1. MediaTypes
    BY DEF MediaInv
  <1>2. /\ ~Loaded("wait") /\ ~Gone("wait") /\ ~Gone("block") /\ ~Loaded("block")
        /\ ~Loaded("ended") /\ Gone("ended") /\ Gone("notify")
        /\ ~Gone("tell") /\ ~Gone("push") /\ ~Gone("take") /\ ~Loaded("take")
        /\ {"wait", "ended", "push", "take", "block", "tell"} \subseteq Places
    BY DEF Loaded, Gone, Places
  <1>3. CASE Take(s, k)
    <2>1. CASE coder[s][k] = "take" /\ coder' = Moved(coder, s, k, "block")
               /\ UNCHANGED <<queue, inside, done, reader, mux>>
      <3>1. mux' \in Muxes /\ MuxKeeps
        BY <1>1, <2>1, MuxSame
      <3>2. QED
        BY <1>2, <2>1, <3>1, MoveInv
    <2>2. ASSUME NEW to \in {"tell", "push", "take"}, coder[s][k] = "take",
                 coder' = Moved(coder, s, k, to), queue[s][k - 1] > 0,
                 queue' = [queue EXCEPT ![s][k - 1] = @ - 1],
                 inside' = [inside EXCEPT ![s][k] = @ + 1],
                 UNCHANGED <<done, reader, mux>>
          PROVE  MediaInv'
      <3>1. to \in Places /\ ~Gone(to)
        BY <1>2 DEF Gone
      <3>2. QED
        BY <2>2, <3>1, FeedInv
    <2>3. QED
      BY <1>3, <2>1, <2>2 DEF Take, At, Moved, Received
  <1>4. CASE Block(s, k)
    <2>1. /\ coder[s][k] = "block" /\ coder' = Moved(coder, s, k, "wait")
          /\ UNCHANGED <<queue, done, inside, reader, mux>>
      BY <1>4 DEF Block, At, Moved
    <2>2. mux' \in Muxes /\ MuxKeeps
      BY <1>1, <2>1, MuxSame
    <2>3. QED
      BY <1>2, <2>1, <2>2, MoveInv
  <1>5. CASE Notify(s, k)
    <2>1. /\ coder[s][k] = "notify" /\ coder' = Woken(s, k, Moved(coder, s, k, "ended"))
          /\ mux' = MuxWoken(s, k) /\ UNCHANGED <<queue, done, inside, reader>> /\ k \in 0..2
      BY <1>5 DEF Notify, Moved
    <2>2. mux' \in Muxes /\ MuxKeeps
      BY <1>1, <2>1, MuxWokenKeeps
    <2>3. QED
      BY <1>2, <2>1, <2>2, MoveInv
  <1>6. CASE k = 2 /\ Tell(s)
    <2>1. PICK to \in Received(inside[s][2]) :
            /\ coder[s][k] = "tell" /\ coder' = Woken(s, 1, Moved(coder, s, k, to))
            /\ UNCHANGED <<queue, done, inside, reader, mux>>
      BY <1>6 DEF Tell, Moved
    <2>2. mux' \in Muxes /\ MuxKeeps /\ 1 \in 0..2
      BY <1>1, <2>1, MuxSame
    <2>3. to \in {"push", "take"} /\ (to = "push" => inside[s][k] > 0)
      BY <1>6 DEF Received
    <2>4. to \in Places /\ ~Gone(to) /\ (Loaded(to) => inside[s][k] > 0)
      BY <1>2, <2>3
    <2>5. QED
      BY <1>2, <2>1, <2>2, <2>4, MoveInv
  <1>7. CASE k = 2 /\ Drain(s)
    <2>1. /\ coder[s][k] = "take" /\ coder' = Moved(coder, s, k, "push")
          /\ inside[s][k] > 0 /\ UNCHANGED <<queue, done, inside, reader, mux>>
      BY <1>7 DEF Drain, At, Moved
    <2>2. mux' \in Muxes /\ MuxKeeps
      BY <1>1, <2>1, MuxSame
    <2>3. QED
      BY <1>2, <2>1, <2>2, MoveInv
  <1>8. QED
    BY <1>3, <1>4, <1>5, <1>6, <1>7, PushInv, FlagInv DEF Coder

\* A packet of the stream goes to the file.
LEMMA WriteInv ==
  ASSUME MediaInv, NEW s \in Streams, queue[s][2] > 0,
         queue' = [queue EXCEPT ![s][2] = @ - 1],
         mux' = [mux EXCEPT !.at = IF Finished(queue') THEN "ended" ELSE "lock",
                            !.wrote[s] = @ + 1],
         UNCHANGED <<done, coder, inside, reader>>
  PROVE  MediaInv'
  <1>1. MediaTypes
    BY DEF MediaInv
  <1>2. /\ queue' \in Queues /\ queue'[s][2] = queue[s][2] - 1
        /\ queue'[s][0] = queue[s][0] /\ queue'[s][1] = queue[s][1]
        /\ \A r \in Streams \ {s} : queue'[r] = queue[r]
    BY <1>1 DEF MediaTypes, Queues
  <1>3. /\ mux'.wrote = [mux.wrote EXCEPT ![s] = @ + 1] /\ mux'.of = mux.of
        /\ mux'.at = IF Finished(queue') THEN "ended" ELSE "lock"
    BY <1>1 DEF MediaTypes, Muxes
  <1>4. /\ mux'.wrote \in [Streams -> Nat] /\ mux'.wrote[s] = mux.wrote[s] + 1
        /\ \A r \in Streams \ {s} : mux'.wrote[r] = mux.wrote[r]
    BY <1>1, <1>3 DEF MediaTypes, Muxes
  <1>5. mux' \in Muxes
    <2>1. mux' = [at |-> mux'.at, of |-> mux'.of, wrote |-> mux'.wrote]
      BY <1>1 DEF MediaTypes, Muxes
    <2>2. mux'.at \in {"lock", "ended"} /\ mux'.of \in Streams
      BY <1>1, <1>3 DEF MediaTypes, Muxes
    <2>3. QED
      BY <1>4, <2>1, <2>2 DEF Muxes
  <1>6. MediaTypes'
    BY <1>1, <1>2, <1>5 DEF MediaTypes
  <1>7. ASSUME NEW r \in Streams
        PROVE  Sound(r)' /\ Closed(r)'
    <2>1. Conserved(r) /\ Filled(r) /\ Honest(r)
      BY DEF MediaInv, Sound
    <2>2. Conserved(r)'
      <3>1. CASE r = s
        BY <1>1, <1>2, <1>4, <2>1, <3>1, MediaNumbers DEF Conserved
      <3>2. CASE r # s
        BY <1>2, <1>4, <2>1, <3>2 DEF Conserved
      <3>3. QED
        BY <3>1, <3>2
    <2>3. Filled(r)'
      BY <2>1 DEF Filled
    <2>4. Honest(r)'
      <3>1. queue'[r][0] = queue[r][0] /\ queue'[r][1] = queue[r][1]
        BY <1>2
      <3>2. QED
        BY <2>1, <3>1 DEF Honest
    <2>5. Closed(r)'
      <3>1. Finished(queue') => queue'[r][2] = 0 /\ done[r][2]
        BY DEF Finished
      <3>2. QED
        BY <1>3, <3>1 DEF Closed, Over
    <2>6. QED
      BY <2>2, <2>3, <2>4, <2>5 DEF Sound
  <1>8. QED
    BY <1>6, <1>7 DEF MediaInv

LEMMA MuxInv ==
  ASSUME MediaInv, Mux
  PROVE  MediaInv'
  <1>1. /\ MediaTypes /\ UNCHANGED <<done, coder, inside, reader>>
        /\ \A r \in Streams : Sound(r) /\ Closed(r)
    BY DEF MediaInv, Mux, MuxStarts, MuxWait, WritePacket
  <1>2. ASSUME UNCHANGED queue, mux' \in Muxes, mux'.wrote = mux.wrote,
               \A r \in Streams : Closed(r)'
        PROVE  MediaInv'
    <2>1. MediaTypes'
      BY <1>1, <1>2 DEF MediaTypes
    <2>2. ASSUME NEW r \in Streams
          PROVE  Sound(r)'
      <3>1. Conserved(r) /\ Filled(r) /\ Honest(r)
        BY <1>1 DEF Sound
      <3>2. Conserved(r)'
        BY <1>1, <1>2, <3>1 DEF Conserved
      <3>3. Filled(r)' /\ Honest(r)'
        BY <1>1, <1>2, <3>1 DEF Filled, Honest
      <3>4. QED
        BY <3>2, <3>3 DEF Sound
    <2>3. QED
      BY <1>2, <2>1, <2>2 DEF MediaInv
  <1>3. CASE MuxStarts
    <2>1. UNCHANGED queue
      BY <1>3 DEF MuxStarts
    <2>2. CASE mux.at = "empty" /\ \E to \in {"flag", "lock"} : mux' = [mux EXCEPT !.at = to]
      <3>1. /\ mux' \in Muxes /\ mux'.wrote = mux.wrote /\ mux'.of = mux.of
            /\ mux'.at \in {"flag", "lock"}
        BY <1>1, <2>2 DEF MediaTypes, Muxes
      <3>2. \A r \in Streams : Closed(r)'
        BY <1>1, <2>2, <3>1 DEF Closed
      <3>3. QED
        BY <1>2, <2>1, <3>1, <3>2
    <2>3. CASE mux.at = "flag" /\ mux' = [mux EXCEPT !.at = "lock"]
      <3>1. mux' \in Muxes /\ mux'.wrote = mux.wrote /\ mux'.at = "lock"
        BY <1>1, <2>3 DEF MediaTypes, Muxes
      <3>2. \A r \in Streams : Closed(r)'
        BY <3>1 DEF Closed
      <3>3. QED
        BY <1>2, <2>1, <3>1, <3>2
    <2>4. CASE /\ mux.at = "flag" /\ done[mux.of][2] /\ mux.of = "video"
               /\ mux' = [mux EXCEPT !.at = "empty", !.of = "audio"]
      <3>1. /\ mux' \in Muxes /\ mux'.wrote = mux.wrote /\ mux'.at = "empty"
            /\ done'["video"][2]
        BY <1>1, <2>4, FileTypes DEF MediaTypes, Muxes
      <3>2. \A r \in Streams : Closed(r)'
        BY <3>1 DEF Closed
      <3>3. QED
        BY <1>2, <2>1, <3>1, <3>2
    <2>5. CASE /\ mux.at = "flag" /\ done[mux.of][2] /\ mux.of # "video"
               /\ mux' = [mux EXCEPT !.at = "skipped"]
      <3>1. mux' \in Muxes /\ mux'.wrote = mux.wrote /\ mux'.at = "skipped" /\ mux.of = "audio"
        BY <1>1, <2>5 DEF MediaTypes, Muxes, Streams
      <3>2. done'["video"][2] /\ done'["audio"][2]
        BY <1>1, <2>5, <3>1, FileTypes DEF Closed
      <3>3. ASSUME NEW r \in Streams PROVE Closed(r)'
        BY <3>1, <3>2 DEF Closed, Streams
      <3>4. QED
        BY <1>2, <2>1, <3>1, <3>3
    <2>6. QED
      BY <1>3, <2>2, <2>3, <2>4, <2>5 DEF MuxStarts
  <1>4. CASE MuxWait
    <2>1. UNCHANGED queue
      BY <1>4 DEF MuxWait
    <2>2. mux' \in Muxes /\ mux'.wrote = mux.wrote /\ mux'.at \in {"wait", "block"}
      <3>1. CASE mux' = [mux EXCEPT !.at = "wait"]
        BY <1>1, <3>1 DEF MediaTypes, Muxes
      <3>2. CASE \E s \in Streams : mux' = [mux EXCEPT !.at = "block", !.of = s]
        BY <1>1, <3>2 DEF MediaTypes, Muxes
      <3>3. QED
        BY <1>4, <3>1, <3>2 DEF MuxWait
    <2>3. \A r \in Streams : Closed(r)'
      BY <2>2 DEF Closed
    <2>4. QED
      BY <1>2, <2>1, <2>2, <2>3
  <1>5. CASE WritePacket
    <2>1. CASE /\ queue' = queue
               /\ mux' = [mux EXCEPT !.at = IF Finished(queue) THEN "ended" ELSE "lock"]
      <3>1. /\ mux' \in Muxes /\ mux'.wrote = mux.wrote
            /\ mux'.at = IF Finished(queue) THEN "ended" ELSE "lock"
        BY <1>1, <2>1 DEF MediaTypes, Muxes
      <3>2. ASSUME NEW r \in Streams PROVE Closed(r)'
        <4>1. Finished(queue) => Over(r)'
          BY <1>1, <2>1 DEF Finished, Over
        <4>2. QED
          BY <3>1, <4>1 DEF Closed
      <3>3. QED
        BY <1>2, <2>1, <3>1, <3>2
    <2>2. ASSUME NEW s \in Streams, queue[s][2] > 0,
                 queue' = [queue EXCEPT ![s][2] = @ - 1],
                 mux' = [mux EXCEPT !.at = IF Finished(queue') THEN "ended" ELSE "lock",
                                    !.wrote[s] = @ + 1]
          PROVE  MediaInv'
      BY <1>1, <2>2, WriteInv
    <2>3. QED
      BY <1>5, <2>1, <2>2 DEF WritePacket
  <1>6. QED
    BY <1>3, <1>4, <1>5 DEF Mux

LEMMA MediaInvHolds == SpecMedia => []MediaInv
  <1>1. InitMedia => MediaInv
    BY InitMediaInv
  <1>2. MediaInv /\ [NextMedia]_mediaVars => MediaInv'
    <2> SUFFICES ASSUME MediaInv, [NextMedia]_mediaVars PROVE MediaInv'
      OBVIOUS
    <2>1. CASE Reader
      <3>1. \E s \in Streams :
              \/ Read(s)
              \/ \E a, n \in {"read", "videoCV", "audio", "audioCV", "ended"} : ReadEnds(s, a, n)
        BY <2>1, FileTypes DEF Reader
      <3>2. QED
        BY <3>1, ReaderInv
    <2>2. ASSUME NEW s \in Streams, NEW k \in 1..2, Coder(s, k) PROVE MediaInv'
      BY <2>2, CoderInv
    <2>3. CASE UNCHANGED mediaVars
      <3>1. UNCHANGED <<queue, done, coder, inside, reader, mux>>
        BY <2>3 DEF mediaVars
      <3>2. MediaTypes'
        BY <3>1 DEF MediaInv, MediaTypes
      <3>3. ASSUME NEW s \in Streams PROVE Sound(s)' /\ Closed(s)'
        BY <3>1 DEF MediaInv, Sound, Conserved, Filled, Honest, Closed, Over
      <3>4. QED
        BY <3>2, <3>3 DEF MediaInv
    <2>4. QED
      BY <2>1, <2>2, <2>3, MuxInv DEF NextMedia
  <1>3. QED
    BY <1>1, <1>2, PTL DEF SpecMedia

(* Where every packet of the file is once the writer has left its loop, or   *)
(* has gone past it: in the file, or still in a decoder; after the loop      *)
(* nothing is left in the queues of the writer.                              *)
FileWhole ==
  /\ mux.at \in {"ended", "skipped"} =>
       \A s \in Streams : mux.wrote[s] + queue[s][2] + inside[s][1] = NumPackets[s]
  /\ mux.at = "ended" => \A s \in Streams : queue[s][2] = 0

(* The safety half of FileEnds, for any file and any ring, also when a       *)
(* notification was lost on the way: a packet that is missing in a file      *)
(* videoOutMP4File has closed stayed in a decoder, which nobody drains, or   *)
(* the writer did not enter its loop at all. The threads before it and the   *)
(* drained encoders lose nothing.                                            *)
THEOREM FinishedFileIsWhole == SpecMedia => []FileWhole
  <1>1. MediaInv => FileWhole
    <2> SUFFICES ASSUME MediaInv PROVE FileWhole
      OBVIOUS
    <2>1. ASSUME NEW s \in Streams, mux.at \in {"ended", "skipped"}
          PROVE  mux.wrote[s] + queue[s][2] + inside[s][1] = NumPackets[s]
      <3>1. Conserved(s) /\ Honest(s) /\ done[s][2]
        BY <2>1 DEF MediaInv, Closed, Over, Sound
      <3>2. Gone(coder[s][2]) /\ Gone(coder[s][1])
        BY <3>1 DEF Honest
      <3>3. queue[s][0] = 0 /\ queue[s][1] = 0 /\ inside[s][2] = 0 /\ reader.left[s] = 0
        BY <3>1, <3>2 DEF Honest
      <3>4. QED
        BY <3>1, <3>3, MediaNumbers DEF Conserved, MediaInv
    <2>2. ASSUME NEW s \in Streams, mux.at = "ended" PROVE queue[s][2] = 0
      BY <2>2 DEF MediaInv, Closed, Over
    <2>3. QED
      BY <2>1, <2>2 DEF FileWhole
  <1>2. QED
    BY <1>1, MediaInvHolds, PTL
-------------------------------------------------------------------------------
(* The transcoder: nobody sleeps without somebody who will wake it.          *)

Asleep(p) == p \in {"block", "wait"}

\* Who fills queue n of the stream has still to notify its condition.
Feeding(s, n) ==
  IF n = 0 THEN reader.at \in {"read", "videoCV"} \/ (s = "audio" /\ reader.at \in {"audio", "audioCV"})
           ELSE coder[s][n] # "ended"

CoderAttended(s, k) == Asleep(coder[s][k]) => queue[s][k - 1] = 0 /\ Feeding(s, k - 1)
MuxAttended(s) == Asleep(mux.at) /\ mux.of = s => queue[s][2] = 0 /\ Feeding(s, 2)

\* A decoder that waits for room finds the ring full, or is about to be told.
RoomOK(s) == coder[s][1] = "full" => queue[s][1] = Capacity \/ coder[s][2] = "tell"

PlaceOK(s) == coder[s][1] # "tell" /\ coder[s][2] # "full"

\* The reader ends the streams one after the other.
ReaderOK ==
  /\ reader.at # "read" => \A s \in Streams : reader.left[s] = 0
  /\ done["video"][0] <=> reader.at # "read"
  /\ done["audio"][0] <=> reader.at \in {"audioCV", "ended"}

\* The sleepers of the stream are attended.
Attended(s) == CoderAttended(s, 1) /\ CoderAttended(s, 2) /\ MuxAttended(s)

AttendInv == /\ ReaderOK
             /\ \A s \in Streams : PlaceOK(s) /\ RoomOK(s) /\ (lost \/ Attended(s))

LEMMA MovedAt ==
  ASSUME NEW s \in Streams, NEW k \in 1..2, NEW to \in Places, NEW co \in Coders
  PROVE  /\ Moved(co, s, k, to) \in Coders /\ Moved(co, s, k, to)[s][k] = to
         /\ \A j \in 1..2 : j # k => Moved(co, s, k, to)[s][j] = co[s][j]
         /\ \A r \in Streams : r # s => Moved(co, s, k, to)[r] = co[r]
  BY DEF Moved, Coders

LEMMA WokenAt ==
  ASSUME NEW s \in Streams, NEW n \in 0..2, NEW co \in Coders
  PROVE  /\ \A r \in Streams : r # s => Woken(s, n, co)[r] = co[r]
         /\ \A j \in 1..2 :
              Woken(s, n, co)[s][j] = IF co[s][j] = "wait" /\ j = n + 1 THEN "take"
                                      ELSE IF co[s][j] = "full" /\ j = n THEN "push"
                                      ELSE co[s][j]
  <1> DEFINE row == [j \in 1..2 |-> CASE co[s][j] = "wait" /\ j = n + 1 -> "take"
                                      [] co[s][j] = "full" /\ j = n -> "push"
                                      [] OTHER -> co[s][j]]
  <1>1. Woken(s, n, co) = [co EXCEPT ![s] = row]
    BY DEF Woken
  <1>2. \A j \in 1..2 : row[j] = IF co[s][j] = "wait" /\ j = n + 1 THEN "take"
                                 ELSE IF co[s][j] = "full" /\ j = n THEN "push"
                                 ELSE co[s][j]
    OBVIOUS
  <1> HIDE DEF row
  <1>3. QED
    BY <1>1, <1>2 DEF Coders

\* A step of a stream's threads, as what it leaves of that stream.
LEMMA StreamAttended ==
  ASSUME AttendInv, NEW s \in Streams, UNCHANGED reader,
         \A r \in Streams : done'[r][0] = done[r][0],
         \A r \in Streams : r # s => coder'[r] = coder[r] /\ queue'[r] = queue[r],
         \A r \in Streams : r # s /\ Asleep(mux'.at) /\ mux'.of = r => Asleep(mux.at) /\ mux.of = r,
         lost => lost', PlaceOK(s)', RoomOK(s)', lost' \/ Attended(s)'
  PROVE  AttendInv'
  <1>1. ReaderOK'
    BY DEF AttendInv, ReaderOK, Streams
  <1>2. ASSUME NEW r \in Streams, r # s
        PROVE  PlaceOK(r)' /\ RoomOK(r)' /\ (lost' \/ Attended(r)')
    <2>1. /\ PlaceOK(r) /\ RoomOK(r) /\ (lost \/ Attended(r))
          /\ coder'[r] = coder[r] /\ queue'[r] = queue[r]
      BY <1>2 DEF AttendInv
    <2>2. PlaceOK(r)' /\ RoomOK(r)'
      BY <2>1 DEF PlaceOK, RoomOK
    <2>3. Attended(r) => CoderAttended(r, 1)' /\ CoderAttended(r, 2)'
      BY <2>1 DEF Attended, CoderAttended, Feeding
    <2>4. Attended(r) => MuxAttended(r)'
      BY <1>2, <2>1 DEF Attended, MuxAttended, Feeding
    <2>5. QED
      BY <2>1, <2>2, <2>3, <2>4 DEF Attended
  <1>3. QED
    BY <1>1, <1>2 DEF AttendInv

LEMMA TakeAttended ==
  ASSUME MediaInv, AttendInv, NEW s \in Streams, NEW k \in 1..2,
         Take(s, k) \/ Block(s, k) \/ (k = 2 /\ Drain(s))
  PROVE  AttendInv'
  <1>1. /\ coder \in Coders /\ queue \in Queues /\ UNCHANGED <<done, reader, mux, lost>>
        /\ PlaceOK(s) /\ RoomOK(s) /\ (lost \/ Attended(s)) /\ ReaderOK /\ Honest(s)
    BY DEF MediaInv, Sound, MediaTypes, AttendInv, Take, Block, Drain
  <1>2. PICK to \in Places :
          /\ coder' = Moved(coder, s, k, to)
          /\ \/ /\ coder[s][k] = "take" /\ queue[s][k - 1] > 0
                /\ queue' = [queue EXCEPT ![s][k - 1] = @ - 1]
                /\ to \in IF k = 2 THEN {"tell"} ELSE {"push", "take"}
             \/ coder[s][k] = "take" /\ k = 2 /\ to = "push" /\ queue' = queue
             \/ /\ coder[s][k] = "take" /\ to = "block" /\ queue' = queue
                /\ queue[s][k - 1] = 0 /\ ~done[s][k - 1]
             \/ coder[s][k] = "block" /\ to = "wait" /\ queue' = queue
    <2> DEFINE Fits(to) ==
          /\ coder' = Moved(coder, s, k, to)
          /\ \/ /\ coder[s][k] = "take" /\ queue[s][k - 1] > 0
                /\ queue' = [queue EXCEPT ![s][k - 1] = @ - 1]
                /\ to \in IF k = 2 THEN {"tell"} ELSE {"push", "take"}
             \/ coder[s][k] = "take" /\ k = 2 /\ to = "push" /\ queue' = queue
             \/ /\ coder[s][k] = "take" /\ to = "block" /\ queue' = queue
                /\ queue[s][k - 1] = 0 /\ ~done[s][k - 1]
             \/ coder[s][k] = "block" /\ to = "wait" /\ queue' = queue
    <2>1. CASE Block(s, k)
      <3>1. Fits("wait")
        BY <2>1 DEF Block, At, Moved
      <3>2. QED
        BY <3>1 DEF Places
    <2>2. CASE k = 2 /\ Drain(s)
      <3>1. Fits("push")
        BY <2>2 DEF Drain, At, Moved
      <3>2. QED
        BY <3>1 DEF Places
    <2>3. CASE Take(s, k)
      <3>1. CASE queue[s][k - 1] > 0
        <4>1. PICK to \in IF k = 2 THEN {"tell"} ELSE Received(inside'[s][k]) :
                coder[s][k] = "take" /\ coder' = Moved(coder, s, k, to)
          BY <2>3, <3>1 DEF Take, At, Moved
        <4>2. to \in IF k = 2 THEN {"tell"} ELSE {"push", "take"}
          BY DEF Received
        <4>3. Fits(to) /\ to \in Places
          BY <2>3, <3>1, <4>1, <4>2 DEF Take, Places
        <4>4. QED
          BY <4>3
      <3>2. CASE ~(queue[s][k - 1] > 0)
        <4>1. Fits("block")
          BY <2>3, <3>2 DEF Take, At, Moved
        <4>2. QED
          BY <4>1 DEF Places
      <3>3. QED
        BY <3>1, <3>2
    <2>4. QED
      BY <2>1, <2>2, <2>3
  <1>3. /\ coder'[s][k] = to /\ \A j \in 1..2 : j # k => coder'[s][j] = coder[s][j]
        /\ \A r \in Streams : r # s => coder'[r] = coder[r]
    BY <1>1, <1>2, MovedAt
  <1>4. /\ \A r \in Streams : r # s => queue'[r] = queue[r]
        /\ \A n \in 0..2 : n # k - 1 => queue'[s][n] = queue[s][n]
        /\ to \in {"block", "wait"} => queue' = queue
    BY <1>1, <1>2 DEF Queues
  <1>5. k = 1 \/ k = 2
    OBVIOUS
  <1>6. PlaceOK(s)'
    BY <1>1, <1>2, <1>3, <1>5 DEF PlaceOK
  <1>7. RoomOK(s)'
    <2>1. CASE k = 1
      BY <1>2, <1>3, <2>1 DEF RoomOK
    <2>2. CASE k = 2
      <3>1. coder'[s][1] = coder[s][1] /\ coder[s][2] \in {"take", "block"}
        BY <1>2, <1>3, <2>2
      <3>2. to = "tell" \/ queue'[s][1] = queue[s][1]
        BY <1>2, <2>2
      <3>3. QED
        BY <1>1, <1>3, <2>2, <3>1, <3>2 DEF RoomOK
    <2>3. QED
      BY <1>5, <2>1, <2>2
  <1>8. Feeding(s, k - 1)' = Feeding(s, k - 1)
    BY <1>1, <1>3, <1>5 DEF Feeding
  <1>9. ASSUME ~lost
        PROVE  CoderAttended(s, k)'
    <2>1. CASE to = "block"
      <3>1. queue'[s][k - 1] = 0 /\ ~done[s][k - 1]
        BY <1>2, <2>1
      <3>2. Feeding(s, k - 1)
        BY <1>1, <1>5, <3>1 DEF Feeding, ReaderOK, Honest, Gone, MediaInv, MediaTypes, Readers, Streams
      <3>3. QED
        BY <1>8, <3>1, <3>2 DEF CoderAttended
    <2>2. CASE to = "wait"
      <3>1. coder[s][k] = "block" /\ queue' = queue
        BY <1>2, <2>2
      <3>2. QED
        BY <1>1, <1>5, <1>8, <1>9, <3>1 DEF Attended, CoderAttended, Asleep
    <2>3. QED
      BY <1>2, <1>3, <2>1, <2>2 DEF CoderAttended, Asleep
  <1>10. ASSUME ~lost, NEW j \in 1..2, j # k
         PROVE  CoderAttended(s, j)'
    <2>1. coder'[s][j] = coder[s][j] /\ queue'[s][j - 1] = queue[s][j - 1]
      BY <1>3, <1>4, <1>10
    <2>2. Feeding(s, j - 1) => Feeding(s, j - 1)'
      BY <1>1, <1>2, <1>3, <1>5, <1>10 DEF Feeding
    <2>3. CoderAttended(s, j)
      BY <1>1, <1>10 DEF Attended
    <2>4. QED
      BY <2>1, <2>2, <2>3 DEF CoderAttended
  <1>11. ~lost => MuxAttended(s)'
    <2>1. queue'[s][2] = queue[s][2] /\ (Feeding(s, 2) => Feeding(s, 2)')
      BY <1>2, <1>3, <1>4, <1>5 DEF Feeding
    <2>2. QED
      BY <1>1, <2>1 DEF Attended, MuxAttended
  <1>12. lost' \/ Attended(s)'
    BY <1>1, <1>5, <1>9, <1>10, <1>11 DEF Attended
  <1>13. QED
    BY <1>1, <1>3, <1>4, <1>6, <1>7, <1>12, StreamAttended

LEMMA PushAttended ==
  ASSUME MediaInv, AttendInv, NEW s \in Streams, NEW k \in 1..2, Push(s, k)
  PROVE  AttendInv'
  <1>1. /\ coder \in Coders /\ queue \in Queues /\ UNCHANGED <<done, reader, lost>>
        /\ PlaceOK(s) /\ RoomOK(s) /\ (lost \/ Attended(s))
        /\ coder[s][k] = "push" /\ ~Held(s, k) /\ {"full", "take", "push"} \subseteq Places
    BY DEF MediaInv, MediaTypes, AttendInv, Push, Places
  <1>2. k = 1 \/ k = 2
    OBVIOUS
  <1>3. CASE k = 1 /\ queue[s][1] = Capacity /\ coder' = Moved(coder, s, k, "full")
             /\ UNCHANGED <<queue, mux>>
    <2>1. /\ coder'[s][1] = "full" /\ coder'[s][2] = coder[s][2]
          /\ \A r \in Streams : r # s => coder'[r] = coder[r]
      BY <1>1, <1>3, MovedAt
    <2>2. PlaceOK(s)' /\ RoomOK(s)'
      BY <1>1, <1>3, <2>1 DEF PlaceOK, RoomOK
    <2>3. Attended(s) => Attended(s)'
      BY <1>1, <1>3, <2>1
      DEF Attended, CoderAttended, MuxAttended, Feeding, Asleep
    <2>4. QED
      BY <1>1, <1>3, <2>1, <2>2, <2>3, StreamAttended
  <1>4. ASSUME NEW to \in {"push", "take"},
               queue' = [queue EXCEPT ![s][k] = @ + 1], mux' = MuxWoken(s, k),
               coder' = Woken(s, k, Moved(coder, s, k, to))
        PROVE  AttendInv'
    <2> DEFINE moved == Moved(coder, s, k, to)
    <2>1. /\ moved \in Coders /\ moved[s][k] = to
          /\ \A j \in 1..2 : j # k => moved[s][j] = coder[s][j]
          /\ \A r \in Streams : r # s => moved[r] = coder[r]
      BY <1>1, MovedAt
    <2> HIDE DEF moved
    <2>2. /\ coder' = Woken(s, k, moved) /\ k \in 0..2
      BY <1>4 DEF moved
    <2>3. /\ \A r \in Streams : r # s => coder'[r] = moved[r]
          /\ \A j \in 1..2 : coder'[s][j] = IF moved[s][j] = "wait" /\ j = k + 1 THEN "take"
                                            ELSE IF moved[s][j] = "full" /\ j = k THEN "push"
                                            ELSE moved[s][j]
      BY <2>1, <2>2, WokenAt
    <2>4. /\ coder'[s][k] = to /\ \A r \in Streams : r # s => coder'[r] = coder[r]
      BY <2>1, <2>3
    <2>5. /\ \A r \in Streams : r # s => queue'[r] = queue[r]
          /\ \A n \in 0..2 : n # k => queue'[s][n] = queue[s][n]
      BY <1>1, <1>4 DEF Queues
    <2>6. CASE k = 1
      <3>1. /\ coder'[s][1] = to /\ mux' = mux
            /\ coder'[s][2] = IF coder[s][2] = "wait" THEN "take" ELSE coder[s][2]
        BY <1>4, <2>1, <2>3, <2>4, <2>6 DEF MuxWoken
      <3>2. coder[s][2] # "block"
        BY <1>1, <2>6 DEF Held
      <3>3. ~Asleep(coder'[s][2]) /\ ~Asleep(coder'[s][1])
        BY <3>1, <3>2 DEF Asleep
      <3>4. PlaceOK(s)' /\ RoomOK(s)'
        BY <1>1, <3>1 DEF PlaceOK, RoomOK
      <3>5. MuxAttended(s) => MuxAttended(s)'
        BY <2>5, <2>6, <3>1 DEF MuxAttended, Feeding
      <3>6. Attended(s) => Attended(s)'
        BY <3>3, <3>5 DEF Attended, CoderAttended
      <3>7. QED
        BY <1>1, <2>4, <2>5, <3>1, <3>4, <3>6, StreamAttended
    <2>7. CASE k = 2
      <3>1. /\ coder'[s][2] = to /\ coder'[s][1] = coder[s][1]
            /\ queue'[s][1] = queue[s][1] /\ queue'[s][0] = queue[s][0]
        BY <2>1, <2>3, <2>4, <2>5, <2>7
      <3>2. /\ mux \in Muxes /\ mux.at # "block" /\ (mux.at = "wait" => mux.of = s)
        BY <1>1, <2>7 DEF Held, MediaInv, MediaTypes
      <3>3. ~Asleep(mux'.at)
        <4>1. CASE mux.at = "wait"
          BY <1>4, <2>7, <3>2, <4>1 DEF MuxWoken, Muxes, Asleep
        <4>2. CASE mux.at # "wait"
          BY <1>4, <3>2, <4>2 DEF MuxWoken, Asleep
        <4>3. QED
          BY <4>1, <4>2
      <3>4. PlaceOK(s)'
        BY <1>1, <3>1 DEF PlaceOK
      <3>5. RoomOK(s)'
        BY <1>1, <2>7, <3>1 DEF RoomOK
      <3>6. CoderAttended(s, 1) => CoderAttended(s, 1)'
        BY <1>1, <3>1 DEF CoderAttended, Feeding
      <3>7. Attended(s) => Attended(s)'
        BY <3>1, <3>3, <3>6 DEF Attended, CoderAttended, MuxAttended, Asleep
      <3>8. QED
        BY <1>1, <2>4, <2>5, <3>3, <3>4, <3>5, <3>7, StreamAttended
    <2>8. QED
      BY <1>2, <2>6, <2>7
  <1>5. CASE k = 1 /\ queue[s][1] = Capacity
    BY <1>3, <1>5 DEF Push, At, Moved
  <1>6. CASE ~(k = 1 /\ queue[s][1] = Capacity)
    <2>1. PICK to \in Received(inside'[s][k]) : coder' = Woken(s, k, Moved(coder, s, k, to))
      BY <1>6 DEF Push, Moved
    <2>2. to \in {"push", "take"}
      BY DEF Received
    <2>3. queue' = [queue EXCEPT ![s][k] = @ + 1] /\ mux' = MuxWoken(s, k)
      BY <1>6 DEF Push
    <2>4. QED
      BY <1>4, <2>1, <2>2, <2>3
  <1>7. QED
    BY <1>5, <1>6

\* The encoder tells the decoder of the room.
LEMMA TellAttended ==
  ASSUME MediaInv, AttendInv, NEW s \in Streams, Tell(s)
  PROVE  AttendInv'
  <1>0. PICK to \in Received(inside[s][2]) : coder' = Woken(s, 1, Moved(coder, s, 2, to))
    BY DEF Tell, Moved
  <1> DEFINE moved == Moved(coder, s, 2, to)
  <1>1. /\ coder \in Coders /\ UNCHANGED <<queue, done, reader, mux, lost>>
        /\ PlaceOK(s) /\ (lost \/ Attended(s)) /\ coder[s][2] = "tell"
        /\ to \in {"push", "take"} /\ to \in Places
        /\ coder' = Woken(s, 1, moved)
    BY <1>0 DEF MediaInv, MediaTypes, AttendInv, Tell, Places, Received
  <1>2. /\ moved \in Coders /\ moved[s][2] = to /\ moved[s][1] = coder[s][1]
        /\ \A r \in Streams : r # s => moved[r] = coder[r]
    BY <1>1, MovedAt
  <1> HIDE DEF moved
  <1>3. /\ coder'[s][1] = IF coder[s][1] = "full" THEN "push" ELSE coder[s][1]
        /\ coder'[s][2] = to /\ \A r \in Streams : r # s => coder'[r] = coder[r]
    BY <1>1, <1>2, WokenAt
  <1>4. PlaceOK(s)' /\ RoomOK(s)'
    BY <1>1, <1>3 DEF PlaceOK, RoomOK
  <1>5. CoderAttended(s, 1) => CoderAttended(s, 1)'
    BY <1>1, <1>3 DEF CoderAttended, Feeding, Asleep
  <1>6. MuxAttended(s) => MuxAttended(s)'
    BY <1>1, <1>3 DEF MuxAttended, Feeding
  <1>7. Attended(s) => Attended(s)'
    BY <1>1, <1>3, <1>5, <1>6 DEF Attended, CoderAttended, Asleep
  <1>8. QED
    BY <1>1, <1>3, <1>4, <1>7, StreamAttended

\* A coder that has nothing more to do says so, and then notifies.
LEMMA FlagAttended ==
  ASSUME MediaInv, AttendInv, NEW s \in Streams, NEW k \in 1..2, Flag(s, k)
  PROVE  AttendInv'
  <1>1. /\ coder \in Coders /\ done \in Flags /\ UNCHANGED <<queue, reader, mux, lost>>
        /\ PlaceOK(s) /\ RoomOK(s) /\ (lost \/ Attended(s)) /\ "notify" \in Places
        /\ coder[s][k] = "take" /\ coder' = Moved(coder, s, k, "notify")
        /\ done' = [done EXCEPT ![s][k] = TRUE]
    BY DEF MediaInv, MediaTypes, AttendInv, Flag, At, Places, Moved
  <1>2. /\ coder'[s][k] = "notify" /\ \A j \in 1..2 : j # k => coder'[s][j] = coder[s][j]
        /\ \A r \in Streams : r # s => coder'[r] = coder[r]
    BY <1>1, MovedAt
  <1>3. (k = 1 \/ k = 2) /\ \A r \in Streams : done'[r][0] = done[r][0]
    <2>1. k = 1 \/ k = 2
      OBVIOUS
    <2>2. /\ done \in [Streams -> [0..2 -> BOOLEAN]] /\ done[s] \in [0..2 -> BOOLEAN]
          /\ done' = [done EXCEPT ![s] = [done[s] EXCEPT ![k] = TRUE]]
      BY <1>1 DEF Flags
    <2>3. [done[s] EXCEPT ![k] = TRUE][0] = done[s][0]
      <3>1. 0 \in 0..2 /\ k # 0
        BY <2>1
      <3>2. QED
        BY <2>2, <3>1
    <2>4. done'[s][0] = done[s][0] /\ \A r \in Streams : r # s => done'[r] = done[r]
      BY <2>2, <2>3
    <2>5. QED
      BY <2>1, <2>4
  <1>4. PlaceOK(s)' /\ RoomOK(s)'
    BY <1>1, <1>2, <1>3 DEF PlaceOK, RoomOK
  <1>5. Attended(s) => CoderAttended(s, 1)' /\ CoderAttended(s, 2)'
    BY <1>1, <1>2, <1>3 DEF Attended, CoderAttended, Feeding, Asleep
  <1>6. Attended(s) => MuxAttended(s)'
    BY <1>1, <1>2, <1>3 DEF Attended, MuxAttended, Feeding
  <1>7. QED
    BY <1>1, <1>2, <1>3, <1>4, <1>5, <1>6, StreamAttended DEF Attended

LEMMA NotifyAttended ==
  ASSUME MediaInv, AttendInv, NEW s \in Streams, NEW k \in 1..2, Notify(s, k)
  PROVE  AttendInv'
  <1> DEFINE moved == Moved(coder, s, k, "ended")
  <1>1. /\ coder \in Coders /\ mux \in Muxes /\ UNCHANGED <<queue, done, reader>>
        /\ PlaceOK(s) /\ RoomOK(s) /\ (lost \/ Attended(s)) /\ "ended" \in Places
        /\ coder[s][k] = "notify" /\ coder' = Woken(s, k, moved) /\ mux' = MuxWoken(s, k)
        /\ lost' = (lost \/ IF k = 1 THEN coder[s][2] = "block" ELSE mux.at = "block" /\ mux.of = s)
        /\ k \in 0..2
    BY DEF MediaInv, MediaTypes, AttendInv, Notify, Places, Moved
  <1>2. /\ moved \in Coders /\ moved[s][k] = "ended"
        /\ \A j \in 1..2 : j # k => moved[s][j] = coder[s][j]
        /\ \A r \in Streams : r # s => moved[r] = coder[r]
    BY <1>1, MovedAt
  <1> HIDE DEF moved
  <1>3. /\ \A r \in Streams : r # s => coder'[r] = coder[r]
        /\ \A j \in 1..2 : coder'[s][j] = IF moved[s][j] = "wait" /\ j = k + 1 THEN "take"
                                          ELSE IF moved[s][j] = "full" /\ j = k THEN "push"
                                          ELSE moved[s][j]
    BY <1>1, <1>2, WokenAt
  <1>4. CASE k = 1
    <2>1. /\ coder'[s][1] = "ended" /\ mux' = mux
          /\ coder'[s][2] = IF coder[s][2] = "wait" THEN "take" ELSE coder[s][2]
      BY <1>1, <1>2, <1>3, <1>4 DEF MuxWoken
    <2>2. PlaceOK(s)' /\ RoomOK(s)'
      BY <1>1, <2>1 DEF PlaceOK, RoomOK
    <2>3. lost' \/ (Attended(s) /\ ~Asleep(coder'[s][2]))
      BY <1>1, <1>4, <2>1 DEF Asleep
    <2>4. MuxAttended(s) => MuxAttended(s)'
      BY <1>1, <2>1 DEF MuxAttended, Feeding
    <2>5. lost' \/ Attended(s)'
      BY <2>1, <2>3, <2>4 DEF Attended, CoderAttended, Asleep
    <2>6. QED
      BY <1>1, <1>3, <2>1, <2>2, <2>5, StreamAttended
  <1>5. CASE k = 2
    <2>1. coder'[s][2] = "ended" /\ coder'[s][1] = coder[s][1]
      BY <1>1, <1>2, <1>3, <1>5
    <2>2. PlaceOK(s)' /\ RoomOK(s)'
      BY <1>1, <1>5, <2>1 DEF PlaceOK, RoomOK
    <2>3. /\ mux'.of = mux.of /\ (Asleep(mux'.at) => Asleep(mux.at))
          /\ lost' \/ (Attended(s) /\ ~(Asleep(mux'.at) /\ mux'.of = s))
      <3>1. CASE mux.at = "wait" /\ mux.of = s
        BY <1>1, <1>5, <3>1 DEF MuxWoken, Muxes, Asleep
      <3>2. CASE ~(mux.at = "wait" /\ mux.of = s)
        <4>1. mux' = mux
          <5>1. mux' = MuxWoken(s, k)
            BY <1>1
          <5>2. QED
            BY <3>2, <5>1 DEF MuxWoken
        <4>2. lost' \/ (Attended(s) /\ ~(mux.at = "block" /\ mux.of = s))
          <5>1. lost' = (lost \/ (mux.at = "block" /\ mux.of = s))
            BY <1>5 DEF Notify
          <5>2. lost \/ Attended(s)
            BY <1>1
          <5>3. QED
            BY <5>1, <5>2
        <4>3. QED
          BY <3>2, <4>1, <4>2 DEF Asleep
      <3>3. QED
        BY <3>1, <3>2
    <2>4. CoderAttended(s, 1) => CoderAttended(s, 1)'
      BY <1>1, <2>1 DEF CoderAttended, Feeding
    <2>5. lost' \/ Attended(s)'
      BY <2>1, <2>3, <2>4 DEF Attended, CoderAttended, MuxAttended, Asleep
    <2>6. QED
      BY <1>1, <1>3, <2>2, <2>3, <2>5, StreamAttended
  <1>6. QED
    BY <1>4, <1>5

\* The reader gives a packet, or ends a stream.
LEMMA ReadAttended ==
  ASSUME MediaInv, AttendInv, NEW s \in Streams, Read(s)
  PROVE  AttendInv'
  <1>1. /\ coder \in Coders /\ queue \in Queues /\ reader \in Readers
        /\ UNCHANGED <<done, mux, lost>> /\ coder[s][1] # "block" /\ reader.at = "read"
        /\ queue' = [queue EXCEPT ![s][0] = @ + 1] /\ coder' = Woken(s, 0, coder)
        /\ reader' = [reader EXCEPT !.left[s] = @ - 1]
    BY DEF MediaInv, MediaTypes, Read, Held
  <1>2. /\ \A r \in Streams : r # s => coder'[r] = coder[r]
        /\ coder'[s][1] = IF coder[s][1] = "wait" THEN "take" ELSE coder[s][1]
        /\ coder'[s][2] = coder[s][2]
    BY <1>1, WokenAt
  <1>3. /\ \A r \in Streams : r # s => queue'[r] = queue[r]
        /\ queue'[s][1] = queue[s][1] /\ queue'[s][2] = queue[s][2]
    BY <1>1 DEF Queues
  <1>4. reader'.at = "read"
    BY <1>1 DEF Readers
  <1>5. ReaderOK'
    BY <1>1, <1>4 DEF AttendInv, ReaderOK
  <1>6. ASSUME NEW r \in Streams
        PROVE  PlaceOK(r)' /\ RoomOK(r)' /\ (lost' \/ Attended(r)')
    <2>1. PlaceOK(r) /\ RoomOK(r) /\ (lost \/ Attended(r))
      BY DEF AttendInv
    <2>2. /\ coder'[r][1] = coder[r][1] \/ coder'[r][1] = "take"
          /\ coder'[r][2] = coder[r][2] /\ queue'[r][1] = queue[r][1] /\ queue'[r][2] = queue[r][2]
          /\ Asleep(coder'[r][1]) => coder'[r][1] = coder[r][1] /\ queue'[r][0] = queue[r][0]
      <3>1. CASE r = s
        BY <1>1, <1>2, <1>3, <3>1 DEF Asleep
      <3>2. CASE r # s
        BY <1>2, <1>3, <3>2
      <3>3. QED
        BY <3>1, <3>2
    <2>3. PlaceOK(r)' /\ RoomOK(r)'
      BY <2>1, <2>2 DEF PlaceOK, RoomOK
    <2>4. CoderAttended(r, 1) => CoderAttended(r, 1)'
      BY <1>4, <2>2 DEF CoderAttended, Feeding
    <2>5. CoderAttended(r, 2) => CoderAttended(r, 2)'
      BY <2>2 DEF CoderAttended, Feeding
    <2>6. MuxAttended(r) => MuxAttended(r)'
      BY <1>1, <2>2 DEF MuxAttended, Feeding
    <2>7. QED
      BY <1>1, <2>1, <2>3, <2>4, <2>5, <2>6 DEF Attended
  <1>7. QED
    BY <1>5, <1>6 DEF AttendInv

LEMMA ReadEndsAttended ==
  ASSUME MediaInv, AttendInv, NEW s \in Streams, NEW a, NEW n, ReadEnds(s, a, n),
         \/ s = "video" /\ a = "read" /\ n = "videoCV"
         \/ s = "video" /\ a = "videoCV" /\ n = "audio"
         \/ s = "audio" /\ a = "audio" /\ n = "audioCV"
         \/ s = "audio" /\ a = "audioCV" /\ n = "ended"
  PROVE  AttendInv'
  <1>1. /\ coder \in Coders /\ done \in Flags /\ reader \in Readers /\ UNCHANGED <<queue, mux>>
        /\ reader.at = a /\ \A r \in Streams : reader.left[r] = 0
        /\ reader' = [reader EXCEPT !.at = n] /\ ReaderOK
    BY DEF MediaInv, MediaTypes, AttendInv, ReadEnds
  <1>2. \/ /\ a \in {"read", "audio"} /\ UNCHANGED <<coder, lost>>
           /\ done' = [done EXCEPT ![s][0] = TRUE]
        \/ /\ a \in {"videoCV", "audioCV"} /\ done' = done /\ coder' = Woken(s, 0, coder)
           /\ lost' = (lost \/ coder[s][1] = "block")
    BY <1>1 DEF ReadEnds, ReaderOK
  <1>3. reader'.at = n /\ reader'.left = reader.left
    BY <1>1 DEF Readers
  <1>4. ReaderOK'
    <2>1. CASE a \in {"read", "audio"}
      <3>1. /\ done'[s][0] /\ \A r \in Streams : r # s => done'[r] = done[r]
        BY <1>1, <1>2, <2>1 DEF Flags
      <3>2. QED
        BY <1>1, <1>3, <2>1, <3>1 DEF ReaderOK, Streams
    <2>2. CASE a \in {"videoCV", "audioCV"}
      BY <1>1, <1>2, <1>3, <2>2 DEF ReaderOK
    <2>3. QED
      BY <1>2, <2>1, <2>2
  <1>5. ASSUME NEW r \in Streams
        PROVE  PlaceOK(r)' /\ RoomOK(r)' /\ (lost' \/ Attended(r)')
    <2>1. PlaceOK(r) /\ RoomOK(r) /\ (lost \/ Attended(r))
      BY DEF AttendInv
    <2>2. /\ coder'[r][1] = coder[r][1] \/ (coder'[r][1] = "take" /\ coder[r][1] = "wait")
          /\ coder'[r][2] = coder[r][2] /\ (lost => lost')
          /\ r = s /\ a \in {"videoCV", "audioCV"} => lost' \/ ~Asleep(coder'[r][1])
      <3>1. CASE UNCHANGED <<coder, lost>> /\ a \in {"read", "audio"}
        BY <3>1
      <3>2. CASE /\ coder' = Woken(s, 0, coder) /\ lost' = (lost \/ coder[s][1] = "block")
        <4>1. /\ r # s => coder'[r] = coder[r]
              /\ coder'[s][1] = IF coder[s][1] = "wait" THEN "take" ELSE coder[s][1]
              /\ coder'[s][2] = coder[s][2]
          BY <1>1, <3>2, WokenAt
        <4>2. QED
          BY <3>2, <4>1 DEF Asleep
      <3>3. QED
        BY <1>2, <3>1, <3>2
    <2>3. PlaceOK(r)' /\ RoomOK(r)'
      BY <1>1, <2>1, <2>2 DEF PlaceOK, RoomOK
    <2>4. Feeding(r, 0) => Feeding(r, 0)' \/ (r = s /\ a \in {"videoCV", "audioCV"})
      BY <1>1, <1>3 DEF Feeding, Streams
    <2>5. CoderAttended(r, 1) => lost' \/ CoderAttended(r, 1)'
      BY <1>1, <2>2, <2>4 DEF CoderAttended, Asleep
    <2>6. CoderAttended(r, 2) => CoderAttended(r, 2)'
      BY <1>1, <2>2 DEF CoderAttended, Feeding
    <2>7. MuxAttended(r) => MuxAttended(r)'
      BY <1>1, <2>2 DEF MuxAttended, Feeding
    <2>8. QED
      BY <2>1, <2>2, <2>3, <2>5, <2>6, <2>7 DEF Attended
  <1>6. QED
    BY <1>4, <1>5 DEF AttendInv

\* The writer of the file waits, or writes.
LEMMA MuxStepAttended ==
  ASSUME MediaInv, AttendInv, Mux
  PROVE  AttendInv'
  <1>1. /\ mux \in Muxes /\ queue \in Queues /\ UNCHANGED <<done, coder, reader, lost>>
        /\ \A s \in Streams, n \in 0..1 : queue'[s][n] = queue[s][n]
    <2>1. CASE MuxStarts \/ MuxWait
      BY <2>1 DEF MediaInv, MediaTypes, MuxStarts, MuxWait
    <2>2. CASE WritePacket
      <3>1. queue' = queue \/ \E s \in Streams : queue' = [queue EXCEPT ![s][2] = @ - 1]
        BY <2>2 DEF WritePacket
      <3>2. mux \in Muxes /\ queue \in Queues /\ UNCHANGED <<done, coder, reader, lost>>
        BY <2>2 DEF MediaInv, MediaTypes, WritePacket
      <3>3. \A s \in Streams, n \in 0..1 : queue'[s][n] = queue[s][n]
        <4>1. CASE queue' = queue
          BY <4>1
        <4>2. ASSUME NEW r \in Streams, queue' = [queue EXCEPT ![r][2] = @ - 1]
              PROVE  \A s \in Streams, n \in 0..1 : queue'[s][n] = queue[s][n]
          BY <3>2, <4>2 DEF Queues
        <4>3. QED
          BY <3>1, <4>1, <4>2
      <3>4. QED
        BY <3>2, <3>3
    <2>3. QED
      BY <2>1, <2>2 DEF Mux
  <1>2. ReaderOK'
    BY <1>1 DEF AttendInv, ReaderOK
  <1>3. ASSUME NEW s \in Streams PROVE ~lost => MuxAttended(s)'
    <2>1. CASE mux.at = "block" /\ mux' = [mux EXCEPT !.at = "wait"] /\ queue' = queue
      <3>1. Asleep(mux.at) /\ mux'.of = mux.of
        BY <1>1, <2>1 DEF Muxes, Asleep
      <3>2. QED
        BY <1>1, <2>1, <3>1 DEF AttendInv, Attended, MuxAttended, Feeding
    <2>2. CASE \E r \in Streams : /\ ~Ready(r) /\ queue' = queue
                                  /\ mux' = [mux EXCEPT !.at = "block", !.of = r]
      <3>1. PICK r \in Streams : /\ ~Ready(r) /\ queue' = queue
                                 /\ mux' = [mux EXCEPT !.at = "block", !.of = r]
        BY <2>2
      <3>2. mux'.of = r
        BY <1>1, <3>1 DEF Muxes
      <3>3. queue[r][2] \in Nat /\ Honest(r)
        BY <1>1 DEF Queues, MediaInv, Sound
      <3>4. queue'[r][2] = 0 /\ coder'[r][2] # "ended"
        BY <1>1, <3>1, <3>3 DEF Ready, Honest, Gone
      <3>5. QED
        BY <3>2, <3>4 DEF MuxAttended, Feeding
    <2>3. CASE WritePacket
      <3>1. mux'.at \in {"ended", "lock"}
        BY <1>1, <2>3 DEF WritePacket, Muxes
      <3>2. QED
        BY <3>1 DEF MuxAttended, Asleep
    <2>4. CASE MuxStarts
      <3>1. mux'.at \in {"empty", "flag", "skipped", "lock"}
        BY <1>1, <2>4 DEF MuxStarts, Muxes
      <3>2. QED
        BY <3>1 DEF MuxAttended, Asleep
    <2>5. QED
      BY <2>1, <2>2, <2>3, <2>4 DEF Mux, MuxWait
  <1>4. ASSUME NEW s \in Streams
        PROVE  PlaceOK(s)' /\ RoomOK(s)' /\ (lost' \/ Attended(s)')
    <2>1. PlaceOK(s) /\ RoomOK(s) /\ (lost \/ Attended(s))
      BY DEF AttendInv
    <2>2. PlaceOK(s)' /\ RoomOK(s)'
      BY <1>1, <2>1 DEF PlaceOK, RoomOK
    <2>3. queue'[s][0] = queue[s][0] /\ queue'[s][1] = queue[s][1]
      BY <1>1
    <2>4. Attended(s) => CoderAttended(s, 1)' /\ CoderAttended(s, 2)'
      BY <1>1, <2>3 DEF Attended, CoderAttended, Feeding
    <2>5. QED
      BY <1>1, <1>3, <2>1, <2>2, <2>4 DEF Attended
  <1>5. QED
    BY <1>2, <1>4 DEF AttendInv

LEMMA AttendInvHolds == SpecMedia => []AttendInv
  <1>1. InitMedia => AttendInv
    <2> SUFFICES ASSUME InitMedia PROVE AttendInv
      OBVIOUS
    <2>1. ReaderOK
      BY DEF InitMedia, ReaderOK, Streams
    <2>2. ASSUME NEW s \in Streams PROVE PlaceOK(s) /\ RoomOK(s) /\ Attended(s)
      <3>1. coder[s][1] = "take" /\ coder[s][2] = "take" /\ mux.at = "empty"
        BY DEF InitMedia
      <3>2. QED
        BY <3>1 DEF PlaceOK, RoomOK, Attended, CoderAttended, MuxAttended, Asleep
    <2>3. QED
      BY <2>1, <2>2 DEF AttendInv
  <1>2. MediaInv /\ AttendInv /\ [NextMedia]_mediaVars => AttendInv'
    <2> SUFFICES ASSUME MediaInv, AttendInv, [NextMedia]_mediaVars PROVE AttendInv'
      OBVIOUS
    <2>1. CASE Reader
      BY <2>1, ReadAttended, ReadEndsAttended, FileTypes DEF Reader
    <2>2. ASSUME NEW s \in Streams, NEW k \in 1..2, Coder(s, k)
          PROVE  AttendInv'
      BY <2>2, TakeAttended, PushAttended, FlagAttended, NotifyAttended, TellAttended DEF Coder
    <2>3. CASE UNCHANGED mediaVars
      BY <2>3
      DEF mediaVars, AttendInv, ReaderOK, PlaceOK, RoomOK, Attended, CoderAttended,
          MuxAttended, Feeding
    <2>4. QED
      BY <2>1, <2>2, <2>3, MuxStepAttended DEF NextMedia
  <1>3. QED
    BY <1>1, <1>2, MediaInvHolds, PTL DEF SpecMedia

(* No thread waits in vain, or goes to wait, unless it missed the last       *)
(* notification: its queue is empty, and the thread that fills it has not    *)
(* made its last notification yet (productionPackage, the decoders, the      *)
(* encoders, videoOutMP4File).                                               *)
EverySleeperAttended == lost \/ \A s \in Streams : Attended(s)

(* The safety half of FileEnds, for any file and any ring: no notification   *)
(* but the last of a queue can be missed, because the mutex of the queue is  *)
(* held from the test to the wait and by whoever fills the queue.            *)
THEOREM SleepersAttended == SpecMedia => []EverySleeperAttended
  <1>1. AttendInv => EverySleeperAttended
    BY DEF AttendInv, EverySleeperAttended
  <1>2. QED
    BY <1>1, AttendInvHolds, PTL

(* The six threads and their nine queues never all wait on each other, over  *)
(* a ring that holds a frame at least: from a thread that waits, the chain   *)
(* of those it waits for ends at one that can go on.                         *)
THEOREM TranscoderNeverStuck == ASSUME Capacity # 0 PROVE SpecMedia => []SomeoneMoves
  <1>1. MediaInv /\ AttendInv => SomeoneMoves
    <2> SUFFICES ASSUME MediaInv, AttendInv, ~lost, mux.at = "wait",
                        \A s \in Streams, k \in 1..2 : ~CoderMoves(s, k)
                 PROVE  ReaderMoves
      BY DEF SomeoneMoves, MuxMoves, MediaInv, MediaTypes, Muxes
    <2>1. /\ mux \in Muxes /\ coder \in Coders
          /\ \A s \in Streams : Attended(s) /\ PlaceOK(s) /\ RoomOK(s)
      BY DEF MediaInv, MediaTypes, AttendInv
    <2>2. mux.at = "wait" /\ mux.of \in Streams
      BY <2>1 DEF Muxes
    <2>3. PICK s \in Streams : s = mux.of
      BY <2>2
    <2>4. coder[s][2] \in Places /\ coder[s][1] \in Places /\ ~CoderMoves(s, 1) /\ ~CoderMoves(s, 2)
      BY <2>1 DEF Coders
    <2>5. coder[s][2] # "ended"
      BY <2>1, <2>2, <2>3 DEF Attended, MuxAttended, Feeding, Asleep
    <2>6. coder[s][2] # "push"
      BY <2>2, <2>3, <2>4 DEF CoderMoves, Held
    <2>7. coder[s][2] = "wait"
      BY <2>1, <2>4, <2>5, <2>6 DEF CoderMoves, Places, PlaceOK
    <2>8. queue[s][1] = 0 /\ coder[s][1] # "ended"
      BY <2>1, <2>7 DEF Attended, CoderAttended, Feeding, Asleep
    <2>9. coder[s][1] # "full"
      BY <2>1, <2>7, <2>8 DEF RoomOK
    <2>10. coder[s][1] # "push"
      BY <2>4, <2>7 DEF CoderMoves, Held
    <2>11. coder[s][1] = "wait"
      BY <2>1, <2>4, <2>8, <2>9, <2>10 DEF CoderMoves, Places, PlaceOK
    <2>12. reader.at # "ended"
      BY <2>1, <2>11 DEF Attended, CoderAttended, Feeding, Asleep
    <2>13. \A r \in Streams : ~Held(r, 0)
      BY DEF CoderMoves, Held
    <2>14. QED
      BY <2>12, <2>13 DEF ReaderMoves
  <1>2. QED
    BY <1>1, MediaInvHolds, AttendInvHolds, PTL
===============================================================================
