--------------------------- MODULE EventLoopThread ---------------------------
(***************************************************************************)
(* EventLoopThreadPool::start and its destructor over EventLoopThread and  *)
(* Thread of 7_myMuduo: the main thread starts one thread after another,   *)
(* waits for each to hand over its EventLoop, and later quits and joins    *)
(* them.  The EventLoop lives on its thread's stack, the EventLoopThread in *)
(* the pool, and each thread uses the other's object.                      *)
(*                                                                         *)
(* Of a loop only the rounds and quit_ are kept; EventLoop has the rest.   *)
(***************************************************************************)
EXTENDS Naturals

CONSTANT NumThreads      \* numThreads_

ASSUME NumThreadsAssumption == NumThreads \in Nat \ {0}

Threads == 1..NumThreads

VARIABLES main,      \* where the main thread is
          cur,       \* the EventLoopThread it is busy with
          thr,       \* where each thread is
          loop,      \* whether loop_ is set
          quit,      \* quit_ of the EventLoop
          wake,      \* its eventfd is readable
          destroyed, \* EventLoopThreads destroyed
          selfQuit,  \* history: loops that code of their own thread quit
          early      \* history: loops quit by the pool before loop() was entered

loopVars == <<quit, wake>>
history == <<selfQuit, early>>
vars == <<main, cur, thr, loop, loopVars, destroyed, history>>

Init ==
  /\ main = "starting"
  /\ cur = 1
  /\ thr = [t \in Threads |-> "none"]
  /\ loop = [t \in Threads |-> FALSE]
  /\ quit = [t \in Threads |-> FALSE]
  /\ wake = [t \in Threads |-> FALSE]
  /\ destroyed = {}
  /\ selfQuit = {}
  /\ early = {}

\* The EventLoop of the thread exists.
LoopAlive(t) == thr[t] \notin {"none", "created", "construct", "exited"}

Goes(t, pc) == thr' = [thr EXCEPT ![t] = pc]

------------------------------------------------------------------------------
(* The main thread in EventLoopThreadPool::start.                           *)

\* startLoop calls Thread::start, which creates the thread.
StartThread ==
  /\ main = "starting"
  /\ Goes(cur, "created")
  /\ main' = "semWait"
  /\ UNCHANGED <<cur, loop, loopVars, destroyed, history>>

SemWait ==
  /\ main = "semWait"
  /\ thr[cur] # "created"
  /\ main' = "checking"
  /\ UNCHANGED <<cur, thr, loop, loopVars, destroyed, history>>

Started ==
  IF cur < NumThreads
    THEN main' = "starting" /\ cur' = cur + 1
    ELSE main' = "running" /\ cur' = 1

\* Mutant of CheckLoop: "if" for "while", so any wake-up is taken for the loop.
CheckLoopOnce ==
  /\ main = "checking"
  /\ \/ Started
     \/ ~loop[cur] /\ main' = "waiting" /\ UNCHANGED cur
  /\ UNCHANGED <<thr, loop, loopVars, destroyed, history>>

\* startLoop looks at loop_ under the mutex, and waits on cond_ or returns it.
CheckLoop ==
  /\ main = "checking"
  /\ \/ loop[cur] /\ Started
     \/ ~loop[cur] /\ main' = "waiting" /\ UNCHANGED cur
  /\ UNCHANGED <<thr, loop, loopVars, destroyed, history>>

\* cond_.wait may return without a notification.
SpuriousWakeup ==
  /\ main = "waiting"
  /\ main' = "checking"
  /\ UNCHANGED <<cur, thr, loop, loopVars, destroyed, history>>

------------------------------------------------------------------------------
(* The main thread in the destructors of the pool and its EventLoopThreads. *)

DestroyPool ==
  /\ main = "running"
  /\ main' = "destroying"
  /\ UNCHANGED <<cur, thr, loop, loopVars, destroyed, history>>

\* The EventLoopThread's members are gone, and the next one's turn comes.
Destroyed ==
  /\ destroyed' = destroyed \cup {cur}
  /\ IF cur < NumThreads
       THEN main' = "destroying" /\ cur' = cur + 1
       ELSE main' = "gone" /\ UNCHANGED cur

\* ~EventLoopThread looks at loop_ without the mutex; when it is null ~Thread
\* detaches the thread.
ReadLoop ==
  /\ main = "destroying"
  /\ \/ /\ loop[cur]
        /\ main' = "quitting"
        /\ UNCHANGED <<cur, destroyed>>
     \/ ~loop[cur] /\ Destroyed
  /\ UNCHANGED <<thr, loop, loopVars, history>>

\* The assignment in quit(); on a loop that is gone it has no effect.
QuitLoop ==
  /\ main = "quitting"
  /\ main' = "waking"
  /\ quit' = [quit EXCEPT ![cur] = @ \/ LoopAlive(cur)]
  /\ early' = IF thr[cur] = "published" THEN early \cup {cur} ELSE early
  /\ UNCHANGED <<cur, thr, loop, wake, destroyed, selfQuit>>

\* Mutant of WakeupLoop: quit() leaves a blocked loop asleep.
WakeupLoopNever ==
  /\ main = "waking"
  /\ main' = "joining"
  /\ UNCHANGED <<cur, thr, loop, loopVars, destroyed, history>>

\* The wakeup in quit(), whose loop may have left and been destroyed since.
WakeupLoop ==
  /\ main = "waking"
  /\ main' = "joining"
  /\ wake' = [wake EXCEPT ![cur] = @ \/ LoopAlive(cur)]
  /\ UNCHANGED <<cur, thr, loop, quit, destroyed, history>>

Join ==
  /\ main = "joining"
  /\ thr[cur] = "exited"
  /\ Destroyed
  /\ UNCHANGED <<thr, loop, loopVars, history>>

------------------------------------------------------------------------------
(* A pool thread: Thread::start's lambda, then threadFunc.                  *)

PostSem(t) ==
  /\ thr[t] = "created"
  /\ Goes(t, "construct")
  /\ UNCHANGED <<main, cur, loop, loopVars, destroyed, history>>

\* The EventLoop is constructed and callback_ is called with it.
RunInitCallback(t) ==
  /\ thr[t] = "construct"
  /\ Goes(t, "ready")
  /\ UNCHANGED <<main, cur, loop, loopVars, destroyed, history>>

\* Mutant of Publish: cond_ is not notified.
PublishSilently(t) ==
  /\ thr[t] = "ready"
  /\ Goes(t, "published")
  /\ loop' = [loop EXCEPT ![t] = TRUE]
  /\ UNCHANGED <<main, cur, loopVars, destroyed, history>>

\* loop_ is set, and cond_ notified, under the mutex.
Publish(t) ==
  /\ thr[t] = "ready"
  /\ Goes(t, "published")
  /\ loop' = [loop EXCEPT ![t] = TRUE]
  /\ main' = IF main = "waiting" /\ cur = t THEN "checking" ELSE main
  /\ UNCHANGED <<cur, loopVars, destroyed, history>>

\* loop() starts by clearing quit_.
EnterLoop(t) ==
  /\ thr[t] = "published"
  /\ Goes(t, "check")
  /\ quit' = [quit EXCEPT ![t] = FALSE]
  /\ UNCHANGED <<main, cur, loop, wake, destroyed, history>>

CheckQuit(t) ==
  /\ thr[t] = "check"
  /\ Goes(t, IF quit[t] THEN "left" ELSE "polling")
  /\ UNCHANGED <<main, cur, loop, loopVars, destroyed, history>>

\* epoll_wait returns, woken by the eventfd.
PollWoken(t) ==
  /\ thr[t] = "polling"
  /\ wake[t]
  /\ Goes(t, "round")
  /\ wake' = [wake EXCEPT ![t] = FALSE]
  /\ UNCHANGED <<main, cur, loop, quit, destroyed, history>>

\* epoll_wait returns for some other event, or at its timeout.
PollReturns(t) ==
  /\ thr[t] = "polling"
  /\ ~wake[t]
  /\ Goes(t, "round")
  /\ UNCHANGED <<main, cur, loop, loopVars, destroyed, history>>

EndRound(t) ==
  /\ thr[t] = "round"
  /\ Goes(t, "check")
  /\ UNCHANGED <<main, cur, loop, loopVars, destroyed, history>>

\* A callback or functor of the loop calls quit().
SelfQuit(t) ==
  /\ thr[t] = "round"
  /\ quit' = [quit EXCEPT ![t] = TRUE]
  /\ selfQuit' = selfQuit \cup {t}
  /\ UNCHANGED <<main, cur, thr, loop, wake, destroyed, early>>

\* threadFunc takes the mutex and sets loop_ to null...
ResetLoop(t) ==
  /\ thr[t] = "left"
  /\ Goes(t, "reset")
  /\ loop' = [loop EXCEPT ![t] = FALSE]
  /\ UNCHANGED <<main, cur, loopVars, destroyed, history>>

\* ... and leaves: the mutex is released first, the EventLoop destroyed next.
Unlock(t) ==
  /\ thr[t] = "reset"
  /\ Goes(t, "unlocked")
  /\ UNCHANGED <<main, cur, loop, loopVars, destroyed, history>>

DestroyLoop(t) ==
  /\ thr[t] = "unlocked"
  /\ Goes(t, "exited")
  /\ UNCHANGED <<main, cur, loop, loopVars, destroyed, history>>

------------------------------------------------------------------------------
MainStep ==
  \/ StartThread \/ SemWait \/ CheckLoop
  \/ ReadLoop \/ QuitLoop \/ WakeupLoop \/ Join

ThreadStep(t) ==
  \/ PostSem(t) \/ RunInitCallback(t) \/ Publish(t)
  \/ EnterLoop(t) \/ CheckQuit(t) \/ PollWoken(t) \/ EndRound(t)
  \/ ResetLoop(t) \/ Unlock(t) \/ DestroyLoop(t)

Next ==
  \/ MainStep
  \/ SpuriousWakeup
  \/ DestroyPool
  \/ \E t \in Threads : ThreadStep(t) \/ PollReturns(t) \/ SelfQuit(t)

Spec == Init /\ [][Next]_vars

\* Threads are scheduled and callbacks return; neither poll's timeout nor a
\* spurious wake-up is counted upon, and nobody has to destroy the pool.
FairSpec ==
  /\ Spec
  /\ WF_vars(MainStep)
  /\ \A t \in Threads : WF_vars(ThreadStep(t))

------------------------------------------------------------------------------
MainPcs == {"starting", "semWait", "checking", "waiting", "running",
            "destroying", "quitting", "waking", "joining", "gone"}
ThreadPcs == {"none", "created", "construct", "ready", "published", "check", "polling",
              "round", "left", "reset", "unlocked", "exited"}

TypeOK ==
  /\ main \in MainPcs
  /\ cur \in Threads
  /\ thr \in [Threads -> ThreadPcs]
  /\ loop \in [Threads -> BOOLEAN]
  /\ \A t \in Threads :
       loop[t] <=> thr[t] \in {"published", "check", "polling", "round", "left"}
  /\ quit \in [Threads -> BOOLEAN]
  /\ wake \in [Threads -> BOOLEAN]
  /\ destroyed \subseteq Threads
  /\ selfQuit \subseteq Threads
  /\ early \subseteq Threads

\* When start() goes on from a thread, and until the pool is destroyed, the loop
\* it keeps in loops_ exists and has had the ThreadInitCallback, unless that
\* loop was quit by its own callbacks (startLoop against threadFunc).
StartedLoopsLive ==
  \A t \in Threads \ selfQuit :
    \/ main = "running"
    \/ main \in {"starting", "semWait", "checking", "waiting"} /\ t < cur
    => loop[t]

\* An EventLoopThread is destroyed only after its thread has exited, unless its
\* loop was quit by its own callbacks: the destructor then finds loop_ null and
\* does not join (~EventLoopThread against the end of threadFunc).
DestroyedAfterExit ==
  \A t \in destroyed \ selfQuit : thr[t] = "exited"

\* start() returns, unless a loop quits itself before startLoop has looked
\* at loop_ (startLoop and Thread::start against threadFunc).
StartReturns == (main = "semWait") ~> (main = "running" \/ selfQuit # {})

\* The pool's destructor returns, blocked loops and all, unless it quits a loop
\* that has not entered loop() (~EventLoopThread, quit).
DestructorReturns == (main = "destroying") ~> (main = "gone" \/ early # {})

\* What EventLoop.cc:97 says of quit() from another thread, that the loop is woken
\* and finds quit_ true in its next round: the thread ~EventLoopThread joins, after
\* quitting its loop, ends. The code breaks it (README, 5).
QuitEndsThread == (main = "joining") ~> (main # "joining")
==============================================================================
