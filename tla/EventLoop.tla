------------------------------ MODULE EventLoop ------------------------------
(***************************************************************************)
(* EventLoop of 7_myMuduo: one thread runs loop(); any thread may call     *)
(* queueInLoop() and quit().  A call from another thread is two steps, the *)
(* store (under mutex_, or to the atomic quit_) and the write to the       *)
(* eventfd, so that every interleaving with the loop's thread is explored. *)
(*                                                                         *)
(* A functor stands for one call of queueInLoop, so each is queued at most *)
(* once; Functors bounds the number of calls.  runInLoop() called by the   *)
(* loop's thread runs its argument inside the callback that calls it, and  *)
(* called by another thread it is queueInLoop().  The eventfd is read and  *)
(* written as a flag: its counter is only ever tested for being non-zero.  *)
(***************************************************************************)
EXTENDS Integers, Sequences, Functions

CONSTANTS Threads,    \* the threads other than the loop's own
          Functors,   \* the calls of queueInLoop
          Channels    \* the channels registered beside wakeupChannel_

ASSUME ThreadsAssumption == Threads # {}

VARIABLES lp,        \* where the loop's thread is
          tpc,       \* where each other thread is inside queueInLoop or quit
          quit,      \* quit_
          looping,   \* looping_
          calling,   \* callingPendingFunctors_
          pending,   \* pendingFunctors_
          batch,     \* the rest of the local vector of doPendingFunctors
          efd,       \* wakeupFd_ is readable
          ready,     \* the channels whose descriptor is readable
          active,    \* the rest of activeChannels_; Wakeup is wakeupChannel_
          queued,    \* history: functors in the order they entered pendingFunctors_
          executed,  \* history: functors in the order they were started
          early      \* history: functors the loop's thread queued before loop()

loopVars == <<lp, quit, looping, calling, pending, batch, efd, ready, active>>
history  == <<queued, executed, early>>
vars     == <<lp, tpc, quit, looping, calling, pending, batch, efd, ready,
              active, queued, executed, early>>

Wakeup == "wakeupChannel"

ASSUME WakeupAssumption == Wakeup \notin Channels

LoopPcs == {"init", "check", "poll", "handle", "callback", "swap", "functors",
            "functor", "stopped"}

\* The loop's thread is running code of its user: the code before loop(), a
\* channel's callback, or a functor.
InUserCode == lp \in {"init", "callback", "functor"}

Init ==
  /\ lp = "init"
  /\ tpc = [t \in Threads |-> "idle"]
  /\ quit = FALSE
  /\ looping = FALSE
  /\ calling = FALSE
  /\ pending = <<>>
  /\ batch = <<>>
  /\ efd = FALSE
  /\ ready = {}
  /\ active = {}
  /\ queued = <<>>
  /\ executed = <<>>
  /\ early = {}

------------------------------------------------------------------------------
(* The other threads.                                                       *)

\* The critical section of queueInLoop.
Push(f) ==
  /\ f \notin Range(queued)
  /\ pending' = Append(pending, f)
  /\ queued' = Append(queued, f)

QueueInLoop(t, f) ==
  /\ tpc[t] = "idle"
  /\ Push(f)
  /\ tpc' = [tpc EXCEPT ![t] = "queued"]
  /\ UNCHANGED <<lp, quit, looping, calling, batch, efd, ready, active,
                 executed, early>>

\* Mutant of Quit: the caller does not wake the loop.
QuitSilently(t) ==
  /\ tpc[t] = "idle"
  /\ quit' = TRUE
  /\ UNCHANGED <<lp, tpc, looping, calling, pending, batch, efd, ready,
                 active, queued, executed, early>>

Quit(t) ==
  /\ tpc[t] = "idle"
  /\ quit' = TRUE
  /\ tpc' = [tpc EXCEPT ![t] = "quitting"]
  /\ UNCHANGED <<lp, looping, calling, pending, batch, efd, ready, active,
                 queued, executed, early>>

\* Mutant of WakeupLoop: "not my thread and running functors" for "or".
WakeupLoopIfCalling(t) ==
  /\ tpc[t] \in {"queued", "quitting"}
  /\ efd' = (efd \/ calling)
  /\ tpc' = [tpc EXCEPT ![t] = "idle"]
  /\ UNCHANGED <<lp, quit, looping, calling, pending, batch, ready, active,
                 queued, executed, early>>

\* Both calls end with wakeup(), since isInLoopThread() is false.
WakeupLoop(t) ==
  /\ tpc[t] \in {"queued", "quitting"}
  /\ efd' = TRUE
  /\ tpc' = [tpc EXCEPT ![t] = "idle"]
  /\ UNCHANGED <<lp, quit, looping, calling, pending, batch, ready, active,
                 queued, executed, early>>

------------------------------------------------------------------------------
(* The loop's own thread.                                                   *)

\* loop() starts, and forgets a quit() that came before it.
Loop ==
  /\ lp = "init"
  /\ looping' = TRUE
  /\ quit' = FALSE
  /\ lp' = "check"
  /\ UNCHANGED <<tpc, calling, pending, batch, efd, ready, active, queued,
                 executed, early>>

CheckQuit ==
  /\ lp = "check"
  /\ lp' = IF quit THEN "stopped" ELSE "poll"
  /\ looping' = ~quit
  /\ UNCHANGED <<tpc, quit, calling, pending, batch, efd, ready, active,
                 queued, executed, early>>

\* What epoll_wait has to report.
Readable == ready \cup (IF efd THEN {Wakeup} ELSE {})

PollReturns ==
  /\ lp = "poll"
  /\ Readable # {}
  /\ active' = Readable
  /\ lp' = "handle"
  /\ UNCHANGED <<tpc, quit, looping, calling, pending, batch, efd, ready,
                 queued, executed, early>>

\* Nothing to report for kPollTimeMs, or EINTR.
PollTimeout ==
  /\ lp = "poll"
  /\ Readable = {}
  /\ active' = {}
  /\ lp' = "handle"
  /\ UNCHANGED <<tpc, quit, looping, calling, pending, batch, efd, ready,
                 queued, executed, early>>

\* wakeupChannel_'s read callback empties the eventfd.
HandleRead ==
  /\ lp = "handle"
  /\ Wakeup \in active
  /\ active' = active \ {Wakeup}
  /\ efd' = FALSE
  /\ UNCHANGED <<lp, tpc, quit, looping, calling, pending, batch, ready,
                 queued, executed, early>>

\* handleEvent of another channel: its callback reads what made it ready.
HandleEvent(c) ==
  /\ lp = "handle"
  /\ c \in active \ {Wakeup}
  /\ active' = active \ {c}
  /\ ready' = ready \ {c}
  /\ lp' = "callback"
  /\ UNCHANGED <<tpc, quit, looping, calling, pending, batch, efd, queued,
                 executed, early>>

CallbackReturns ==
  /\ lp = "callback"
  /\ lp' = "handle"
  /\ UNCHANGED <<tpc, quit, looping, calling, pending, batch, efd, ready,
                 active, queued, executed, early>>

\* All active channels are handled: doPendingFunctors begins.
StartPending ==
  /\ lp = "handle"
  /\ active = {}
  /\ calling' = TRUE
  /\ lp' = "swap"
  /\ UNCHANGED <<tpc, quit, looping, pending, batch, efd, ready, active,
                 queued, executed, early>>

\* The critical section of doPendingFunctors.
SwapPending ==
  /\ lp = "swap"
  /\ batch' = pending
  /\ pending' = <<>>
  /\ lp' = "functors"
  /\ UNCHANGED <<tpc, quit, looping, calling, efd, ready, active, queued,
                 executed, early>>

\* Mutant of RunFunctor: the newest functor first.
RunFunctorNewest ==
  /\ lp = "functors"
  /\ batch # <<>>
  /\ executed' = Append(executed, batch[Len(batch)])
  /\ batch' = SubSeq(batch, 1, Len(batch) - 1)
  /\ lp' = "functor"
  /\ UNCHANGED <<tpc, quit, looping, calling, pending, efd, ready, active,
                 queued, early>>

RunFunctor ==
  /\ lp = "functors"
  /\ batch # <<>>
  /\ executed' = Append(executed, Head(batch))
  /\ batch' = Tail(batch)
  /\ lp' = "functor"
  /\ UNCHANGED <<tpc, quit, looping, calling, pending, efd, ready, active,
                 queued, early>>

FunctorReturns ==
  /\ lp = "functor"
  /\ lp' = "functors"
  /\ UNCHANGED <<tpc, quit, looping, calling, pending, batch, efd, ready,
                 active, queued, executed, early>>

EndPending ==
  /\ lp = "functors"
  /\ batch = <<>>
  /\ calling' = FALSE
  /\ lp' = "check"
  /\ UNCHANGED <<tpc, quit, looping, pending, batch, efd, ready, active,
                 queued, executed, early>>

\* Mutant of QueueInOwnLoop: the loop's own thread never needs waking.
QueueInOwnLoopSilently(f) ==
  /\ InUserCode
  /\ Push(f)
  /\ early' = IF lp = "init" THEN early \cup {f} ELSE early
  /\ UNCHANGED <<lp, tpc, quit, looping, calling, batch, efd, ready, active,
                 executed>>

\* queueInLoop called by the loop's own thread.  No other thread can tell the
\* push from the write to the eventfd that follows it, so they are one step.
QueueInOwnLoop(f) ==
  /\ InUserCode
  /\ Push(f)
  /\ efd' = (efd \/ calling)
  /\ early' = IF lp = "init" THEN early \cup {f} ELSE early
  /\ UNCHANGED <<lp, tpc, quit, looping, calling, batch, ready, active,
                 executed>>

\* quit called by the loop's own thread: no wakeup.
QuitInLoop ==
  /\ InUserCode
  /\ quit' = TRUE
  /\ UNCHANGED <<lp, tpc, looping, calling, pending, batch, efd, ready,
                 active, queued, executed, early>>

\* A peer makes a channel's descriptor readable.
BecomesReady(c) ==
  /\ ready' = ready \cup {c}
  /\ UNCHANGED <<lp, tpc, quit, looping, calling, pending, batch, efd, active,
                 queued, executed, early>>

------------------------------------------------------------------------------
Call(t) ==
  \/ \E f \in Functors : QueueInLoop(t, f)
  \/ Quit(t)
  \/ WakeupLoop(t)

\* The steps the loop's thread takes by itself, poll's timeout apart.
LoopStep ==
  \/ Loop
  \/ CheckQuit
  \/ PollReturns
  \/ HandleRead
  \/ \E c \in Channels : HandleEvent(c)
  \/ CallbackReturns
  \/ StartPending
  \/ SwapPending
  \/ RunFunctor
  \/ FunctorReturns
  \/ EndPending

\* The calls its user code chooses to make.
UserStep ==
  \/ \E f \in Functors : QueueInOwnLoop(f)
  \/ QuitInLoop

Next ==
  \/ \E t \in Threads : Call(t)
  \/ LoopStep
  \/ PollTimeout
  \/ UserStep
  \/ \E c \in Channels : BecomesReady(c)

Spec == Init /\ [][Next]_vars

\* A thread inside queueInLoop or quit comes to its wakeup; the loop's thread
\* is scheduled, and callbacks and functors return.  Nobody is obliged to call
\* anything, and poll's timeout is not relied upon.
PromptSpec ==
  /\ Spec
  /\ \A t \in Threads : WF_vars(WakeupLoop(t))
  /\ WF_vars(LoopStep)

------------------------------------------------------------------------------
TypeOK ==
  /\ lp \in LoopPcs
  /\ tpc \in [Threads -> {"idle", "queued", "quitting"}]
  /\ quit \in BOOLEAN
  /\ looping \in BOOLEAN
  /\ looping <=> lp \notin {"init", "stopped"}
  /\ calling \in BOOLEAN
  /\ calling <=> lp \in {"swap", "functors", "functor"}
  /\ pending \in Seq(Functors)
  /\ batch \in Seq(Functors)
  /\ lp \notin {"functors", "functor"} => batch = <<>>
  /\ efd \in BOOLEAN
  /\ ready \subseteq Channels
  /\ active \subseteq Channels \cup {Wakeup}
  /\ queued \in Seq(Functors)
  /\ executed \in Seq(Functors)
  /\ early \subseteq Functors

\* Functors run once each and in the order in which threads won the mutex,
\* whatever is pushed while the loop swaps and runs (queueInLoop against
\* doPendingFunctors).
RunOnceInOrder == executed \o batch \o pending = queued

\* The loop never sits in epoll_wait on a functor with nothing to wake it: the
\* eventfd is readable or the thread that pushed is about to write it.  Only
\* functors its own thread queued before loop() are waited on (queueInLoop).
NoLostWakeup ==
  (lp = "poll" /\ Range(pending) \ early # {}) =>
     \/ efd
     \/ \E t \in Threads : tpc[t] = "queued"

\* A functor queued by any thread once loop() has been entered, or by another
\* thread at any time, runs without waiting for poll's timeout, unless the loop
\* is told to quit (queueInLoop, wakeup, doPendingFunctors).
QueuedFunctorRuns ==
  \A f \in Functors :
    (f \in Range(queued) \ early) ~> (f \in Range(executed) \/ quit)

\* A quit() that finds the loop running stops it, though it may be blocked in
\* epoll_wait at that moment (quit against loop).
QuitStopsLoop == (quit /\ lp # "init") ~> (lp = "stopped")

\* Another view of the same queue: every step of the loop and its callers is a
\* step of a TaskQueue, where what is queued and not started is the rest of the
\* batch being run followed by pendingFunctors_.
Tasks == INSTANCE TaskQueue WITH
  todo <- batch \o pending,
  done <- executed,
  stopped <- (lp = "stopped")

ImplementsTaskQueue == Tasks!Spec
==============================================================================
