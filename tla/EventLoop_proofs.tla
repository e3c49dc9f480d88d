--------------------------- MODULE EventLoop_proofs ---------------------------
(***************************************************************************)
(* Proofs about EventLoop, for any set of threads, functors and channels:  *)
(* its types, that functors run once and in order, that no wakeup and no   *)
(* quit is lost, and that it takes only steps a task queue takes.          *)
(***************************************************************************)
EXTENDS EventLoop, SequenceTheorems, TLAPS

------------------------------------------------------------------------------
(* Sequences.                                                               *)

\* What a step does to a sequence made of two parts.
LEMMA AppendToPart ==
  ASSUME NEW S, NEW a \in Seq(S), NEW b \in Seq(S), NEW c \in Seq(S),
         NEW x \in S
  PROVE  /\ a \o Append(b, x) = Append(a \o b, x)
         /\ a \o b \o Append(c, x) = Append(a \o b \o c, x)
  <1>1. ASSUME NEW p \in Seq(S), NEW q \in Seq(S)
        PROVE  p \o Append(q, x) = Append(p \o q, x)
    BY <1>1
  <1>2. a \o b \in Seq(S)
    OBVIOUS
  <1>3. QED
    BY <1>1, <1>2

\* The head of a sequence made of two parts.
LEMMA HeadOfParts ==
  ASSUME NEW S, NEW b \in Seq(S), NEW c \in Seq(S), b # <<>>
  PROVE  /\ Head(b \o c) = Head(b)
         /\ Tail(b \o c) = Tail(b) \o c
         /\ b \o c # <<>>
  <1>1. Head(b \o c) = Head(b)
    OBVIOUS
  <1>2. Tail(b \o c) = Tail(b) \o c
    OBVIOUS
  <1>3. b \o c # <<>>
    OBVIOUS
  <1>4. QED
    BY <1>1, <1>2, <1>3

LEMMA ConcatEmpty ==
  ASSUME NEW S, NEW a \in Seq(S)
  PROVE  a \o <<>> = a /\ <<>> \o a = a
  OBVIOUS

------------------------------------------------------------------------------
(* Types.                                                                   *)

LEMMA TypeInit == Init => TypeOK
  <1> SUFFICES ASSUME Init
               PROVE  TypeOK
    OBVIOUS
  <1>1. <<>> \in Seq(Functors)
    OBVIOUS
  <1>2. /\ lp \in LoopPcs
        /\ looping \in BOOLEAN
        /\ looping <=> lp \notin {"init", "stopped"}
        /\ calling \in BOOLEAN
        /\ calling <=> lp \in {"swap", "functors", "functor"}
    BY DEF Init, LoopPcs
  <1>3. QED
    BY <1>1, <1>2 DEF Init, TypeOK

LEMMA TypeStep == TypeOK /\ [Next]_vars => TypeOK'
  <1> SUFFICES ASSUME TypeOK, [Next]_vars
               PROVE  TypeOK'
    OBVIOUS
  <1> USE DEF TypeOK, LoopPcs
  <1>1. ASSUME NEW t \in Threads, Call(t)
        PROVE  TypeOK'
    <2>1. ASSUME NEW f \in Functors, QueueInLoop(t, f)
          PROVE  TypeOK'
      BY <2>1 DEF QueueInLoop, Push
    <2>2. CASE Quit(t)
      BY <2>2 DEF Quit
    <2>3. CASE WakeupLoop(t)
      BY <2>3 DEF WakeupLoop
    <2>4. QED
      BY <1>1, <2>1, <2>2, <2>3 DEF Call
  <1>2. CASE LoopStep
    <2>1. CASE CheckQuit
      BY <2>1 DEF CheckQuit
    <2>2. CASE Loop
      BY <2>2 DEF Loop
    <2>3. CASE PollReturns
      BY <2>3 DEF PollReturns, Readable
    <2>4. CASE HandleRead
      BY <2>4 DEF HandleRead
    <2>5. ASSUME NEW c \in Channels, HandleEvent(c)
          PROVE  TypeOK'
      BY <2>5 DEF HandleEvent
    <2>6. CASE CallbackReturns
      BY <2>6 DEF CallbackReturns
    <2>7. CASE StartPending
      BY <2>7 DEF StartPending
    <2>8. CASE SwapPending
      BY <2>8 DEF SwapPending
    <2>9. CASE RunFunctor
      BY <2>9 DEF RunFunctor
    <2>10. CASE FunctorReturns
      BY <2>10 DEF FunctorReturns
    <2>11. CASE EndPending
      BY <2>11 DEF EndPending
    <2>12. QED
      BY <1>2, <2>1, <2>2, <2>3, <2>4, <2>5, <2>6, <2>7, <2>8, <2>9, <2>10, <2>11 DEF LoopStep
  <1>3. CASE PollTimeout
    BY <1>3 DEF PollTimeout
  <1>4. CASE UserStep
    <2>1. ASSUME NEW f \in Functors, QueueInOwnLoop(f)
          PROVE  TypeOK'
      BY <2>1 DEF QueueInOwnLoop, Push, InUserCode
    <2>2. CASE QuitInLoop
      BY <2>2 DEF QuitInLoop
    <2>3. QED
      BY <1>4, <2>1, <2>2 DEF UserStep
  <1>5. ASSUME NEW c \in Channels, BecomesReady(c)
        PROVE  TypeOK'
    BY <1>5 DEF BecomesReady
  <1>6. CASE UNCHANGED vars
    BY <1>6 DEF vars
  <1>7. QED
    BY <1>1, <1>2, <1>3, <1>4, <1>5, <1>6 DEF Next

\* Every variable keeps its type; looping_ and callingPendingFunctors_ are set
\* exactly while the loop's thread is where their names say.
THEOREM TypeCorrect == Spec => []TypeOK
  BY TypeInit, TypeStep, PTL DEF Spec

------------------------------------------------------------------------------
(* Order.                                                                   *)

LEMMA OrderStep == TypeOK /\ RunOnceInOrder /\ [Next]_vars => RunOnceInOrder'
  <1> SUFFICES ASSUME TypeOK, RunOnceInOrder, [Next]_vars
               PROVE  RunOnceInOrder'
    OBVIOUS
  <1>1. ASSUME NEW f \in Functors, Push(f), UNCHANGED <<executed, batch>>
        PROVE  RunOnceInOrder'
    <2>1. /\ executed \in Seq(Functors)
          /\ batch \in Seq(Functors)
          /\ pending \in Seq(Functors)
      BY DEF TypeOK
    <2>2. executed \o batch \o Append(pending, f)
            = Append(executed \o batch \o pending, f)
      BY <2>1, AppendToPart
    <2>3. QED
      BY <1>1, <2>2 DEF Push, RunOnceInOrder
  <1>2. CASE RunFunctor
    <2>1. /\ executed \in Seq(Functors)
          /\ batch \in Seq(Functors)
          /\ pending \in Seq(Functors)
          /\ batch # <<>>
      BY <1>2 DEF TypeOK, RunFunctor
    <2>2. Append(executed, Head(batch)) \o Tail(batch) \o pending
            = executed \o batch \o pending
      <3>1. Head(batch) \in Functors /\ Tail(batch) \in Seq(Functors)
            /\ <<Head(batch)>> \in Seq(Functors)
        BY <2>1, HeadTailProperties
      <3>2. Append(executed, Head(batch)) = executed \o <<Head(batch)>>
        BY <2>1, <3>1, AppendIsConcat
      <3>3. (executed \o <<Head(batch)>>) \o Tail(batch) = executed \o (<<Head(batch)>> \o Tail(batch))
        BY <2>1, <3>1, ConcatAssociative
      <3>4. <<Head(batch)>> \o Tail(batch) = batch
        BY <2>1
      <3>5. QED
        BY ONLY <3>2, <3>3, <3>4
    <2>3. QED
      BY <1>2, <2>2 DEF RunFunctor, RunOnceInOrder
  <1>3. CASE SwapPending
    <2>1. batch = <<>> /\ pending \in Seq(Functors) /\ executed \in Seq(Functors)
      BY <1>3 DEF SwapPending, TypeOK
    <2>2. executed \o pending \o <<>> = executed \o <<>> \o pending
      BY <2>1, ConcatEmpty
    <2>3. QED
      BY <1>3, <2>1, <2>2 DEF SwapPending, RunOnceInOrder
  <1>4. CASE UNCHANGED <<executed, batch, pending, queued>>
    BY <1>4 DEF RunOnceInOrder
  <1>5. ASSUME NEW t \in Threads, Call(t)
        PROVE  RunOnceInOrder'
    BY <1>1, <1>4, <1>5 DEF Call, QueueInLoop, Quit, WakeupLoop
  <1>6. CASE LoopStep
    BY <1>2, <1>3, <1>4, <1>6
    DEF LoopStep, Loop, CheckQuit, PollReturns, HandleRead, HandleEvent,
        CallbackReturns, StartPending, FunctorReturns, EndPending
  <1>7. CASE UserStep
    BY <1>1, <1>4, <1>7 DEF UserStep, QueueInOwnLoop, QuitInLoop
  <1>8. QED
    BY <1>4, <1>5, <1>6, <1>7 DEF Next, PollTimeout, BecomesReady, vars

\* Functors run once each, in the order they were queued in.
THEOREM FunctorsRunOnceInOrder == Spec => []RunOnceInOrder
  <1>1. Init => RunOnceInOrder
    BY DEF Init, RunOnceInOrder
  <1>2. QED
    BY <1>1, OrderStep, TypeCorrect, PTL DEF Spec

------------------------------------------------------------------------------
(* Wakeups.                                                                 *)

\* NoLostWakeup strengthened to an inductive invariant.  Whenever the loop's
\* thread is past its swap, or has not entered loop() yet, a functor that is not
\* its own early one has its wakeup: from the swap on, whoever pushes wakes the
\* loop, and only HandleRead, which comes before the next swap, empties the
\* eventfd.
WakeupComing == efd \/ \E t \in Threads : tpc[t] = "queued"

WakeupInv ==
  (lp \notin {"handle", "callback", "swap"} /\ Range(pending) \ early # {})
    => WakeupComing

LEMMA RangeOfAppend ==
  ASSUME NEW S, NEW s \in Seq(S), NEW x \in S
  PROVE  Range(Append(s, x)) = Range(s) \cup {x}
  <1>1. DOMAIN Append(s, x) = DOMAIN s \cup {Len(s) + 1}
    OBVIOUS
  <1>2. /\ \A i \in DOMAIN s : Append(s, x)[i] = s[i]
        /\ Append(s, x)[Len(s) + 1] = x
    OBVIOUS
  <1>3. QED
    BY <1>1, <1>2 DEF Range

LEMMA WakeupStep == TypeOK /\ WakeupInv /\ [Next]_vars => WakeupInv'
  <1> SUFFICES ASSUME TypeOK, WakeupInv, [Next]_vars
               PROVE  WakeupInv'
    OBVIOUS
  <1>1. CASE UNCHANGED <<lp, tpc, efd, pending, early>>
    BY <1>1 DEF WakeupInv, WakeupComing
  <1>2. ASSUME NEW t \in Threads, Call(t)
        PROVE  WakeupInv'
    <2>1. CASE WakeupLoop(t)
      BY <2>1 DEF WakeupLoop, WakeupInv, WakeupComing
    <2>2. CASE Quit(t)
      <3>1. \A u \in Threads : tpc[u] = "queued" => tpc'[u] = "queued"
        BY <2>2 DEF Quit, TypeOK
      <3>2. QED
        BY <2>2, <3>1 DEF Quit, WakeupInv, WakeupComing
    <2>3. ASSUME NEW f \in Functors, QueueInLoop(t, f)
          PROVE  WakeupInv'
      <3>1. tpc'[t] = "queued"
        BY <2>3 DEF QueueInLoop, TypeOK
      <3>2. QED
        BY <3>1 DEF WakeupInv, WakeupComing
    <2>4. QED
      BY <1>2, <2>1, <2>2, <2>3 DEF Call
  <1>3. CASE LoopStep
    <2>1. CASE SwapPending
      <3>1. Range(pending') = {}
        BY <2>1 DEF SwapPending, Range
      <3>2. QED
        BY <3>1 DEF WakeupInv
    <2>2. CASE lp' \in {"handle", "callback", "swap"}
      BY <2>2 DEF WakeupInv
    <2>3. CASE /\ lp \notin {"handle", "callback", "swap"}
               /\ UNCHANGED <<tpc, efd, pending, early>>
      BY <2>3 DEF WakeupInv, WakeupComing
    <2>4. QED
      BY <1>3, <2>1, <2>2, <2>3
      DEF LoopStep, Loop, CheckQuit, PollReturns, HandleRead, HandleEvent,
          CallbackReturns, StartPending, RunFunctor, FunctorReturns, EndPending
  <1>4. CASE PollTimeout
    BY <1>4 DEF PollTimeout, WakeupInv
  <1>5. CASE UserStep
    <2>1. ASSUME NEW f \in Functors, QueueInOwnLoop(f)
          PROVE  WakeupInv'
      <3>1. CASE lp = "init"
        <4>1. Range(pending') \ early' = Range(pending) \ (early \cup {f})
          BY <2>1, <3>1, RangeOfAppend DEF QueueInOwnLoop, Push, TypeOK
        <4>2. efd => efd'
          BY <2>1 DEF QueueInOwnLoop, TypeOK
        <4>3. QED
          BY <2>1, <3>1, <4>1, <4>2
          DEF QueueInOwnLoop, WakeupInv, WakeupComing
      <3>2. CASE lp = "callback"
        BY <2>1, <3>2 DEF QueueInOwnLoop, WakeupInv
      <3>3. CASE lp = "functor"
        <4>1. efd'
          BY <2>1, <3>3 DEF QueueInOwnLoop, TypeOK
        <4>2. QED
          BY <4>1 DEF WakeupInv, WakeupComing
      <3>4. QED
        BY <2>1, <3>1, <3>2, <3>3 DEF QueueInOwnLoop, InUserCode
    <2>2. QED
      BY <1>1, <1>5, <2>1 DEF UserStep, QuitInLoop
  <1>6. QED
    BY <1>1, <1>2, <1>3, <1>4, <1>5 DEF Next, BecomesReady, vars

\* The loop never blocks on a functor another thread queued without a wakeup
\* made or about to be made.
THEOREM WakeupsAreNotLost == Spec => []NoLostWakeup
  <1>1. Init => WakeupInv
    BY DEF Init, WakeupInv, Range
  <1>2. WakeupInv => NoLostWakeup
    BY DEF WakeupInv, WakeupComing, NoLostWakeup
  <1>3. QED
    BY <1>1, <1>2, WakeupStep, TypeCorrect, PTL DEF Spec

------------------------------------------------------------------------------
(* Quits.                                                                   *)

\* A quit() that finds the loop in epoll_wait has made its wakeup, or is about to.
QuitHeard ==
  (lp = "poll" /\ quit) => efd \/ \E t \in Threads : tpc[t] = "quitting"

LEMMA QuitStep == TypeOK /\ QuitHeard /\ [Next]_vars => QuitHeard'
  <1> SUFFICES ASSUME TypeOK, QuitHeard, [Next]_vars, lp' = "poll", quit'
               PROVE  efd' \/ \E t \in Threads : tpc'[t] = "quitting"
    BY DEF QuitHeard
  <1>1. CASE UNCHANGED <<lp, tpc, quit, efd>>
    BY <1>1 DEF QuitHeard
  <1>2. ASSUME NEW t \in Threads, Call(t)
        PROVE  efd' \/ \E u \in Threads : tpc'[u] = "quitting"
    <2>1. CASE WakeupLoop(t)
      BY <2>1 DEF WakeupLoop
    <2>2. CASE Quit(t)
      BY <2>2 DEF Quit, TypeOK
    <2>3. ASSUME NEW f \in Functors, QueueInLoop(t, f)
          PROVE  efd' \/ \E u \in Threads : tpc'[u] = "quitting"
      <3>1. \A u \in Threads : tpc[u] = "quitting" => tpc'[u] = "quitting"
        BY <2>3 DEF QueueInLoop, TypeOK
      <3>2. QED
        BY <2>3, <3>1 DEF QueueInLoop, QuitHeard
    <2>4. QED
      BY <1>2, <2>1, <2>2, <2>3 DEF Call
  <1>3. ~LoopStep
    \* The loop's thread comes to epoll_wait from its test of quit_ only.
    BY DEF LoopStep, Loop, CheckQuit, PollReturns, HandleRead, HandleEvent,
           CallbackReturns, StartPending, SwapPending, RunFunctor, FunctorReturns,
           EndPending
  <1>4. ~UserStep /\ ~PollTimeout
    BY DEF UserStep, QueueInOwnLoop, QuitInLoop, InUserCode, PollTimeout
  <1>5. QED
    BY <1>1, <1>2, <1>3, <1>4 DEF Next, BecomesReady, vars

\* No thread's quit() is slept through: the loop tests quit_ before it blocks,
\* and every quit() after that test wakes it (quit against loop). That is the
\* safety half of QuitStopsLoop.
THEOREM QuitsAreHeard == Spec => []QuitHeard
  <1>1. Init => QuitHeard
    BY DEF Init, QuitHeard
  <1>2. QED
    BY <1>1, QuitStep, TypeCorrect, PTL DEF Spec

------------------------------------------------------------------------------
(* Refinement.                                                              *)

LEMMA TaskStep == TypeOK /\ [Next]_vars => [Tasks!Next]_(Tasks!vars)
  <1> SUFFICES ASSUME TypeOK, [Next]_vars
               PROVE  [Tasks!Next]_(Tasks!vars)
    OBVIOUS
  <1> USE DEF Tasks!vars
  <1>1. ASSUME NEW f \in Functors, Push(f), UNCHANGED <<executed, batch, lp>>
        PROVE  Tasks!Submit(f)
    <2>1. batch \in Seq(Functors) /\ pending \in Seq(Functors)
      BY DEF TypeOK
    <2>2. batch \o Append(pending, f) = Append(batch \o pending, f)
      BY <2>1, AppendToPart
    <2>3. QED
      BY <1>1, <2>2 DEF Push, Tasks!Submit
  <1>2. CASE RunFunctor
    <2>1. /\ executed \in Seq(Functors)
          /\ batch \in Seq(Functors)
          /\ pending \in Seq(Functors)
          /\ batch # <<>>
      BY <1>2 DEF TypeOK, RunFunctor
    <2>2. /\ Head(batch \o pending) = Head(batch)
          /\ Tail(batch \o pending) = Tail(batch) \o pending
          /\ batch \o pending # <<>>
      BY <2>1, HeadOfParts
    <2>3. Tasks!Run
      BY <1>2, <2>2 DEF RunFunctor, Tasks!Run
    <2>4. QED
      BY <2>3 DEF Tasks!Next
  <1>3. CASE SwapPending
    <2>1. batch = <<>> /\ pending \in Seq(Functors)
      BY <1>3 DEF SwapPending, TypeOK
    <2>2. batch' \o pending' = batch \o pending
      BY <1>3, <2>1, ConcatEmpty DEF SwapPending
    <2>3. QED
      BY <1>3, <2>2 DEF SwapPending
  <1>4. CASE CheckQuit
    <2>1. CASE quit
      <3>1. Tasks!Stop
        BY <1>4, <2>1 DEF CheckQuit, Tasks!Stop
      <3>2. QED
        BY <3>1 DEF Tasks!Next
    <2>2. CASE ~quit
      BY <1>4, <2>2 DEF CheckQuit
    <2>3. QED
      BY <2>1, <2>2
  <1>5. CASE /\ UNCHANGED <<executed, batch, pending>>
             /\ lp # "stopped" /\ lp' # "stopped"
    BY <1>5
  <1>6. CASE UNCHANGED <<executed, batch, pending, lp>>
    BY <1>6
  <1>7. ASSUME NEW t \in Threads, Call(t)
        PROVE  [Tasks!Next]_(Tasks!vars)
    BY <1>1, <1>6, <1>7 DEF Call, QueueInLoop, Quit, WakeupLoop, Tasks!Next
  <1>8. CASE LoopStep
    BY <1>2, <1>3, <1>4, <1>5, <1>8
    DEF LoopStep, Loop, PollReturns, HandleRead, HandleEvent,
        CallbackReturns, StartPending, FunctorReturns, EndPending
  <1>9. CASE UserStep
    BY <1>1, <1>6, <1>9 DEF UserStep, QueueInOwnLoop, QuitInLoop, Tasks!Next
  <1>10. QED
    BY <1>5, <1>6, <1>7, <1>8, <1>9 DEF Next, PollTimeout, BecomesReady, vars

\* Every step of the loop and of its callers is a step of a task queue or
\* leaves it alone, for any threads, functors and channels.
THEOREM EventLoopIsTaskQueue == Spec => ImplementsTaskQueue
  <1>1. Init => Tasks!Init
    BY ConcatEmpty DEF Init, Tasks!Init
  <1>2. QED
    BY <1>1, TaskStep, TypeCorrect, PTL DEF Spec, Tasks!Spec, ImplementsTaskQueue
==============================================================================
