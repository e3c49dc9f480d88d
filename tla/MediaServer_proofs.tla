-------------------------- MODULE MediaServer_proofs --------------------------
(***************************************************************************)
(* Proofs about the server of 6_IPV4UDP: the counts, the wake-ups and the  *)
(* end of its thread pool, for any sizes and any number of producers, and  *)
(* the rate of its channels, for any rates, directories and songs.         *)
(***************************************************************************)
EXTENDS AdaptivePool, Media, WellFoundedInduction, TLAPS

(* The thread pool.                                                          *)

Typed ==
  /\ th \in [Places -> Nat] /\ prod \in [Places -> Nat]
  /\ queueSize \in Nat /\ numLive \in Int /\ numBusy \in Int /\ numExit \in Int
  /\ shut \in BOOLEAN /\ spent \in BOOLEAN

\* A place in the queue that a sleeping producer waits for is filled, or a
\* producer was woken for it.
PlacesPromised ==
  ~shut /\ prod["wait"] > 0 => queueSize + prod["woken"] >= queueCapacity

\* No thread that works or sleeps is missing in numLive, also after the end.
AllCounted == Awake + th["wait"] <= numLive

IInv == /\ Typed /\ AllCounted /\ numLive <= numMax /\ queueSize <= queueCapacity
        /\ CountsExact /\ NoStrandedTask /\ PlacesPromised

LEMMA MovedTyped ==
  ASSUME NEW f \in [Places -> Nat], NEW a \in Places, NEW b \in Places, a # b, f[a] > 0
  PROVE  /\ Moved(f, a, b) \in [Places -> Nat]
         /\ Moved(f, a, b)[a] = f[a] - 1 /\ Moved(f, a, b)[b] = f[b] + 1
         /\ \A p \in Places : p # a /\ p # b => Moved(f, a, b)[p] = f[p]
  BY DEF Moved

LEMMA SignalledTyped ==
  ASSUME NEW f \in [Places -> Nat]
  PROVE  /\ Signalled(f) \in [Places -> Nat]
         /\ \A p \in Places : p # "wait" /\ p # "woken" => Signalled(f)[p] = f[p]
         /\ f["wait"] = 0 => Signalled(f) = f
         /\ f["wait"] > 0 => Signalled(f)["wait"] = f["wait"] - 1 /\ Signalled(f)["woken"] = f["woken"] + 1
  <1>1. "wait" \in Places /\ "woken" \in Places BY DEF Places
  <1>2. CASE f["wait"] = 0 BY <1>2, <1>1 DEF Signalled
  <1>3. CASE f["wait"] > 0 BY <1>3, <1>1, MovedTyped DEF Signalled
  <1>4. QED BY <1>1, <1>2, <1>3

LEMMA PlacesAre ==
  /\ "none" \in Places /\ "lock" \in Places /\ "wait" \in Places /\ "woken" \in Places
  /\ "taken" \in Places /\ "run" \in Places /\ "exit" \in Places /\ "idle" \in Places
  /\ "returned" \in Places /\ "stopped" \in Places
  BY DEF Places

LEMMA Initially == Init => IInv
  <1> SUFFICES ASSUME Init PROVE IInv
    OBVIOUS
  <1>1. numMin \in Nat /\ numMax \in Nat /\ numMin <= numMax /\ numMin > 0
        /\ queueCapacity \in Nat /\ NumProducers \in Nat
    BY SizesAssumption
  <1>2. /\ th \in [Places -> Nat] /\ th["lock"] = numMin /\ th["wait"] = 0
        /\ th["woken"] = 0 /\ th["taken"] = 0 /\ th["run"] = 0
    BY <1>1 DEF Init, At, Places
  <1>3. prod \in [Places -> Nat] /\ prod["wait"] = 0
    BY <1>1 DEF Init, At, Places
  <1>4. /\ queueSize = 0 /\ numLive = numMin /\ numBusy = 0 /\ numExit = 0
        /\ shut = FALSE /\ spent = FALSE
    BY DEF Init
  <1>5. Typed /\ numLive <= numMax /\ queueSize <= queueCapacity
    <2>1. shut \in BOOLEAN /\ spent \in BOOLEAN
      BY <1>4, Zenon
    <2>2. queueSize \in Nat /\ numLive \in Int /\ numBusy \in Int /\ numExit \in Int
      BY <1>1, <1>4
    <2>3. numLive <= numMax /\ queueSize <= queueCapacity
      BY <1>1, <1>4
    <2>4. QED BY <1>2, <1>3, <2>1, <2>2, <2>3 DEF Typed
  <1>6. CountsExact /\ AllCounted
    BY <1>1, <1>2, <1>4 DEF CountsExact, AllCounted, Awake
  <1>7. NoStrandedTask /\ PlacesPromised
    BY <1>3, <1>4 DEF NoStrandedTask, PlacesPromised
  <1>8. QED BY <1>5, <1>6, <1>7 DEF IInv

LEMMA RetireKeeps == IInv /\ Retire => IInv'
  <1> SUFFICES ASSUME IInv, Retire PROVE IInv'
    OBVIOUS
  <1> USE SizesAssumption, PlacesAre
  <1>1. /\ th' = Moved(th, "woken", "exit") /\ th["woken"] > 0
        /\ th \in [Places -> Nat] /\ numExit' = numExit - 1 /\ numLive' = numLive - 1
        /\ numLive > numMin
        /\ spent' \in BOOLEAN /\ (queueSize > 0 /\ ~shut => spent')
        /\ UNCHANGED <<queueSize, numBusy, shut, prod>>
    BY DEF Retire, Has, Retires, IInv, Typed
  <1>2. /\ th' \in [Places -> Nat] /\ th'["woken"] = th["woken"] - 1
        /\ \A p \in Places : p # "woken" /\ p # "exit" => th'[p] = th[p]
    BY <1>1, MovedTyped
  <1>3. Typed'
    BY <1>1, <1>2 DEF IInv, Typed
  <1>4. CountsExact' /\ AllCounted'
    BY <1>1, <1>2 DEF IInv, Typed, CountsExact, AllCounted, Awake
  <1>5. NoStrandedTask'
    BY <1>1 DEF IInv, Typed, NoStrandedTask
  <1>6. PlacesPromised' /\ numLive' <= numMax /\ queueSize' <= queueCapacity
    BY <1>1 DEF IInv, Typed, PlacesPromised
  <1>7. QED BY <1>3, <1>4, <1>5, <1>6 DEF IInv

LEMMA LoopKeeps == ASSUME IInv, NEW p \in {"lock", "woken"}, Loop(p) PROVE IInv'
  <1> USE SizesAssumption, PlacesAre
  <1>1. /\ th[p] > 0 /\ th \in [Places -> Nat] /\ prod \in [Places -> Nat]
        /\ UNCHANGED <<numLive, numBusy, shut, spent>> /\ numExit' \in Int
    BY DEF Loop, Has, IInv, Typed
  <1>2. CASE th' = Moved(th, p, "wait") /\ queueSize = 0 /\ ~shut /\ UNCHANGED <<queueSize, prod>>
    <2>1. /\ th' \in [Places -> Nat] /\ th'["wait"] = th["wait"] + 1 /\ th'[p] = th[p] - 1
          /\ \A q \in Places : q # p /\ q # "wait" => th'[q] = th[q]
      BY <1>1, <1>2, MovedTyped
    <2>2. QED
      BY <1>1, <1>2, <2>1 DEF IInv, Typed, CountsExact, AllCounted, Awake, NoStrandedTask, PlacesPromised
  <1>3. CASE th' = Moved(th, p, "exit") /\ shut /\ UNCHANGED <<queueSize, prod>>
    <2>1. /\ th' \in [Places -> Nat] /\ th'[p] = th[p] - 1
          /\ \A q \in Places : q # p /\ q # "exit" => th'[q] = th[q]
      BY <1>1, <1>3, MovedTyped
    <2>2. Typed' /\ CountsExact' /\ AllCounted'
      BY <1>1, <1>3, <2>1 DEF IInv, Typed, CountsExact, AllCounted, Awake
    <2>3. QED
      BY <1>1, <1>3, <2>2 DEF IInv, NoStrandedTask, PlacesPromised
  <1>4. CASE /\ th' = Moved(th, p, "taken") /\ queueSize > 0 /\ ~shut
             /\ queueSize' = queueSize - 1 /\ prod' = Signalled(prod)
    <2>1. /\ th' \in [Places -> Nat] /\ th'["taken"] = th["taken"] + 1 /\ th'[p] = th[p] - 1
          /\ \A q \in Places : q # p /\ q # "taken" => th'[q] = th[q]
      BY <1>1, <1>4, MovedTyped
    <2>2. /\ prod' \in [Places -> Nat]
          /\ prod["wait"] = 0 => prod' = prod
          /\ prod["wait"] > 0 => prod'["woken"] = prod["woken"] + 1
      BY <1>1, <1>4, SignalledTyped
    <2>3. Typed' /\ numLive' <= numMax /\ queueSize' <= queueCapacity
      BY <1>1, <1>4, <2>1, <2>2 DEF IInv, Typed
    <2>4. CountsExact' /\ AllCounted' /\ NoStrandedTask'
      BY <1>1, <1>4, <2>1 DEF IInv, Typed, CountsExact, AllCounted, Awake, NoStrandedTask
    <2>5. PlacesPromised'
      BY <1>1, <1>4, <2>2 DEF IInv, Typed, PlacesPromised
    <2>6. QED BY <2>3, <2>4, <2>5 DEF IInv
  <1>5. QED BY <1>2, <1>3, <1>4 DEF Loop

\* Begin, Finish and threadexit_unlock move one thread.
LEMMA WorkKeeps == IInv /\ (Begin \/ Finish \/ threadexit_unlock) => IInv'
  <1> USE SizesAssumption, PlacesAre
  <1>1. ASSUME IInv, Begin PROVE IInv'
    <2>1. /\ th' = Moved(th, "taken", "run") /\ th["taken"] > 0 /\ th \in [Places -> Nat]
      BY <1>1 DEF Begin, Has, IInv, Typed
    <2>2. /\ th' \in [Places -> Nat] /\ th'["run"] = th["run"] + 1 /\ th'["taken"] = th["taken"] - 1
          /\ \A q \in Places : q # "taken" /\ q # "run" => th'[q] = th[q]
      BY <2>1, MovedTyped
    <2>3. QED
      BY <1>1, <2>2 DEF Begin, IInv, Typed, CountsExact, AllCounted, Awake, NoStrandedTask, PlacesPromised
  <1>2. ASSUME IInv, Finish PROVE IInv'
    <2>1. /\ th' = Moved(th, "run", "lock") /\ th["run"] > 0 /\ th \in [Places -> Nat]
      BY <1>2 DEF Finish, Has, IInv, Typed
    <2>2. /\ th' \in [Places -> Nat] /\ th'["lock"] = th["lock"] + 1 /\ th'["run"] = th["run"] - 1
          /\ \A q \in Places : q # "lock" /\ q # "run" => th'[q] = th[q]
      BY <2>1, MovedTyped
    <2>3. QED
      BY <1>2, <2>2 DEF Finish, IInv, Typed, CountsExact, AllCounted, Awake, NoStrandedTask, PlacesPromised
  <1>3. ASSUME IInv, threadexit_unlock PROVE IInv'
    <2>1. /\ th' = Moved(th, "exit", "none") /\ th["exit"] > 0 /\ th \in [Places -> Nat]
      BY <1>3 DEF threadexit_unlock, Has, IInv, Typed
    <2>2. /\ th' \in [Places -> Nat]
          /\ \A q \in Places : q # "exit" /\ q # "none" => th'[q] = th[q]
      BY <2>1, MovedTyped
    <2>3. QED
      BY <1>3, <2>2
      DEF threadexit_unlock, counts, IInv, Typed, CountsExact, AllCounted, Awake, NoStrandedTask, PlacesPromised
  <1>4. QED BY <1>1, <1>2, <1>3

LEMMA GrowKeeps == IInv /\ ManagerGrow => IInv'
  <1> SUFFICES ASSUME IInv, ManagerGrow PROVE IInv'
    OBVIOUS
  <1> USE SizesAssumption, PlacesAre
  <1>1. PICK n \in 0..NUMSTEP :
          /\ n = IF TooFew THEN Min2(NUMSTEP, Min2(numMax - numLive, th["none"])) ELSE 0
          /\ th' = [th EXCEPT !["none"] = @ - n, !["lock"] = @ + n]
          /\ numLive' = numLive + n
    BY DEF ManagerGrow
  <1>2. th \in [Places -> Nat] /\ numLive \in Int /\ numLive <= numMax /\ n \in Nat
    BY DEF IInv, Typed
  <1>3. n <= th["none"] /\ n <= numMax - numLive
    BY <1>1, <1>2 DEF Min2
  <1>4. /\ th' \in [Places -> Nat] /\ th'["lock"] = th["lock"] + n
        /\ \A q \in Places : q # "none" /\ q # "lock" => th'[q] = th[q]
    BY <1>1, <1>2, <1>3
  <1>5. Typed' /\ numLive' <= numMax /\ queueSize' <= queueCapacity
    BY <1>1, <1>2, <1>3, <1>4 DEF ManagerGrow, IInv, Typed
  <1>6. CountsExact' /\ AllCounted' /\ NoStrandedTask' /\ PlacesPromised'
    BY <1>1, <1>2, <1>3, <1>4
    DEF ManagerGrow, IInv, Typed, CountsExact, AllCounted, Awake, NoStrandedTask, PlacesPromised
  <1>7. QED BY <1>5, <1>6 DEF IInv

\* A signal moves a sleeping worker, if there is one, and nothing else.
LEMMA SignalKeeps ==
  ASSUME IInv, th' = th \/ th' = Signalled(th), numExit' \in Int,
         UNCHANGED <<queueSize, numLive, numBusy, shut, spent, prod>>
  PROVE  IInv'
  <1> USE PlacesAre
  <1>1. th \in [Places -> Nat]
    BY DEF IInv, Typed
  <1>2. /\ th' \in [Places -> Nat] /\ th'["wait"] + th'["woken"] = th["wait"] + th["woken"]
        /\ th'["woken"] >= th["woken"]
        /\ \A q \in Places : q # "wait" /\ q # "woken" => th'[q] = th[q]
    <2>1. CASE th' = th BY <1>1, <2>1
    <2>2. CASE th' = Signalled(th)
      <3>1. CASE th["wait"] = 0 BY <1>1, <2>2, <3>1, SignalledTyped
      <3>2. CASE th["wait"] > 0 BY <1>1, <2>2, <3>2, SignalledTyped
      <3>3. QED BY <1>1, <3>1, <3>2
    <2>3. QED BY <2>1, <2>2
  <1>3. Typed' /\ numLive' <= numMax /\ queueSize' <= queueCapacity
    BY <1>2 DEF IInv, Typed
  <1>4. CountsExact' /\ AllCounted' /\ NoStrandedTask' /\ PlacesPromised'
    BY <1>1, <1>2 DEF IInv, Typed, CountsExact, AllCounted, Awake, NoStrandedTask, PlacesPromised
  <1>5. QED BY <1>3, <1>4 DEF IInv

LEMMA AddKeeps == ASSUME IInv, NEW p \in {"idle", "woken"}, threadpool_addtask(p) PROVE IInv'
  <1> USE SizesAssumption, PlacesAre
  <1>1. /\ prod[p] > 0 /\ th \in [Places -> Nat] /\ prod \in [Places -> Nat]
        /\ UNCHANGED <<numLive, numBusy, numExit, shut>>
    BY DEF threadpool_addtask, Has, IInv, Typed, counts
  <1>2. CASE queueSize = queueCapacity /\ ~shut /\ prod' = Moved(prod, p, "wait") /\ UNCHANGED <<th, queueSize, spent>>
    <2>1. prod' \in [Places -> Nat]
      BY <1>1, <1>2, MovedTyped
    <2>2. QED
      BY <1>1, <1>2, <2>1 DEF IInv, Typed, CountsExact, AllCounted, Awake, NoStrandedTask, PlacesPromised
  <1>3. CASE shut /\ prod' = Moved(prod, p, "returned") /\ UNCHANGED <<th, queueSize, spent>>
    <2>1. prod' \in [Places -> Nat]
      BY <1>1, <1>3, MovedTyped
    <2>2. QED
      BY <1>1, <1>3, <2>1 DEF IInv, Typed, CountsExact, AllCounted, Awake, NoStrandedTask, PlacesPromised
  <1>4. CASE /\ queueSize < queueCapacity /\ ~shut /\ queueSize' = queueSize + 1
             /\ prod' = Moved(prod, p, "idle") /\ th' = Signalled(th) /\ spent' = FALSE
    <2>1. /\ prod' \in [Places -> Nat] /\ prod'["wait"] = prod["wait"]
          /\ prod'["woken"] >= prod["woken"] - 1
      <3>1. CASE p = "idle"
        BY <1>1, <1>4, <3>1 DEF Moved
      <3>2. CASE p = "woken"
        BY <1>1, <1>4, <3>2, MovedTyped
      <3>3. QED BY <3>1, <3>2
    <2>2. /\ th' \in [Places -> Nat] /\ th'["run"] = th["run"] /\ th'["lock"] = th["lock"]
          /\ th'["taken"] = th["taken"]
          /\ th["wait"] = 0 => th' = th
          /\ th["wait"] > 0 => th'["wait"] = th["wait"] - 1 /\ th'["woken"] = th["woken"] + 1
      BY <1>1, <1>4, SignalledTyped
    <2>3. Typed' /\ numLive' <= numMax /\ queueSize' <= queueCapacity
      <3>1. queueCapacity \in Nat /\ queueSize \in Nat /\ queueSize' = queueSize + 1
            /\ queueSize < queueCapacity /\ spent' = FALSE
        BY <1>4 DEF IInv, Typed
      <3>2. /\ numLive' \in Int /\ numBusy' \in Int /\ numExit' \in Int /\ shut' \in BOOLEAN
            /\ numLive' <= numMax
        BY <1>1 DEF IInv, Typed
      <3>3. queueSize' \in Nat /\ queueSize' <= queueCapacity
        BY <3>1
      <3>4. QED BY <2>1, <2>2, <3>1, <3>2, <3>3 DEF Typed
    <2>4. CountsExact' /\ AllCounted' /\ NoStrandedTask'
      BY <1>1, <1>4, <2>2 DEF IInv, Typed, CountsExact, AllCounted, Awake, NoStrandedTask
    <2>5. PlacesPromised'
      BY <1>1, <1>4, <2>1 DEF IInv, Typed, PlacesPromised
    <2>6. QED BY <2>3, <2>4, <2>5 DEF IInv
  <1>5. QED BY <1>2, <1>3, <1>4 DEF threadpool_addtask

\* What the manager and destroy do besides growing leaves the counts and the
\* queue alone: it signals workers, sets numExit or moves its own locals.
LEMMA ManagerKeeps ==
  IInv /\ (ManagerRead \/ ManagerShrink \/ ManagerSignal \/ Destroy) => IInv'
  <1> USE SizesAssumption
  <1>1. ASSUME IInv, ManagerRead PROVE IInv'
    <2>1. UNCHANGED <<th, queueSize, numLive, numBusy, numExit, shut, prod, spent>>
      BY <1>1 DEF ManagerRead, counts
    <2>2. QED BY <1>1, <2>1, SignalKeeps DEF IInv, Typed
  <1>2. ASSUME IInv, ManagerShrink PROVE IInv'
    <2>1. UNCHANGED <<th, queueSize, numLive, numBusy, shut, prod, spent>>
          /\ numExit' \in Int
      BY <1>2 DEF ManagerShrink, IInv, Typed
    <2>2. QED BY <1>2, <2>1, SignalKeeps
  <1>3. ASSUME IInv, ManagerSignal PROVE IInv'
    <2>1. UNCHANGED <<queueSize, numLive, numBusy, numExit, shut, prod, spent>>
          /\ th' = Signalled(th)
      BY <1>3 DEF ManagerSignal, counts
    <2>2. QED BY <1>3, <2>1, SignalKeeps DEF IInv, Typed
  <1>4. ASSUME IInv, Destroy PROVE IInv'
    <2>1. UNCHANGED <<queueSize, numLive, numBusy, numExit, shut, prod, spent>>
          /\ (th' = th \/ th' = Signalled(th))
      BY <1>4 DEF Destroy, DestroyJoin, DestroySignal, DestroyConds, counts
    <2>2. QED BY <1>4, <2>1, SignalKeeps DEF IInv, Typed
  <1>5. QED BY <1>1, <1>2, <1>3, <1>4

\* Once shut is set most of the invariant asks nothing; the threads stay counted,
\* also when the call that the handler came into had woken one.
LEMMA FlagKeeps == IInv /\ DestroyFlag => IInv'
  <1> SUFFICES ASSUME IInv, DestroyFlag PROVE IInv'
    OBVIOUS
  <1> USE SizesAssumption, PlacesAre
  <1>1. PICK from \in {"outside", "asleep", "locked"}, p \in {"idle", "wait", "woken"} :
          /\ prod[p] > 0 /\ prod' = Moved(prod, p, "stopped")
          /\ \/ UNCHANGED <<th, queueSize>>
             \/ /\ queueSize < queueCapacity
                /\ queueSize' = queueSize + 1 /\ th' \in {th, Signalled(th)}
    BY DEF DestroyFlag
  <1>2. UNCHANGED <<numLive, numBusy, numExit>> /\ shut' = TRUE /\ spent' = FALSE
    BY DEF DestroyFlag, counts
  <1>3. prod' \in [Places -> Nat]
    <2>1. p \in Places /\ p # "stopped" /\ prod \in [Places -> Nat]
      BY DEF IInv, Typed
    <2>2. QED BY <1>1, <2>1, MovedTyped
  <1>4. queueSize' \in Nat /\ queueSize' <= queueCapacity
    BY <1>1 DEF IInv, Typed
  <1>5. th' = th \/ th' = Signalled(th)
    BY <1>1
  <1>6. /\ th' \in [Places -> Nat] /\ th'["wait"] + th'["woken"] = th["wait"] + th["woken"]
        /\ \A q \in Places : q # "wait" /\ q # "woken" => th'[q] = th[q]
    <2>1. th \in [Places -> Nat] BY DEF IInv, Typed
    <2>2. CASE th["wait"] = 0 BY <1>5, <2>1, <2>2, SignalledTyped
    <2>3. CASE th["wait"] > 0
      <3>1. CASE th' = th BY <2>1, <3>1
      <3>2. CASE th' = Signalled(th) BY <2>1, <2>3, <3>2, SignalledTyped
      <3>3. QED BY <1>5, <3>1, <3>2
    <2>4. QED BY <2>1, <2>2, <2>3
  <1>7. Typed'
    BY <1>2, <1>3, <1>4, <1>6 DEF IInv, Typed
  <1>8. CountsExact' /\ AllCounted'
    BY <1>2, <1>6 DEF IInv, Typed, CountsExact, AllCounted, Awake
  <1>9. numLive' <= numMax' /\ NoStrandedTask' /\ PlacesPromised'
    BY <1>2 DEF IInv, NoStrandedTask, PlacesPromised
  <1>10. QED BY <1>4, <1>7, <1>8, <1>9 DEF IInv

LEMMA StepKeeps == IInv /\ [Next]_vars => IInv'
  <1> SUFFICES ASSUME IInv, [Next]_vars PROVE IInv'
    OBVIOUS
  <1>1. CASE Working \/ Loop("lock")
    BY <1>1, RetireKeeps, LoopKeeps DEF Working
  <1>2. CASE Begin \/ Finish \/ threadexit_unlock
    BY <1>2, WorkKeeps
  <1>3. CASE Manager \/ Destroy
    BY <1>3, GrowKeeps, ManagerKeeps DEF Manager
  <1>4. CASE DestroyFlag
    BY <1>4, FlagKeeps
  <1>5. CASE threadpool_addtask("idle") \/ threadpool_addtask("woken")
    BY <1>5, AddKeeps
  <1>6. CASE UNCHANGED vars
    <2>1. UNCHANGED <<th, queueSize, numLive, numBusy, numExit, shut, prod, spent>>
      BY <1>6 DEF vars, counts
    <2>2. QED BY <2>1, SignalKeeps DEF IInv, Typed
  <1>7. QED BY <1>1, <1>2, <1>3, <1>4, <1>5, <1>6 DEF Next

LEMMA Invariant == Spec => []IInv
  BY Initially, StepKeeps, PTL DEF Spec

\* However the manager's stale reads and the exits interleave, the counts it
\* decides by (threadpool.c:166-204) are those of the threads.
THEOREM CountsAreExact == Spec => []CountsExact
  <1>1. IInv => CountsExact BY DEF IInv
  <1>2. QED BY <1>1, Invariant, PTL

\* No queued task is left beside sleeping workers, unless a retiring worker
\* took its wake-up (threadpool.c:86-98, 346-365).
THEOREM TasksNotStranded == Spec => []NoStrandedTask
  <1>1. IInv => NoStrandedTask BY DEF IInv
  <1>2. QED BY <1>1, Invariant, PTL

\* With room in the queue and producers asleep on it, one is already awake
\* (threadpool.c:107-114, 346-365): every place given up is promised to one.
THEOREM ProducersNotForgotten == Spec => []ProducerNotForgotten
  <1>1. IInv => ProducerNotForgotten
    <2> SUFFICES ASSUME IInv, ~shut, prod["wait"] > 0, queueSize < queueCapacity
                 PROVE  prod["woken"] > 0
      BY DEF ProducerNotForgotten
    <2>1. queueSize \in Nat /\ queueCapacity \in Nat /\ prod["woken"] \in Nat
          /\ queueSize + prod["woken"] >= queueCapacity
      BY SizesAssumption, PlacesAre DEF IInv, Typed, PlacesPromised
    <2>2. QED BY <2>1
  <1>2. QED BY <1>1, Invariant, PTL

\* The manager leaves only once the pool is told to stop, and is gone before the
\* signals are counted and everything freed.
ManagerJoined ==
  /\ dtor.at # "no" <=> shut
  /\ mgr.at = "exited" => shut
  /\ dtor.at \in {"signal", "destroy", "freed"} => mgr.at = "exited"

JoinInv ==
  /\ DOMAIN mgr = {"at", "live", "size", "busy", "left"} /\ mgr = [k \in DOMAIN mgr |-> mgr[k]]
  /\ DOMAIN dtor = {"at", "sent", "from"} /\ dtor = [k \in DOMAIN dtor |-> dtor[k]]
  /\ dtor.at \in {"no", "join", "signal", "destroy", "freed"}
  /\ dtor.sent \in Nat /\ (dtor.at \in {"no", "join"} => dtor.sent = 0)
  /\ ManagerJoined

LEMMA JoinStep == JoinInv /\ [Next]_vars => JoinInv'
  <1> SUFFICES ASSUME JoinInv, [Next]_vars PROVE JoinInv'
    OBVIOUS
  <1> USE DEF JoinInv, ManagerJoined
  <1>1. CASE UNCHANGED <<mgr, dtor, shut>>
    BY <1>1
  <1>2. CASE ManagerRead
    BY <1>2 DEF ManagerRead
  <1>3. CASE ManagerGrow
    BY <1>3 DEF ManagerGrow
  <1>4. CASE ManagerShrink
    BY <1>4 DEF ManagerShrink, Round
  <1>5. CASE ManagerSignal
    BY <1>5 DEF ManagerSignal, Round
  <1>6. CASE DestroyFlag
    <2>1. PICK from \in {"outside", "asleep", "locked"} :
            dtor' = [dtor EXCEPT !.at = "join", !.from = from]
      BY <1>6 DEF DestroyFlag
    <2>2. dtor.at = "no" /\ shut' = TRUE /\ mgr' = mgr
      BY <1>6 DEF DestroyFlag
    <2>3. QED BY <2>1, <2>2
  <1>7. CASE DestroyJoin
    BY <1>7 DEF DestroyJoin
  <1>8. CASE DestroySignal
    BY <1>8 DEF DestroySignal
  <1>9. CASE DestroyConds
    BY <1>9 DEF DestroyConds
  <1>10. QED
    BY <1>1, <1>2, <1>3, <1>4, <1>5, <1>6, <1>7, <1>8, <1>9
    DEF Next, Working, Retire, Loop, Begin, Finish, threadexit_unlock, Manager, Destroy,
        threadpool_addtask, vars

\* threadpool_destroy counts its signals, destroys and frees after the manager
\* was joined, so that no thread is created meanwhile, and a pool that was not
\* told to stop keeps its manager (threadpool.c, manager and threadpool_destroy):
\* half of what DestroyReturns rests on.
THEOREM ManagerJoinedFirst == Spec => []ManagerJoined
  <1>1. Init => JoinInv
    BY DEF Init, Round, JoinInv, ManagerJoined
  <1>2. JoinInv => ManagerJoined
    BY DEF JoinInv
  <1>3. QED
    BY <1>1, <1>2, JoinStep, PTL DEF Spec

\* The signals destroy has yet to send are enough for the workers that sleep.
SignalsSuffice ==
  ~spent => /\ dtor.at = "signal" => th["wait"] <= numLive - dtor.sent
            /\ AllWoken

\* A step before the signals, or one that lets no worker sleep and leaves numLive
\* and destroy alone.
LEMMA SufficeQuiet ==
  ASSUME IInv, JoinInv, SignalsSuffice, th'["wait"] = th["wait"],
         UNCHANGED <<numLive, dtor>>, ~spent' => ~spent
  PROVE  SignalsSuffice'
  BY DEF SignalsSuffice, AllWoken

LEMMA SufficeStep == IInv /\ JoinInv /\ SignalsSuffice /\ [Next]_vars => SignalsSuffice'
  <1> SUFFICES ASSUME IInv, JoinInv, SignalsSuffice, [Next]_vars PROVE SignalsSuffice'
    OBVIOUS
  <1> USE PlacesAre
  <1>t. th \in [Places -> Nat] /\ numLive \in Int /\ dtor.sent \in Nat /\ spent \in BOOLEAN
    BY DEF IInv, Typed, JoinInv
  <1>1. CASE dtor.at \in {"no", "join"} /\ dtor' = dtor
    BY <1>1 DEF SignalsSuffice, AllWoken
  <1>2. CASE DestroyFlag
    <2>1. dtor'.at = "join"
      BY <1>2 DEF DestroyFlag, JoinInv
    <2>2. QED BY <2>1 DEF SignalsSuffice, AllWoken
  <1>3. CASE DestroyJoin
    <2>1. dtor'.at = "signal" /\ dtor'.sent = 0 /\ th' = th /\ numLive' = numLive
      BY <1>3 DEF DestroyJoin, JoinInv, counts
    <2>2. th["wait"] <= numLive
      BY <1>t DEF IInv, AllCounted, Awake
    <2>3. QED BY <1>t, <2>1, <2>2 DEF SignalsSuffice, AllWoken
  <1>4. CASE DestroySignal
    <2>1. dtor.at = "signal" /\ UNCHANGED <<numLive, spent>>
      BY <1>4 DEF DestroySignal, counts
    <2>2. CASE dtor.sent < numLive /\ dtor' = [dtor EXCEPT !.sent = @ + 1] /\ th' = Signalled(th)
      <3>1. dtor'.at = "signal" /\ dtor'.sent = dtor.sent + 1
        BY <2>1, <2>2 DEF JoinInv
      <3>2. CASE th["wait"] = 0
        BY <1>t, <2>1, <2>2, <3>1, <3>2, SignalledTyped DEF SignalsSuffice, AllWoken
      <3>3. CASE th["wait"] > 0
        BY <1>t, <2>1, <2>2, <3>1, <3>3, SignalledTyped DEF SignalsSuffice, AllWoken
      <3>4. QED BY <1>t, <3>2, <3>3
    <2>3. CASE dtor.sent >= numLive /\ dtor' = [dtor EXCEPT !.at = "destroy"] /\ th' = th
      <3>1. dtor'.at = "destroy"
        BY <2>3 DEF JoinInv
      <3>2. ~spent => th["wait"] = 0
        BY <1>t, <2>1, <2>3 DEF SignalsSuffice
      <3>3. QED BY <2>1, <2>3, <3>1, <3>2 DEF SignalsSuffice, AllWoken
    <2>4. QED BY <1>4, <2>2, <2>3 DEF DestroySignal
  <1>5. CASE DestroyConds
    BY <1>5 DEF DestroyConds, JoinInv, counts, SignalsSuffice, AllWoken
  <1>6. CASE /\ dtor.at \in {"signal", "destroy", "freed"}
             /\ Working \/ Loop("lock")
    <2>1. CASE Retire
      <3>a. th' = Moved(th, "woken", "exit") /\ th["woken"] > 0 /\ dtor' = dtor
        BY <2>1 DEF Retire, Has
      <3>1. th'["wait"] = th["wait"] /\ dtor' = dtor
        BY <1>t, <3>a, MovedTyped
      <3>2. ~spent' => ~spent /\ dtor.at # "signal"
        BY <2>1 DEF Retire
      <3>3. QED BY <3>1, <3>2 DEF SignalsSuffice, AllWoken
    <2>2. ASSUME NEW p \in {"lock", "woken"}, Loop(p) PROVE SignalsSuffice'
      <3>1. shut /\ th[p] > 0
        BY <1>6, <2>2 DEF Loop, Has, JoinInv, ManagerJoined
      <3>2. th' = Moved(th, p, "exit") /\ UNCHANGED <<numLive, dtor, spent>>
        BY <2>2, <3>1 DEF Loop
      <3>3. th'["wait"] = th["wait"]
        BY <1>t, <3>1, <3>2, MovedTyped
      <3>4. QED BY <3>2, <3>3, SufficeQuiet
    <2>3. QED BY <1>6, <2>1, <2>2 DEF Working
  <1>7. CASE Begin \/ Finish \/ threadexit_unlock
    <2>1. th'["wait"] = th["wait"] /\ UNCHANGED <<numLive, dtor, spent>>
      <3>1. PICK from \in {"taken", "run", "exit"}, to \in {"run", "lock", "none"} :
              from # to /\ th[from] > 0 /\ th' = Moved(th, from, to)
        BY <1>7 DEF Begin, Finish, threadexit_unlock, Has
      <3>2. th'["wait"] = th["wait"]
        BY <1>t, <3>1, MovedTyped
      <3>3. UNCHANGED <<numLive, dtor, spent>>
        BY <1>7 DEF Begin, Finish, threadexit_unlock, counts
      <3>4. QED BY <3>2, <3>3
    <2>2. QED BY <2>1, SufficeQuiet
  <1>8. CASE dtor.at \in {"signal", "destroy", "freed"} /\ Manager
    <2>1. mgr.at = "exited"
      BY <1>8 DEF JoinInv, ManagerJoined
    <2>2. QED
      BY <1>8, <2>1 DEF Manager, ManagerRead, ManagerGrow, ManagerShrink, ManagerSignal
  <1>9. CASE /\ dtor.at \in {"signal", "destroy", "freed"}
             /\ threadpool_addtask("idle") \/ threadpool_addtask("woken")
    <2>1. shut
      BY <1>9 DEF JoinInv, ManagerJoined
    <2>2. UNCHANGED <<th, numLive, dtor, spent>>
      BY <1>9, <2>1 DEF threadpool_addtask, counts
    <2>3. QED BY <2>2, SufficeQuiet
  <1>10. CASE UNCHANGED vars
    <2>1. UNCHANGED <<th, numLive, dtor, spent>>
      BY <1>10 DEF vars, counts
    <2>2. QED BY <2>1, SufficeQuiet
  <1>11. dtor.at \in {"no", "join"} \/ dtor.at \in {"signal", "destroy", "freed"}
    BY DEF JoinInv
  <1>12. Working \/ Loop("lock") \/ Manager \/ threadpool_addtask("idle")
           \/ threadpool_addtask("woken") => dtor' = dtor
    BY DEF Working, Retire, Loop, Manager, ManagerRead, ManagerGrow, ManagerShrink,
           ManagerSignal, threadpool_addtask
  <1>13. QED
    BY <1>1, <1>2, <1>3, <1>4, <1>5, <1>6, <1>7, <1>8, <1>9, <1>10, <1>11, <1>12
    DEF Next, Destroy

\* The signals of threadpool_destroy (threadpool.c:312-315), one for each of
\* numLive, wake every worker that sleeps, unless one that they woke retired and
\* lowered numLive: then AllWoken, the comment at 314, fails.
THEOREM DestroyWakes == Spec => [](AllWoken \/ spent)
  <1>1. Init => JoinInv /\ SignalsSuffice
    BY DEF Init, Round, JoinInv, ManagerJoined, SignalsSuffice, AllWoken
  <1>2. SignalsSuffice => AllWoken \/ spent
    BY DEF SignalsSuffice
  <1>3. QED
    BY <1>1, <1>2, Invariant, JoinStep, SufficeStep, PTL DEF Spec

-------------------------------------------------------------------------------
(* The channels and their token buckets.                                     *)

TaskPlaces == {"loop", "fetch", "wait", "read", "return", "done"}
Channel == [songs : Seq(Int), pos : Nat, offset : Nat, tb : 1..TOKENBUCKET_MAX,
            at : TaskPlaces, held : Nat]

\* A channel plays a song of its list, and has tokens while it reads.
Sound(ch) ==
  /\ ch.songs[1] # CannotOpen /\ ch.pos \in 1..Len(ch.songs)
  /\ ch.held <= size /\ (ch.at \notin {"read", "return"} => ch.held = 0)

ChannelsTyped ==
  /\ token_pool \in [1..TOKENBUCKET_MAX -> Int] /\ tick \in 0..TOKENBUCKET_MAX
  /\ chn \in Seq(Channel) /\ credit \in Seq(Int) /\ Len(credit) = Len(chn)
  /\ \A c \in channels : Sound(chn[c])

\* Every channel has a bucket of its own, and not more tokens than its credit.
Paced ==
  /\ \A c \in channels : token_pool[chn[c].tb] >= 0
  /\ \A c, d \in channels : c # d => chn[c].tb # chn[d].tb
  /\ \A c \in channels : token_pool[chn[c].tb] + chn[c].held <= credit[c]

ChannelsInv == ChannelsTyped /\ (phase # "gone" => Paced)

\* The constants.
LEMMA Rates == /\ cps \in Nat /\ burst \in Nat /\ size \in Nat
               /\ cps > 0 /\ burst > 0 /\ size > 0
               /\ TOKENBUCKET_MAX \in Nat /\ TOKENBUCKET_MAX > 0
  BY RatesAssumption

\* A set of naturals has a least element.
LEMMA LeastOf ==
  ASSUME NEW S, S \in SUBSET Nat, S # {}
  PROVE  \E n \in S : \A m \in S : n <= m
  <1> DEFINE Less == {p \in Nat \X Nat : p[1] < p[2]}
  <1>1. IsWellFoundedOn(Less, Nat)
    BY NatLessThanWellFounded DEF OpToRel
  <1> HIDE DEF Less
  <1>2. PICK n \in S : \A m \in S : <<m, n>> \notin Less
    BY <1>1, WFMin
  <1>3. \A m \in S : m \in Nat /\ n \in Nat /\ (m < n => <<m, n>> \in Less)
    BY DEF Less
  <1>4. \A m \in S : m \in Nat /\ n \in Nat /\ ~(m < n)
    BY <1>2, <1>3
  <1>5. \A m \in S : n <= m
    BY <1>4
  <1>6. QED
    BY <1>5

\* tokenbt_init takes a free place, if there is one.
LEMMA FreePos ==
  ASSUME Free # {}
  PROVE  get_free_pos \in Free
  <1>1. Free \in SUBSET Nat
    BY Rates DEF Free
  <1>2. \E b \in Free : \A other \in Free : b <= other
    BY <1>1, LeastOf
  <1>3. QED
    BY <1>2 DEF get_free_pos

\* Counting round a list of N: every count is a place, and one of the next N
\* counts is the first place.
PlaceAfter(N, p, j) == ((p - 1 + j) % N) + 1

LEMMA PlaceAfterStays ==
  ASSUME NEW N \in Nat, NEW p \in 1..N, NEW j \in Nat
  PROVE  PlaceAfter(N, p, j) \in 1..N
  <1> DEFINE a == p - 1 + j
  <1>1. a \in Nat /\ N > 0
    OBVIOUS
  <1> HIDE DEF a
  <1>2. a % N \in 0..(N - 1)
    BY <1>1
  <1>3. QED
    BY <1>2 DEF PlaceAfter, a

LEMMA PlaceAfterReturns ==
  ASSUME NEW N \in Nat, NEW p \in 1..N
  PROVE  N - p + 1 \in 1..N /\ PlaceAfter(N, p, N - p + 1) = 1
  <1>1. N > 0 /\ p - 1 + (N - p + 1) = N
    OBVIOUS
  <1>2. N % N = 0
    BY <1>1
  <1>3. QED
    BY <1>1, <1>2 DEF PlaceAfter

LEMMA FirstThatOpens ==
  ASSUME NEW N \in Nat, NEW p \in 1..N, NEW songs, songs[1] # CannotOpen
  PROVE  \E k \in 1..N : /\ songs[PlaceAfter(N, p, k)] # CannotOpen
                         /\ \A j \in 1..(k - 1) : songs[PlaceAfter(N, p, j)] = CannotOpen
  <1> DEFINE Opens == {j \in 1..N : songs[PlaceAfter(N, p, j)] # CannotOpen}
  <1>1. N - p + 1 \in Opens
    BY PlaceAfterReturns
  <1>2. Opens \in SUBSET Nat
    OBVIOUS
  <1>3. PICK k \in Opens : \A j \in Opens : k <= j
    BY <1>1, <1>2, LeastOf
  <1>4. ASSUME NEW j \in 1..(k - 1) PROVE songs[PlaceAfter(N, p, j)] = CannotOpen
    BY <1>3
  <1>5. QED
    BY <1>3, <1>4

\* The next song that opens is a song of the list: the first one opens.
LEMMA OpenNext ==
  ASSUME NEW ch \in Channel, Sound(ch)
  PROVE  \E p \in 1..Len(ch.songs) : open_next(ch) = [ch EXCEPT !.pos = p]
  <1> DEFINE first(N, k) ==
               /\ ch.songs[PlaceAfter(N, ch.pos, k)] # CannotOpen
               /\ \A j \in 1..(k - 1) : ch.songs[PlaceAfter(N, ch.pos, j)] = CannotOpen
             chosen(N) == CHOOSE k \in 1..N : first(N, k)
  <1>1. PICK N \in Nat : N = Len(ch.songs)
    BY DEF Channel
  <1>2. ch.pos \in 1..N /\ ch.songs[1] # CannotOpen
    BY <1>1 DEF Sound
  <1>3. \E k \in 1..N : first(N, k)
    BY <1>2, FirstThatOpens
  <1>4. chosen(N) \in 1..N
    BY <1>3
  <1>5. open_next(ch) = [ch EXCEPT !.pos = PlaceAfter(N, ch.pos, chosen(N))]
    BY <1>1 DEF open_next, PlaceAfter
  <1> HIDE DEF chosen
  <1>6. PlaceAfter(N, ch.pos, chosen(N)) \in 1..N
    <2>1. PICK k \in Nat : k = chosen(N)
      BY <1>4
    <2>2. QED
      BY <1>2, <2>1, PlaceAfterStays
  <1>7. QED
    BY <1>1, <1>5, <1>6

\* What the types say of one channel.
LEMMA ChannelIs ==
  ASSUME ChannelsTyped
  PROVE  /\ channels = 1..Len(chn) /\ Len(chn) \in Nat /\ DOMAIN credit = channels
         /\ \A c \in channels : /\ chn[c] \in Channel /\ Sound(chn[c]) /\ credit[c] \in Int
                                /\ chn[c].tb \in 1..TOKENBUCKET_MAX
                                /\ token_pool[chn[c].tb] \in Int
  <1>1. channels = 1..Len(chn) /\ Len(chn) \in Nat /\ DOMAIN credit = 1..Len(chn)
    BY DEF ChannelsTyped, channels
  <1>2. ASSUME NEW c \in channels
        PROVE  chn[c] \in Channel /\ Sound(chn[c]) /\ credit[c] \in Int
    BY <1>1 DEF ChannelsTyped
  <1>3. ASSUME NEW c \in channels
        PROVE  chn[c].tb \in 1..TOKENBUCKET_MAX
    BY <1>2 DEF Channel
  <1>4. ASSUME NEW c \in channels
        PROVE  token_pool[chn[c].tb] \in Int
    BY <1>3 DEF ChannelsTyped
  <1>5. QED
    BY <1>1, <1>2, <1>3, <1>4

\* The channel at another place of its work.
Play(ch, p, o, to, h) ==
  [songs |-> ch.songs, pos |-> p, offset |-> o, tb |-> ch.tb, at |-> to, held |-> h]

LEMMA PlayIs ==
  ASSUME NEW ch \in Channel, Sound(ch), NEW p \in 1..Len(ch.songs), NEW o \in Nat,
         NEW to \in TaskPlaces, NEW h \in Nat, h <= size, to \notin {"read", "return"} => h = 0
  PROVE  /\ Play(ch, p, o, to, h) \in Channel /\ Sound(Play(ch, p, o, to, h))
         /\ Play(ch, p, o, to, h).tb = ch.tb /\ Play(ch, p, o, to, h).held = h
  <1>1. ch.songs \in Seq(Int) /\ ch.tb \in 1..TOKENBUCKET_MAX /\ p \in Nat
    BY DEF Channel
  <1>2. Play(ch, p, o, to, h) \in Channel
    BY <1>1 DEF Channel, Play
  <1>3. Sound(Play(ch, p, o, to, h))
    BY DEF Sound, Play
  <1>4. QED
    BY <1>2, <1>3 DEF Play

\* A step of the task of one channel, with its own bucket and credit.
LEMMA TaskInv ==
  ASSUME ChannelsTyped, Paced, phase # "gone", phase' = phase, tick' = tick,
         NEW c \in channels, NEW new \in Channel, Sound(new), new.tb = chn[c].tb,
         chn' = [chn EXCEPT ![c] = new],
         NEW tokens \in Int, token_pool' = [token_pool EXCEPT ![new.tb] = tokens],
         NEW owed \in Int, credit' = [credit EXCEPT ![c] = owed],
         tokens >= 0, tokens + new.held <= owed
  PROVE  ChannelsInv'
  <1>1. /\ channels = 1..Len(chn) /\ Len(chn) \in Nat /\ DOMAIN credit = channels
        /\ \A d \in channels : /\ chn[d] \in Channel /\ Sound(chn[d]) /\ credit[d] \in Int
                               /\ chn[d].tb \in 1..TOKENBUCKET_MAX
    BY ChannelIs
  <1>2. /\ chn' \in Seq(Channel) /\ Len(chn') = Len(chn) /\ channels' = channels
        /\ chn'[c] = new /\ \A d \in channels : d # c => chn'[d] = chn[d]
    BY <1>1 DEF ChannelsTyped, channels
  <1>3. /\ credit' \in Seq(Int) /\ Len(credit') = Len(credit)
        /\ credit'[c] = owed /\ \A d \in channels : d # c => credit'[d] = credit[d]
    BY <1>1 DEF ChannelsTyped
  <1>4. /\ token_pool' \in [1..TOKENBUCKET_MAX -> Int] /\ token_pool'[new.tb] = tokens
        /\ \A b \in 1..TOKENBUCKET_MAX : b # new.tb => token_pool'[b] = token_pool[b]
    BY <1>1 DEF ChannelsTyped
  <1>5. ASSUME NEW d \in channels, d # c
        PROVE  /\ chn[d].tb # new.tb /\ token_pool'[chn[d].tb] = token_pool[chn[d].tb]
    BY <1>1, <1>4, <1>5 DEF Paced
  <1>6. ChannelsTyped'
    BY <1>1, <1>2, <1>3, <1>4 DEF ChannelsTyped
  <1>7. Paced'
    <2>1. \A d \in channels' : token_pool'[chn'[d].tb] >= 0
      BY <1>2, <1>4, <1>5 DEF Paced
    <2>2. \A d, e \in channels' : d # e => chn'[d].tb # chn'[e].tb
      BY <1>2, <1>5 DEF Paced
    <2>3. \A d \in channels' : token_pool'[chn'[d].tb] + chn'[d].held <= credit'[d]
      BY <1>2, <1>3, <1>4, <1>5 DEF Paced
    <2>4. QED
      BY <2>1, <2>2, <2>3 DEF Paced
  <1>8. QED
    BY <1>6, <1>7 DEF ChannelsInv

LEMMA ReaderInv ==
  ASSUME ChannelsInv, NEW c \in channels, Reader(c)
  PROVE  ChannelsInv'
  <1>1. ChannelsTyped /\ Paced /\ phase # "gone" /\ UNCHANGED <<phase, tick>>
    BY DEF ChannelsInv, Reader, Look, tokenbt_fetchtoken, pread, pread_closed,
           tokenbt_returntoken, Task
  <1>2. PICK ch \in Channel : ch = chn[c] /\ Sound(ch)
    BY <1>1, ChannelIs
  <1>3. PICK tb \in 1..TOKENBUCKET_MAX : tb = ch.tb
    BY <1>2 DEF Channel
  <1>4. PICK t \in Int : t = token_pool[tb] /\ token_pool = [token_pool EXCEPT ![tb] = t]
    BY <1>1, <1>3 DEF ChannelsTyped
  <1>5. PICK owed \in Int : owed = credit[c] /\ credit = [credit EXCEPT ![c] = owed]
    BY <1>1, ChannelIs DEF ChannelsTyped
  <1>6. PICK h \in Nat : h = ch.held /\ h <= size
    BY <1>2 DEF Channel, Sound
  <1>7. t >= 0 /\ t + h <= owed
    BY <1>1, <1>2, <1>3, <1>4, <1>5, <1>6 DEF Paced
  <1>8. /\ ch.pos \in 1..Len(ch.songs) /\ ch.offset \in Nat
        /\ (ch.at \notin {"read", "return"} => h = 0)
    BY <1>2, <1>6 DEF Channel, Sound
  <1>0. ch = Play(ch, ch.pos, ch.offset, ch.at, h)
    BY ONLY <1>6, ch \in Channel DEF Play, Channel
  \* What is left to show of a step.
  <1>9. ASSUME NEW p \in 1..Len(ch.songs), NEW o \in Nat, NEW to \in TaskPlaces,
               NEW l \in Nat, l <= size, to \notin {"read", "return"} => l = 0,
               chn' = [chn EXCEPT ![c] = Play(ch, p, o, to, l)],
               NEW tokens \in Int, token_pool' = [token_pool EXCEPT ![tb] = tokens],
               NEW due \in Int, credit' = [credit EXCEPT ![c] = due],
               tokens >= 0, tokens + l <= due
        PROVE  ChannelsInv'
    <2> DEFINE new == Play(ch, p, o, to, l)
    <2>1. new \in Channel /\ Sound(new) /\ new.tb = tb /\ new.held = l
      BY <1>2, <1>3, <1>9, PlayIs
    <2> HIDE DEF new
    <2>2. chn' = [chn EXCEPT ![c] = new]
      BY <1>9 DEF new
    <2>3. new.tb = chn[c].tb /\ token_pool' = [token_pool EXCEPT ![new.tb] = tokens]
      BY <1>2, <1>3, <1>9, <2>1
    <2>4. new \in Channel /\ Sound(new) /\ new.tb = chn[c].tb /\ tokens + new.held <= due
      BY <1>9, <2>1, <2>3
    <2>5. /\ token_pool' = [token_pool EXCEPT ![new.tb] = tokens]
          /\ credit' = [credit EXCEPT ![c] = due] /\ tokens >= 0
      BY <1>9, <2>3
    <2>6. phase # "gone" /\ phase' = phase /\ tick' = tick
      BY <1>1
    <2>7. QED
      BY ONLY <1>1, <2>2, <2>4, <2>5, <2>6, TaskInv, c \in channels, tokens \in Int, due \in Int
  <1>10. CASE Look(c)
    <2>1. PICK to \in {"done", "fetch"} :
            /\ ch.at = "loop" /\ chn' = [chn EXCEPT ![c] = [ch EXCEPT !.at = to]]
            /\ UNCHANGED <<token_pool, credit>>
      <3>1. phase = "on" \/ phase = "shut" \/ phase = "closed"
        BY <1>10 DEF Look, Task
      <3>2. \E at \in {"done", "fetch"} : chn' = [chn EXCEPT ![c].at = at]
        BY <1>10, <3>1 DEF Look
      <3>3. QED BY <1>2, <1>10, <3>2 DEF Look, Task
    <2>2. [ch EXCEPT !.at = to] = Play(ch, ch.pos, ch.offset, to, h)
      <3>1. ch = Play(ch, ch.pos, ch.offset, ch.at, h)
        BY ONLY <1>6, ch \in Channel DEF Play, Channel
      <3>2. [Play(ch, ch.pos, ch.offset, ch.at, h) EXCEPT !.at = to]
              = Play(ch, ch.pos, ch.offset, to, h)
        BY ONLY TRUE DEF Play
      <3>3. QED
        BY ONLY <3>1, <3>2
    <2>3. h = 0 /\ to \in TaskPlaces
      BY <1>8, <2>1 DEF TaskPlaces
    <2>4. chn' = [chn EXCEPT ![c] = Play(ch, ch.pos, ch.offset, to, h)]
      BY <2>1, <2>2
    <2>5. /\ token_pool' = [token_pool EXCEPT ![tb] = t]
          /\ credit' = [credit EXCEPT ![c] = owed]
      BY <1>4, <1>5, <2>1
    <2>6. QED
      BY <1>6, <1>7, <1>8, <1>9, <2>3, <2>4, <2>5
  <1>11. CASE tokenbt_fetchtoken(c)
    <2>1. PICK n : n = Lesser(t, size)
      OBVIOUS
    <2>2. n \in Int /\ n <= t /\ n <= size
      BY <2>1, Rates DEF Lesser
    <2>3. ch.at = "fetch" /\ h = 0 /\ UNCHANGED credit
      BY <1>2, <1>8, <1>11 DEF tokenbt_fetchtoken, Task
    <2>4. IF n <= 0
            THEN chn' = [chn EXCEPT ![c].at = "wait"] /\ UNCHANGED token_pool
            ELSE /\ chn' = [chn EXCEPT ![c].at = "read", ![c].held = n]
                 /\ token_pool' = [token_pool EXCEPT ![tb] = @ - n]
      BY <1>2, <1>3, <1>4, <1>11, <2>1 DEF tokenbt_fetchtoken
    <2>5. CASE n <= 0
      <3>1. chn' = [chn EXCEPT ![c] = [ch EXCEPT !.at = "wait"]] /\ UNCHANGED token_pool
        BY <1>2, <2>4, <2>5
      <3>2. [ch EXCEPT !.at = "wait"] = Play(ch, ch.pos, ch.offset, "wait", h)
        BY <1>6 DEF Play, Channel
      <3>3. "wait" \in TaskPlaces
        BY DEF TaskPlaces
      <3>4. chn' = [chn EXCEPT ![c] = Play(ch, ch.pos, ch.offset, "wait", h)]
        BY <3>1, <3>2
      <3>5. /\ token_pool' = [token_pool EXCEPT ![tb] = t]
            /\ credit' = [credit EXCEPT ![c] = owed]
        BY <1>4, <1>5, <2>3, <3>1
      <3>6. QED
        BY <1>6, <1>7, <1>8, <1>9, <2>3, <3>3, <3>4, <3>5
    <2>6. CASE n > 0
      <3>1. /\ chn' = [chn EXCEPT ![c] = [ch EXCEPT !.at = "read", !.held = n]]
            /\ token_pool' = [token_pool EXCEPT ![tb] = t - n]
        <4>1. ~(n <= 0)
          BY <2>2, <2>6
        <4>2. chn' = [chn EXCEPT ![c].at = "read", ![c].held = n]
          BY <2>4, <4>1
        <4>3. token_pool' = [token_pool EXCEPT ![tb] = t - n]
          BY <1>4, <2>4, <4>1
        <4>4. QED
          BY <1>2, <4>2, <4>3
      <3>2. [ch EXCEPT !.at = "read", !.held = n] = Play(ch, ch.pos, ch.offset, "read", n)
        <4>1. [ch EXCEPT !.at = "read"] = Play(ch, ch.pos, ch.offset, "read", h)
          BY <1>6 DEF Play, Channel
        <4>2. [Play(ch, ch.pos, ch.offset, "read", h) EXCEPT !.held = n]
                = Play(ch, ch.pos, ch.offset, "read", n)
          BY DEF Play
        <4>3. [[ch EXCEPT !.at = "read"] EXCEPT !.held = n] = Play(ch, ch.pos, ch.offset, "read", n)
          BY <4>1, <4>2
        <4>4. QED
          BY <4>3
      <3>3. "read" \in TaskPlaces /\ n \in Nat /\ t - n \in Int /\ t - n >= 0 /\ (t - n) + n <= owed
        BY <1>7, <2>2, <2>3, <2>6 DEF TaskPlaces
      <3>4. chn' = [chn EXCEPT ![c] = Play(ch, ch.pos, ch.offset, "read", n)]
        BY <3>1, <3>2
      <3>5. credit' = [credit EXCEPT ![c] = owed]
        BY <1>5, <2>3
      <3>6. QED
        BY <1>8, <1>9, <2>2, <3>1, <3>3, <3>4, <3>5
    <2>7. QED
      BY <2>2, <2>5, <2>6
  <1>12. CASE pread(c)
    <2>1. ch.at = "read" /\ UNCHANGED token_pool /\ Song(ch) \in Int
      BY <1>2, <1>12 DEF pread, Task, Song, Sound, Channel
    <2>2. PICK p \in 1..Len(ch.songs) : open_next(ch) = [ch EXCEPT !.pos = p]
      BY <1>2, OpenNext
    <2>3. PICK n : n = Lesser(h, Song(ch) - ch.offset)
      OBVIOUS
    <2>4. n \in Int /\ n <= h
      BY <1>8, <2>1, <2>3 DEF Lesser
    <2>5. \/ chn' = [chn EXCEPT ![c] = open_next(ch)] /\ UNCHANGED credit
          \/ chn' = [chn EXCEPT ![c] = [open_next(ch) EXCEPT !.at = "return"]] /\ UNCHANGED credit
          \/ /\ n > 0 /\ credit' = [credit EXCEPT ![c] = @ - n]
             /\ chn' = [chn EXCEPT ![c] = [ch EXCEPT !.offset = @ + n, !.at = "return",
                                                     !.held = @ - n]]
      BY <1>2, <1>6, <1>12, <2>3 DEF pread
    <2>6. ASSUME NEW to \in {"read", "return"},
                 chn' = [chn EXCEPT ![c] = Play(ch, p, ch.offset, to, h)], UNCHANGED credit
          PROVE  ChannelsInv'
      BY <1>4, <1>5, <1>6, <1>7, <1>8, <1>9, <2>1, <2>6 DEF TaskPlaces
    <2>7. CASE chn' = [chn EXCEPT ![c] = open_next(ch)] /\ UNCHANGED credit
      <3>1. open_next(ch) = Play(ch, p, ch.offset, "read", h)
        BY <1>6, <2>1, <2>2 DEF Play, Channel
      <3>2. QED
        BY <2>6, <2>7, <3>1
    <2>8. CASE chn' = [chn EXCEPT ![c] = [open_next(ch) EXCEPT !.at = "return"]] /\ UNCHANGED credit
      <3>1. [open_next(ch) EXCEPT !.at = "return"] = Play(ch, p, ch.offset, "return", h)
        <4>1. open_next(ch) = Play(ch, p, ch.offset, ch.at, h)
          BY <1>6, <2>2 DEF Play, Channel
        <4>2. [Play(ch, p, ch.offset, ch.at, h) EXCEPT !.at = "return"]
                = Play(ch, p, ch.offset, "return", h)
          BY DEF Play
        <4>3. QED
          BY <4>1, <4>2
      <3>2. QED
        BY <2>6, <2>8, <3>1
    <2>9. CASE /\ n > 0 /\ credit' = [credit EXCEPT ![c] = @ - n]
               /\ chn' = [chn EXCEPT ![c] = [ch EXCEPT !.offset = @ + n, !.at = "return",
                                                       !.held = @ - n]]
      <3>1. [ch EXCEPT !.offset = @ + n, !.at = "return", !.held = @ - n]
              = Play(ch, ch.pos, ch.offset + n, "return", h - n)
        <4>1. [ch EXCEPT !.offset = ch.offset + n] = Play(ch, ch.pos, ch.offset + n, ch.at, h)
          <5>1. [Play(ch, ch.pos, ch.offset, ch.at, h) EXCEPT !.offset = ch.offset + n]
                  = Play(ch, ch.pos, ch.offset + n, ch.at, h)
            BY ONLY TRUE DEF Play
          <5>2. QED BY ONLY <1>0, <5>1
        <4>2. [Play(ch, ch.pos, ch.offset + n, ch.at, h) EXCEPT !.at = "return"]
                = Play(ch, ch.pos, ch.offset + n, "return", h)
          BY DEF Play
        <4>3. [Play(ch, ch.pos, ch.offset + n, "return", h) EXCEPT !.held = h - n]
                = Play(ch, ch.pos, ch.offset + n, "return", h - n)
          BY DEF Play
        <4>4. [[[ch EXCEPT !.offset = ch.offset + n] EXCEPT !.at = "return"] EXCEPT !.held = h - n]
                = Play(ch, ch.pos, ch.offset + n, "return", h - n)
          BY <4>1, <4>2, <4>3
        <4>5. QED
          BY <1>6, <4>4
      <3>2. ch.offset + n \in Nat /\ h - n \in Nat /\ h - n <= size
        <4>1. h \in Nat /\ h <= size /\ size \in Nat /\ ch.offset \in Nat
          BY <1>6, <1>8, Rates
        <4>2. n > 0 /\ n \in Int /\ n <= h
          BY <2>4, <2>9
        <4>3. QED
          BY <4>1, <4>2
      <3>3. owed - n \in Int /\ t + (h - n) <= owed - n
        BY <1>7, <2>4
      <3>4. credit' = [credit EXCEPT ![c] = owed - n]
        BY <1>5, <2>9
      <3>5. chn' = [chn EXCEPT ![c] = Play(ch, ch.pos, ch.offset + n, "return", h - n)]
        BY <2>9, <3>1
      <3>6. "return" \in TaskPlaces
        BY DEF TaskPlaces
      <3>7. QED
        BY <1>4, <1>7, <1>8, <1>9, <2>1, <3>2, <3>3, <3>4, <3>5, <3>6
    <2>10. QED
      BY <2>5, <2>7, <2>8, <2>9
  <1>13. CASE tokenbt_returntoken(c)
    <2>1. PICK n : n = Filled(tb, h)
      OBVIOUS
    <2>2. n \in Int /\ n >= 0 /\ n + 0 <= owed
      BY <1>4, <1>6, <1>7, <2>1, Rates DEF Filled, Lesser
    <2>3. /\ chn' = [chn EXCEPT ![c] = [ch EXCEPT !.at = "loop", !.held = 0]] /\ UNCHANGED credit
          /\ token_pool' = [token_pool EXCEPT ![tb] = n]
      BY <1>2, <1>3, <1>6, <1>13, <2>1 DEF tokenbt_returntoken
    <2>4. [ch EXCEPT !.at = "loop", !.held = 0] = Play(ch, ch.pos, ch.offset, "loop", 0)
      <3>1. [ch EXCEPT !.at = "loop"] = Play(ch, ch.pos, ch.offset, "loop", h)
        BY <1>6 DEF Play, Channel
      <3>2. [Play(ch, ch.pos, ch.offset, "loop", h) EXCEPT !.held = 0]
              = Play(ch, ch.pos, ch.offset, "loop", 0)
        BY DEF Play
      <3>3. [[ch EXCEPT !.at = "loop"] EXCEPT !.held = 0] = Play(ch, ch.pos, ch.offset, "loop", 0)
        BY <3>1, <3>2
      <3>4. QED
        BY <3>3
    <2>5. "loop" \in TaskPlaces /\ 0 \in Nat /\ 0 <= size
      BY Rates DEF TaskPlaces
    <2>6. QED
      BY <1>5, <1>8, <1>9, <2>2, <2>3, <2>4, <2>5
  <1>14. CASE pread_closed(c)
    <2>1. ch.at = "read" /\ UNCHANGED token_pool
      BY <1>2, <1>14 DEF pread_closed, Task
    <2>2. PICK n \in 0..h :
            /\ chn' = [chn EXCEPT ![c].at = "return", ![c].held = @ - n]
            /\ credit' = [credit EXCEPT ![c] = @ - n]
      BY <1>2, <1>6, <1>14 DEF pread_closed
    <2>3. chn' = [chn EXCEPT ![c] = [ch EXCEPT !.at = "return", !.held = h - n]]
      BY <1>2, <1>6, <2>2
    <2>4. [ch EXCEPT !.at = "return", !.held = h - n]
            = Play(ch, ch.pos, ch.offset, "return", h - n)
      <3>1. [ch EXCEPT !.at = "return"] = Play(ch, ch.pos, ch.offset, "return", h)
        <4>1. [Play(ch, ch.pos, ch.offset, ch.at, h) EXCEPT !.at = "return"]
                = Play(ch, ch.pos, ch.offset, "return", h)
          BY ONLY TRUE DEF Play
        <4>2. QED BY ONLY <1>0, <4>1
      <3>2. [Play(ch, ch.pos, ch.offset, "return", h) EXCEPT !.held = h - n]
              = Play(ch, ch.pos, ch.offset, "return", h - n)
        BY DEF Play
      <3>3. [[ch EXCEPT !.at = "return"] EXCEPT !.held = h - n]
              = Play(ch, ch.pos, ch.offset, "return", h - n)
        BY <3>1, <3>2
      <3>4. QED BY <3>3
    <2>5. h - n \in Nat /\ h - n <= size /\ owed - n \in Int /\ t + (h - n) <= owed - n
      BY <1>6, <1>7, Rates
    <2>6. /\ "return" \in TaskPlaces /\ token_pool' = [token_pool EXCEPT ![tb] = t]
          /\ credit' = [credit EXCEPT ![c] = owed - n]
          /\ chn' = [chn EXCEPT ![c] = Play(ch, ch.pos, ch.offset, "return", h - n)]
      BY <1>4, <1>5, <2>1, <2>2, <2>3, <2>4 DEF TaskPlaces
    <2>7. QED
      BY <1>7, <1>8, <1>9, <2>5, <2>6
  <1>15. QED
    BY <1>10, <1>11, <1>12, <1>13, <1>14 DEF Reader

\* A new channel gets a bucket that no other has.
LEMMA ChannelMade ==
  ASSUME ChannelsInv, NEW songs \in Libraries, getpathcontent(songs)
  PROVE  ChannelsInv'
  <1>1. /\ ChannelsTyped /\ Paced /\ phase = "load" /\ Free # {} /\ UNCHANGED <<phase, tick>>
        /\ songs \in Seq(Int)
    BY RatesAssumption DEF ChannelsInv, getpathcontent
  <1>2. PICK b \in Free : b = get_free_pos
    BY <1>1, FreePos
  <1>3. b \in 1..TOKENBUCKET_MAX /\ token_pool[b] = -1
    BY DEF Free, NoBucket
  <1>4. /\ token_pool' = [token_pool EXCEPT ![b] = 0]
        /\ token_pool' \in [1..TOKENBUCKET_MAX -> Int] /\ token_pool'[b] = 0
        /\ \A other \in 1..TOKENBUCKET_MAX : other # b => token_pool'[other] = token_pool[other]
    BY <1>1, <1>2, <1>3 DEF getpathcontent, ChannelsTyped
  <1>5. ASSUME NEW c \in channels
        PROVE  /\ chn[c].tb # b /\ token_pool'[chn[c].tb] = token_pool[chn[c].tb]
               /\ token_pool[chn[c].tb] >= 0
    <2>1. chn[c].tb \in 1..TOKENBUCKET_MAX /\ token_pool[chn[c].tb] >= 0
      BY <1>1, ChannelIs DEF Paced
    <2>2. QED
      BY <1>3, <1>4, <2>1
  <1>6. CASE UNCHANGED <<chn, credit>>
    <2>1. ChannelsTyped'
      BY <1>1, <1>4, <1>6 DEF ChannelsTyped, channels
    <2>2. Paced'
      BY <1>1, <1>5, <1>6 DEF Paced, channels
    <2>3. QED
      BY <2>1, <2>2 DEF ChannelsInv
  <1>7. ASSUME songs # <<>>, songs[1] # CannotOpen,
               chn' = Append(chn, [songs |-> songs, pos |-> 1, offset |-> 0,
                                   tb |-> b, at |-> "loop", held |-> 0]),
               credit' = Append(credit, 0)
        PROVE  ChannelsInv'
    <2>1. PICK new : new = [songs |-> songs, pos |-> 1, offset |-> 0,
                            tb |-> b, at |-> "loop", held |-> 0]
      OBVIOUS
    <2>2. new \in Channel
      BY <1>1, <1>3, <2>1 DEF Channel, TaskPlaces
    <2>3. Sound(new)
      <3>1. Len(songs) \in Nat /\ Len(songs) > 0
        BY <1>1, <1>7
      <3>2. QED
        BY <1>7, <2>1, <3>1, Rates DEF Sound
    <2>4. PICK n \in Nat : /\ n = Len(chn) /\ n = Len(credit) /\ channels = 1..n
                           /\ DOMAIN credit = 1..n
      BY <1>1 DEF ChannelsTyped, channels
    <2>5. /\ chn' \in Seq(Channel) /\ Len(chn') = n + 1 /\ channels' = 1..(n + 1)
          /\ chn'[n + 1] = new /\ \A c \in 1..n : chn'[c] = chn[c]
      BY <1>1, <1>7, <2>1, <2>2, <2>4 DEF ChannelsTyped, channels
    <2>6. /\ credit' \in Seq(Int) /\ Len(credit') = n + 1
          /\ credit'[n + 1] = 0 /\ \A c \in 1..n : credit'[c] = credit[c]
      BY <1>1, <1>7, <2>4 DEF ChannelsTyped
    <2>7. \A c \in channels' : c \in channels \/ c = n + 1
      BY <2>4, <2>5
    <2>8. n + 1 \notin channels
      BY <2>4
    <2>9. ChannelsTyped'
      <3>1. \A c \in channels : Sound(chn[c])
        BY <1>1 DEF ChannelsTyped
      <3>2. \A c \in channels' : Sound(chn'[c])
        BY <2>3, <2>4, <2>5, <2>7, <3>1
      <3>3. QED
        BY <1>1, <1>4, <2>5, <2>6, <3>2 DEF ChannelsTyped
    <2>10. Paced'
      <3>1. new.tb = b /\ new.held = 0
        BY <2>1
      <3>2. \A c \in channels' : token_pool'[chn'[c].tb] >= 0
        BY <1>4, <1>5, <2>4, <2>5, <2>7, <3>1
      <3>3. \A c, d \in channels' : c # d => chn'[c].tb # chn'[d].tb
        BY <1>1, <1>5, <2>4, <2>5, <2>7, <3>1 DEF Paced
      <3>4. \A c \in channels' : token_pool'[chn'[c].tb] + chn'[c].held <= credit'[c]
        <4>1. ASSUME NEW c \in channels
              PROVE  token_pool'[chn'[c].tb] + chn'[c].held <= credit'[c]
          <5>1. token_pool[chn[c].tb] + chn[c].held <= credit[c]
            BY <1>1 DEF Paced
          <5>2. chn'[c] = chn[c] /\ credit'[c] = credit[c]
            BY <2>4, <2>5, <2>6
          <5>3. token_pool'[chn[c].tb] = token_pool[chn[c].tb]
            BY <1>5
          <5>4. QED
            BY <5>1, <5>2, <5>3
        <4>2. token_pool'[chn'[n + 1].tb] + chn'[n + 1].held <= credit'[n + 1]
          <5>1. chn'[n + 1].tb = b /\ chn'[n + 1].held = 0
            BY <2>5, <3>1
          <5>2. token_pool'[b] = 0 /\ credit'[n + 1] = 0
            BY <1>4, <2>6
          <5>3. QED
            BY <5>1, <5>2
        <4>3. QED
          BY <2>7, <4>1, <4>2
      <3>5. QED
        BY <3>2, <3>3, <3>4 DEF Paced
    <2>11. QED
      BY <2>9, <2>10 DEF ChannelsInv
  <1>8. QED
    BY <1>2, <1>6, <1>7 DEF getpathcontent

\* A tick gives a bucket no more than it gives the credit of its channel.
LEMMA SweepInv ==
  ASSUME ChannelsInv, Sweep
  PROVE  ChannelsInv'
  <1>1. /\ ChannelsTyped /\ phase' = phase /\ tick \in 1..TOKENBUCKET_MAX
        /\ tick' \in 0..TOKENBUCKET_MAX
    <2>1. ChannelsTyped /\ phase' = phase /\ tick # 0 /\ tick' = Next1(tick)
      BY DEF ChannelsInv, Sweep
    <2>2. tick \in 1..TOKENBUCKET_MAX
      BY <2>1 DEF ChannelsTyped
    <2>3. Next1(tick) \in 0..TOKENBUCKET_MAX
      BY <2>2, Rates DEF Next1
    <2>4. QED
      BY <2>1, <2>2, <2>3
  <1>2. PICK full : full = IF token_pool[tick] = -1 THEN -1 ELSE Filled(tick, cps)
    OBVIOUS
  <1>3. /\ token_pool[tick] \in Int /\ full \in Int
        /\ token_pool[tick] >= 0 => /\ full >= 0 /\ full <= burst
                                    /\ full <= token_pool[tick] + cps
    <2>1. token_pool[tick] \in Int
      BY <1>1 DEF ChannelsTyped
    <2>2. QED
      BY <1>2, <2>1, Rates DEF Filled, Lesser
  <1>4. token_pool' = [token_pool EXCEPT ![tick] = full]
    BY <1>2 DEF Sweep, NoBucket
  <1>5. /\ token_pool' \in [1..TOKENBUCKET_MAX -> Int] /\ token_pool'[tick] = full
        /\ \A b \in 1..TOKENBUCKET_MAX : b # tick => token_pool'[b] = token_pool[b]
    BY <1>1, <1>3, <1>4 DEF ChannelsTyped
  <1>6. PICK n \in Nat : /\ n = Len(chn) /\ n = Len(credit) /\ channels = 1..n
                         /\ DOMAIN credit = 1..n
    BY <1>1 DEF ChannelsTyped, channels
  <1>7. ASSUME NEW c \in channels
        PROVE  /\ chn'[c] \in Channel /\ Sound(chn'[c])
               /\ chn'[c].tb = chn[c].tb /\ chn'[c].held = chn[c].held
    <2>1. PICK ch \in Channel : ch = chn[c] /\ Sound(ch)
      BY <1>1, ChannelIs
    <2>2. chn'[c] = IF c \in Of(tick) THEN [ch EXCEPT !.at = Broadcast(ch)] ELSE ch
      BY <2>1 DEF Sweep
    <2>3. /\ Broadcast(ch) \in TaskPlaces
          /\ ch.at \notin {"read", "return"} => Broadcast(ch) \notin {"read", "return"}
          /\ ch.at \in {"read", "return"} => Broadcast(ch) = ch.at
      BY DEF Broadcast, TaskPlaces, Channel
    <2>4. [ch EXCEPT !.at = Broadcast(ch)] = Play(ch, ch.pos, ch.offset, Broadcast(ch), ch.held)
      BY DEF Play, Channel
    <2>5. /\ ch.pos \in 1..Len(ch.songs) /\ ch.offset \in Nat /\ ch.held \in Nat /\ ch.held <= size
          /\ ch.at \notin {"read", "return"} => ch.held = 0
      BY <2>1 DEF Channel, Sound
    <2>6. PICK to \in TaskPlaces : to = Broadcast(ch) /\ (to \notin {"read", "return"} => ch.held = 0)
      BY <2>3, <2>5
    <2>7. PICK new : new = Play(ch, ch.pos, ch.offset, to, ch.held)
      OBVIOUS
    <2>8. new \in Channel /\ Sound(new) /\ new.tb = ch.tb /\ new.held = ch.held
      BY <2>1, <2>5, <2>6, <2>7, PlayIs
    <2>9. chn'[c] = new \/ chn'[c] = ch
      BY <2>2, <2>4, <2>6, <2>7
    <2>10. QED
      BY <2>1, <2>8, <2>9
  <1>8. chn' \in Seq(Channel) /\ Len(chn') = n /\ channels' = channels
    <2>1. chn' = [c \in 1..n |-> chn'[c]]
      BY <1>6 DEF Sweep
    <2>2. \A c \in 1..n : chn'[c] \in Channel
      BY <1>6, <1>7
    <2>3. QED
      BY <1>6, <2>1, <2>2 DEF channels
  <1>9. ASSUME NEW c \in channels
        PROVE  /\ credit'[c] \in Int /\ credit[c] \in Int
               /\ chn[c].tb # tick => credit'[c] = credit[c]
               /\ chn[c].tb = tick => credit'[c] = Lesser(burst + size, credit[c] + cps)
    <2>1. credit[c] \in Int
      BY <1>1, ChannelIs
    <2>2. credit'[c] = IF chn[c].tb = tick THEN Lesser(burst + size, credit[c] + cps) ELSE credit[c]
      BY DEF Sweep, Of
    <2>3. Lesser(burst + size, credit[c] + cps) \in Int
      BY <2>1, Rates DEF Lesser
    <2>4. QED
      BY <2>1, <2>2, <2>3
  <1>10. credit' \in Seq(Int) /\ Len(credit') = n
    <2>1. credit' = [c \in 1..n |-> credit'[c]]
      BY <1>6 DEF Sweep
    <2>2. \A c \in 1..n : credit'[c] \in Int
      BY <1>6, <1>9
    <2>3. QED
      BY <2>1, <2>2
  <1>11. ChannelsTyped'
    BY <1>1, <1>5, <1>7, <1>8, <1>10 DEF ChannelsTyped
  <1>12. ASSUME phase # "gone"
         PROVE  Paced'
    <2>1. Paced
      BY <1>12 DEF ChannelsInv
    <2>2. ASSUME NEW c \in channels
          PROVE  /\ token_pool'[chn[c].tb] >= 0
                 /\ token_pool'[chn[c].tb] + chn[c].held <= credit'[c]
      <3>1. /\ chn[c].tb \in 1..TOKENBUCKET_MAX /\ token_pool[chn[c].tb] >= 0
            /\ token_pool[chn[c].tb] \in Int
            /\ token_pool[chn[c].tb] + chn[c].held <= credit[c]
        BY <1>1, <2>1, ChannelIs DEF Paced
      <3>2. chn[c].held \in Nat /\ chn[c].held <= size
        BY <1>1, ChannelIs DEF Channel, Sound
      <3>3. CASE chn[c].tb # tick
        BY <1>5, <1>9, <3>1, <3>3
      <3>4. CASE chn[c].tb = tick
        <4>1. /\ full >= 0 /\ full <= burst /\ full <= token_pool[tick] + cps
              /\ token_pool'[chn[c].tb] = full /\ token_pool[tick] + chn[c].held <= credit[c]
          BY <1>3, <1>5, <3>1, <3>4
        <4>2. full + chn[c].held <= burst + size /\ full + chn[c].held <= credit[c] + cps
          BY <1>3, <1>9, <3>2, <4>1, Rates
        <4>3. credit'[c] = burst + size \/ credit'[c] = credit[c] + cps
          BY <1>9, <3>4, Rates DEF Lesser
        <4>4. QED
          BY <4>1, <4>2, <4>3
      <3>5. QED
        BY <3>3, <3>4
    <2>3. \A c, d \in channels : c # d => chn[c].tb # chn[d].tb
      BY <2>1 DEF Paced
    <2>4. QED
      BY <1>7, <1>8, <2>2, <2>3 DEF Paced
  <1>13. QED
    BY <1>1, <1>11, <1>12 DEF ChannelsInv

LEMMA InitChannels == InitMedia => ChannelsInv
  <1> SUFFICES ASSUME InitMedia PROVE ChannelsInv
    OBVIOUS
  <1>1. /\ token_pool = [b \in 1..TOKENBUCKET_MAX |-> -1] /\ tick = 0
        /\ chn = <<>> /\ credit = <<>>
    BY DEF InitMedia, NoBucket
  <1>2. channels = {} /\ chn \in Seq(Channel) /\ credit \in Seq(Int) /\ Len(credit) = Len(chn)
    BY <1>1 DEF channels
  <1>3. QED
    BY <1>1, <1>2, Rates DEF ChannelsInv, ChannelsTyped, Paced

\* Closing the songs leaves every channel its bucket, its tokens and its credit.
LEMMA FreeInv ==
  ASSUME ChannelsInv, mlib_freechncontext
  PROVE  ChannelsInv'
  <1>1. /\ ChannelsTyped /\ Paced /\ UNCHANGED <<token_pool, tick, credit>>
        /\ chn' = [c \in channels |-> [chn[c] EXCEPT !.pos = 1, !.offset = 0]]
    BY DEF ChannelsInv, mlib_freechncontext
  <1>2. PICK n \in Nat : n = Len(chn) /\ channels = 1..n
    BY <1>1, ChannelIs
  <1>4. ASSUME NEW c \in channels
        PROVE  /\ chn'[c] \in Channel /\ Sound(chn'[c])
               /\ chn'[c].tb = chn[c].tb /\ chn'[c].held = chn[c].held
    <2>1. PICK ch \in Channel : ch = chn[c] /\ Sound(ch)
      BY <1>1, ChannelIs
    <2>2. PICK h \in Nat : h = ch.held
      BY <2>1 DEF Channel
    <2>3. chn'[c] = [ch EXCEPT !.pos = 1, !.offset = 0]
      BY <1>1, <2>1
    <2>4. [ch EXCEPT !.pos = 1, !.offset = 0] = Play(ch, 1, 0, ch.at, h)
      <3>1. [ch EXCEPT !.pos = 1] = Play(ch, 1, ch.offset, ch.at, h)
        BY <2>2 DEF Play, Channel
      <3>2. [Play(ch, 1, ch.offset, ch.at, h) EXCEPT !.offset = 0] = Play(ch, 1, 0, ch.at, h)
        BY DEF Play
      <3>3. [[ch EXCEPT !.pos = 1] EXCEPT !.offset = 0] = Play(ch, 1, 0, ch.at, h)
        BY <3>1, <3>2
      <3>4. QED BY <3>3
    <2>5. /\ ch.at \in TaskPlaces /\ h <= size /\ (ch.at \notin {"read", "return"} => h = 0)
          /\ 1 \in 1..Len(ch.songs)
      <3>1. Len(ch.songs) \in Nat /\ ch.pos \in 1..Len(ch.songs)
        BY <2>1 DEF Channel, Sound
      <3>2. QED BY <2>1, <2>2, <3>1 DEF Channel, Sound
    <2>6. Play(ch, 1, 0, ch.at, h) \in Channel /\ Sound(Play(ch, 1, 0, ch.at, h))
          /\ Play(ch, 1, 0, ch.at, h).tb = ch.tb /\ Play(ch, 1, 0, ch.at, h).held = h
      BY <2>1, <2>5, PlayIs
    <2>7. QED
      BY <2>1, <2>2, <2>3, <2>4, <2>6
  <1>5. chn' \in Seq(Channel) /\ Len(chn') = n /\ channels' = channels
    <2>1. chn' = [c \in 1..n |-> chn'[c]]
      BY <1>1, <1>2
    <2>2. \A c \in 1..n : chn'[c] \in Channel
      BY <1>2, <1>4
    <2>3. QED
      BY <1>2, <2>1, <2>2 DEF channels
  <1>6. ChannelsTyped'
    BY <1>1, <1>2, <1>4, <1>5 DEF ChannelsTyped
  <1>7. Paced'
    <2>1. \A c \in channels : chn'[c].tb = chn[c].tb /\ chn'[c].held = chn[c].held
      BY <1>4
    <2>2. ASSUME NEW c \in channels
          PROVE  /\ token_pool'[chn'[c].tb] >= 0
                 /\ token_pool'[chn'[c].tb] + chn'[c].held <= credit'[c]
      <3>1. /\ token_pool[chn[c].tb] >= 0
            /\ token_pool[chn[c].tb] + chn[c].held <= credit[c]
        BY <1>1 DEF Paced
      <3>2. token_pool' = token_pool /\ credit' = credit
        BY <1>1
      <3>3. QED BY <2>1, <3>1, <3>2
    <2>3. ASSUME NEW c \in channels, NEW d \in channels, c # d
          PROVE  chn'[c].tb # chn'[d].tb
      BY <1>1, <2>1, <2>3 DEF Paced
    <2>4. QED BY <1>5, <2>2, <2>3 DEF Paced
  <1>8. QED BY <1>6, <1>7 DEF ChannelsInv

LEMMA ChannelsStep == ChannelsInv /\ [NextMedia]_mediaVars => ChannelsInv'
  <1> SUFFICES ASSUME ChannelsInv, [NextMedia]_mediaVars PROVE ChannelsInv'
    OBVIOUS
  <1>1. ChannelsTyped
    BY DEF ChannelsInv
  \* The steps that are not about a bucket.
  <1>2. ASSUME UNCHANGED <<token_pool, chn, credit>>, tick' \in 0..TOKENBUCKET_MAX,
               phase # "gone" \/ phase' = "gone"
        PROVE  ChannelsInv'
    BY <1>1, <1>2 DEF ChannelsInv, ChannelsTyped, Paced, channels
  <1>3. CASE SkipDir \/ StartTasks \/ Shut \/ UNCHANGED mediaVars
    <2>1. UNCHANGED <<token_pool, chn, credit, tick>> /\ (phase # "gone" \/ phase' = "gone")
      BY <1>3 DEF SkipDir, StartTasks, Shut, mediaVars
    <2>2. QED
      BY <1>1, <1>2, <2>1 DEF ChannelsTyped
  <1>4. CASE Wake
    <2>1. UNCHANGED <<token_pool, chn, credit>> /\ phase # "gone" /\ tick' = 1
      BY <1>4 DEF Wake
    <2>2. QED
      BY <1>2, <2>1, Rates
  <1>5. CASE module_unload
    <2>1. /\ phase' = "gone" /\ token_pool' = [b \in DOMAIN token_pool |-> -1]
          /\ UNCHANGED <<tick, chn, credit>>
      BY <1>5 DEF module_unload, NoBucket
    <2>2. QED
      BY <1>1, <2>1 DEF ChannelsInv, ChannelsTyped, channels
  <1>6. QED
    BY <1>3, <1>4, <1>5, SweepInv, ChannelMade, ReaderInv, FreeInv DEF NextMedia, Timer

(* WithinRate, for any rates, buckets, directories and songs: a bucket given  *)
(* by tokenbt_init is the channel's own, and what tokenbt_fetchtoken takes,    *)
(* tokenbt_returntoken gives back and a tick of woking adds never exceeds what *)
(* an ideal bucket allows.                                                     *)
THEOREM ChannelsWithinRate == SpecMedia => []WithinRate
  <1>1. ChannelsInv => WithinRate
    <2> SUFFICES ASSUME ChannelsTyped, Paced, NEW c \in channels
                 PROVE  /\ token_pool[chn[c].tb] # NoBucket /\ Of(chn[c].tb) = {c}
                        /\ token_pool[chn[c].tb] + chn[c].held <= credit[c]
      BY DEF ChannelsInv, WithinRate
    <2>1. token_pool[chn[c].tb] # NoBucket
      BY DEF Paced, NoBucket
    <2>2. Of(chn[c].tb) = {c}
      BY DEF Paced, Of
    <2>3. QED
      BY <2>1, <2>2 DEF Paced
  <1>2. QED
    BY <1>1, InitChannels, ChannelsStep, PTL DEF SpecMedia
===============================================================================
