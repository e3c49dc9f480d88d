------------------------------- MODULE HeapTimer -------------------------------
(* The timer of tinyWebServer (heaptimer.cpp): a binary heap of nodes        *)
(* ordered by the time they expire at, and ref_, which maps an identifier (a *)
(* descriptor) to the place of its node, so that a timer can be moved or     *)
(* removed wherever it is in the heap. Positions count from 1 here and from  *)
(* 0 in the code. All calls come from the main thread.                       *)
EXTENDS Integers, Sequences, FiniteSets, Functions

CONSTANTS Ids,       \* identifiers of timers
          Timeouts,  \* timeouts a caller may ask for, in milliseconds
          MaxTime    \* bound on the clock

ASSUME TimesAssumption == Timeouts \subseteq Nat /\ MaxTime \in Nat

VARIABLES heap,   \* heap_: sequence of nodes [id, expires]
          ref,    \* ref_: identifier -> position of its node
          now,    \* Clock::now()
          fired,  \* identifiers whose callback the last operation called, in order
          sleep   \* what the last GetNextTick returned

timerVars == <<heap, ref, now, fired, sleep>>

InitTimer == heap = <<>> /\ ref = [i \in {} |-> 0] /\ now = 0 /\ fired = <<>> /\ sleep = -1

(***************************************************************************)
(* The private operations, on a record t of the two structures.            *)
(***************************************************************************)
SwapNode(t, i, j) ==
  [heap |-> [t.heap EXCEPT ![i] = t.heap[j], ![j] = t.heap[i]],
   ref  |-> [t.ref EXCEPT ![t.heap[j].id] = i, ![t.heap[i].id] = j]]

Earlier(t, i, j) == t.heap[i].expires < t.heap[j].expires

\* One turn of the loop, with the node at r.at.
Rise(r) == LET parent == r.at \div 2
           IN  IF r.at > 1 /\ Earlier(r.t, r.at, parent)
                 THEN [t |-> SwapNode(r.t, r.at, parent), at |-> parent]
                 ELSE r

\* rise[k] is the state after k turns: no node rises as many levels as there are nodes.
siftup(t, i) ==
  LET rise[k \in 0..Len(t.heap)] ==
        IF k = 0 THEN [t |-> t, at |-> i] ELSE Rise(rise[k - 1])
  IN  rise[Len(t.heap)].t

\* A bug: only the left child is looked at.
Child_left(t, i, n) == 2 * i

\* The smaller child among the first n nodes.
Child(t, i, n) ==
  IF 2 * i + 1 <= n /\ Earlier(t, 2 * i + 1, 2 * i) THEN 2 * i + 1 ELSE 2 * i

Sink(r, n) == LET child == Child(r.t, r.at, n)
              IN  IF 2 * r.at <= n /\ Earlier(r.t, child, r.at)
                    THEN [t |-> SwapNode(r.t, r.at, child), at |-> child]
                    ELSE r

siftdown(t, i, n) ==
  LET sink[k \in 0..n] ==
        IF k = 0 THEN [t |-> t, at |-> i] ELSE Sink(sink[k - 1], n)
  IN  sink[n]

\* The idiom of add, adjust and del_: down, and up when it did not go down.
Settle(t, i, n) == LET d == siftdown(t, i, n)
                   IN  IF d.at > i THEN d.t ELSE siftup(d.t, i)

\* A bug: the node put in the place of the removed one only sinks.
del_onlyDown(t, i) ==
  LET n == Len(t.heap) - 1
      s == IF i <= n THEN siftdown(SwapNode(t, i, n + 1), i, n).t ELSE t
  IN  [heap |-> SubSeq(s.heap, 1, n),
       ref  |-> Restrict(s.ref, DOMAIN s.ref \ {s.heap[n + 1].id})]

del(t, i) ==
  LET n == Len(t.heap) - 1
      s == IF i <= n THEN Settle(SwapNode(t, i, n + 1), i, n) ELSE t
  IN  [heap |-> SubSeq(s.heap, 1, n),
       ref  |-> Restrict(s.ref, DOMAIN s.ref \ {s.heap[n + 1].id})]

(***************************************************************************)
(* The public operations.                                                  *)
(***************************************************************************)
T == [heap |-> heap, ref |-> ref]
Becomes(t) == heap' = t.heap /\ ref' = t.ref

SetExpires(id, d) ==
  Settle([T EXCEPT !.heap[ref[id]].expires = now + d], ref[id], Len(heap))

add(id, d) ==
  /\ Becomes(IF id \in DOMAIN ref THEN SetExpires(id, d)
             ELSE siftup([heap |-> Append(heap, [id |-> id, expires |-> now + d]),
                          ref  |-> [j \in DOMAIN ref \cup {id} |->
                                      IF j = id THEN Len(heap) + 1 ELSE ref[j]]],
                         Len(heap) + 1))
  /\ fired' = <<>> /\ UNCHANGED <<now, sleep>>

\* The code asserts that the identifier has a timer.
adjust(id, d) ==
  /\ id \in DOMAIN ref
  /\ Becomes(SetExpires(id, d))
  /\ fired' = <<>> /\ UNCHANGED <<now, sleep>>

doWork(id) ==
  /\ id \in DOMAIN ref
  /\ Becomes(del(T, ref[id]))
  /\ fired' = <<id>> /\ UNCHANGED <<now, sleep>>

\* One turn of tick, which looks at the top.
Pop(p) == IF p.t.heap # <<>> /\ Head(p.t.heap).expires <= now
            THEN [t |-> del(p.t, 1), fired |-> Append(p.fired, Head(p.t.heap).id)]
            ELSE p

tick ==
  LET pops[k \in 0..Len(heap)] ==
        IF k = 0 THEN [t |-> T, fired |-> <<>>] ELSE Pop(pops[k - 1])
  IN  pops[Len(heap)]

\* The clock is read again after the tick, so it may have moved on.
GetNextTick ==
  /\ Becomes(tick.t) /\ fired' = tick.fired
  /\ now' \in now..MaxTime
  /\ sleep' = IF heap' = <<>> THEN -1
              ELSE IF Head(heap').expires < now' THEN 0
              ELSE Head(heap').expires - now'

clear == /\ heap' = <<>> /\ ref' = Restrict(ref, {})
         /\ fired' = <<>> /\ UNCHANGED <<now, sleep>>

NextTimer == \/ \E id \in Ids, d \in Timeouts : add(id, d) \/ adjust(id, d)
             \/ \E id \in Ids : doWork(id)
             \/ GetNextTick \/ clear

SpecTimer == InitTimer /\ [][NextTimer]_timerVars
-------------------------------------------------------------------------------
(* ref_ and the heap stay in step through every swap and removal: ref_ has   *)
(* exactly the identifiers of the nodes and points at the node of each. No   *)
(* node expires before its parent: a removal from the middle puts the last   *)
(* node in its place, which may have to rise as well as to sink.             *)
HeapIndexed ==
  /\ DOMAIN ref = {heap[i].id : i \in DOMAIN heap}
  /\ \A i \in DOMAIN heap : /\ ref[heap[i].id] = i
                             /\ i > 1 => ~Earlier(T, i, i \div 2)

(* The heap implements the timers: whatever was added, moved or removed, a   *)
(* tick calls exactly the callbacks that are due, the earliest first, and    *)
(* the sleep it returns is the time to the earliest timer left.              *)
deadlines == [i \in DOMAIN ref |-> heap[ref[i]].expires]
Promise == INSTANCE Timers WITH due <- deadlines
ImplementsTimers == Promise!Spec
===============================================================================
