--------------------------- MODULE TcpServer_proofs ---------------------------
(***************************************************************************)
(* Proofs about TcpServer, for any connections and any number of threads:  *)
(* the pollers never know the channel of a connection that was freed, a    *)
(* connection is established, goes down and is destroyed at most once, its *)
(* way to the end is never lost, and the server ends in order.             *)
(*                                                                         *)
(* What makes it inductive is who owns a connection: connections_ does,    *)
(* until it hands it to the functor that will run connectDestroyed, and    *)
(* that functor is behind the one that runs connectEstablished.            *)
(***************************************************************************)
EXTENDS TcpServer, TLAPS

------------------------------------------------------------------------------
(* The inductive invariant.                                                 *)

In(s, f) == \E i \in 1..Len(s) : s[i] = f

Queued(l, f) == In(batch[l], f) \/ In(pending[l], f)

\* f comes nowhere before g in s.
NeverBefore(s, f, g) ==
  \A i, j \in 1..Len(s) : s[i] = f /\ s[j] = g => j < i

\* Functors are queued on the loop of their connection, the removals on loop 0.
PlaceOK ==
  \A l \in Loops, c \in Conns :
    /\ Queued(l, Functor("established", c)) => state[c] # "none" /\ loopOf[c] = l
    /\ Queued(l, Functor("destroyed", c)) => state[c] # "none" /\ loopOf[c] = l
    /\ Queued(l, Functor("remove", c)) => state[c] # "none"

\* connectEstablished never waits behind connectDestroyed.
OrderOK ==
  \A l \in Loops, c \in Conns :
    LET e == Functor("established", c)
        d == Functor("destroyed", c)
    IN  /\ NeverBefore(batch[l], d, e)
        /\ NeverBefore(pending[l], d, e)
        /\ In(batch[l], d) => ~In(pending[l], e)

StateOK ==
  \A c \in Conns :
    /\ state[c] = "none" <=> loopOf[c] = None
    /\ state[c] = "none" => index[c] = "kNew" /\ c \notin connections
    /\ state[c] = "kConnected" => index[c] = "kAdded"

OwnerOK ==
  \A c \in Conns :
    state[c] # "none" /\ lp[loopOf[c]] # "stopped" =>
      \/ c \in connections
      \/ Queued(loopOf[c], Functor("destroyed", c))
      \/ index[c] = "kNew" /\ ~Queued(loopOf[c], Functor("established", c))

MainOK == main # "loop" => lp[0] = "stopped"

IInv == TypeOK /\ PlaceOK /\ OrderOK /\ StateOK /\ OwnerOK /\ MainOK

------------------------------------------------------------------------------
(* Membership and order in sequences.                                       *)

LEMMA InEmpty == \A f : ~In(<<>>, f)
  BY DEF In

LEMMA InAppend ==
  ASSUME NEW S, NEW s \in Seq(S), NEW x \in S
  PROVE  \A f : In(Append(s, x), f) <=> (In(s, f) \/ f = x)
  <1> DEFINE t == Append(s, x)
  <1>1. /\ Len(t) = Len(s) + 1 /\ Len(s) \in Nat
        /\ \A i \in 1..Len(s) : t[i] = s[i]
        /\ t[Len(s) + 1] = x
    OBVIOUS
  <1>2. QED
    BY <1>1 DEF In

LEMMA InTail ==
  ASSUME NEW S, NEW s \in Seq(S), s # <<>>
  PROVE  \A f : In(s, f) <=> (f = Head(s) \/ In(Tail(s), f))
  <1> DEFINE t == Tail(s)
  <1>1. /\ Len(t) = Len(s) - 1 /\ Len(s) \in Nat \ {0}
        /\ \A i \in 1..Len(t) : t[i] = s[i + 1]
        /\ Head(s) = s[1]
    OBVIOUS
  <1>2. ASSUME NEW f, In(s, f)
        PROVE  f = Head(s) \/ In(t, f)
    <2>1. PICK i \in 1..Len(s) : s[i] = f
      BY <1>2 DEF In
    <2>2. CASE i = 1
      BY <1>1, <2>1, <2>2
    <2>3. CASE i # 1
      <3>1. i - 1 \in 1..Len(t) /\ t[i - 1] = f
        BY <1>1, <2>1, <2>3
      <3>2. QED
        BY <3>1 DEF In
    <2>4. QED
      BY <2>2, <2>3
  <1>3. ASSUME NEW f, f = Head(s) \/ In(t, f)
        PROVE  In(s, f)
    BY <1>1, <1>3 DEF In
  <1>4. QED
    BY <1>2, <1>3

LEMMA OrderEmpty == \A f, g : NeverBefore(<<>>, f, g)
  BY DEF NeverBefore

LEMMA OrderAppend ==
  ASSUME NEW S, NEW s \in Seq(S), NEW x \in S, NEW f, NEW g, f # g,
         NeverBefore(s, f, g), x = g => ~In(s, f)
  PROVE  NeverBefore(Append(s, x), f, g)
  <1> DEFINE t == Append(s, x)
  <1>1. /\ Len(t) = Len(s) + 1 /\ Len(s) \in Nat
        /\ \A i \in 1..Len(s) : t[i] = s[i]
        /\ t[Len(s) + 1] = x
    OBVIOUS
  <1>2. SUFFICES ASSUME NEW i \in 1..Len(t), NEW j \in 1..Len(t), t[i] = f, t[j] = g
                 PROVE  j < i
    BY DEF NeverBefore
  <1>3. CASE i \in 1..Len(s) /\ j \in 1..Len(s)
    BY <1>1, <1>2, <1>3 DEF NeverBefore
  <1>4. CASE j = Len(s) + 1
    BY <1>1, <1>2, <1>4 DEF In
  <1>5. CASE i = Len(s) + 1 /\ j \in 1..Len(s)
    BY <1>1, <1>5
  <1>6. QED
    BY <1>1, <1>3, <1>4, <1>5

LEMMA OrderTail ==
  ASSUME NEW S, NEW s \in Seq(S), s # <<>>, NEW f, NEW g, NeverBefore(s, f, g)
  PROVE  /\ NeverBefore(Tail(s), f, g)
         /\ Head(s) = f => ~In(Tail(s), g)
  <1> DEFINE t == Tail(s)
  <1>1. /\ Len(t) = Len(s) - 1 /\ Len(s) \in Nat \ {0}
        /\ \A i \in 1..Len(t) : t[i] = s[i + 1]
        /\ Head(s) = s[1]
    OBVIOUS
  <1>2. ASSUME NEW i \in 1..Len(t), NEW j \in 1..Len(t), t[i] = f, t[j] = g
        PROVE  j < i
    <2>1. i + 1 \in 1..Len(s) /\ j + 1 \in 1..Len(s) /\ s[i + 1] = f /\ s[j + 1] = g
      BY <1>1, <1>2
    <2>2. j + 1 < i + 1
      BY <2>1 DEF NeverBefore
    <2>3. QED
      BY <1>1, <2>2
  <1>3. ASSUME Head(s) = f, NEW j \in 1..Len(t), t[j] = g
        PROVE  FALSE
    <2>1. 1 \in 1..Len(s) /\ j + 1 \in 1..Len(s) /\ s[1] = f /\ s[j + 1] = g
      BY <1>1, <1>3
    <2>2. j + 1 < 1
      BY <2>1 DEF NeverBefore
    <2>3. QED
      BY <1>1, <2>2
  <1>4. QED
    BY <1>2, <1>3 DEF NeverBefore, In

------------------------------------------------------------------------------
(* What queueing and starting a functor do to the loops.                    *)

LEMMA FunctorType ==
  ASSUME NEW op \in {"established", "destroyed", "remove"}, NEW c \in Conns
  PROVE  Functor(op, c) \in Functors
  BY DEF Functor, Functors

LEMMA FunctorsDiffer ==
  \A c, d \in Conns :
    /\ Functor("established", c) # Functor("destroyed", d)
    /\ Functor("established", c) # Functor("remove", d)
    /\ Functor("destroyed", c) # Functor("remove", d)
    /\ \A op : Functor(op, c) = Functor(op, d) => c = d
  BY DEF Functor

\* Functors may leave a batch, in order, and none is added to it.
BatchShrinks ==
  \A l \in Loops :
    /\ \A f : In(batch'[l], f) => In(batch[l], f)
    /\ \A c \in Conns :
         NeverBefore(batch'[l], Functor("destroyed", c), Functor("established", c))

LEMMA QueueStep ==
  ASSUME TypeOK, NEW k \in Loops, NEW g \in Functors, QueueInLoop(k, g)
  PROVE  /\ pending' \in [Loops -> Seq(Functors)]
         /\ \A l \in Loops : \A f :
              In(pending'[l], f) <=> (In(pending[l], f) \/ (l = k /\ f = g))
  <1>1. pending[k] \in Seq(Functors)
    BY DEF TypeOK
  <1>2. pending' = [pending EXCEPT ![k] = Append(pending[k], g)]
    BY DEF QueueInLoop
  <1>3. \A f : In(Append(pending[k], g), f) <=> (In(pending[k], f) \/ f = g)
    BY <1>1, InAppend
  <1>4. Append(pending[k], g) \in Seq(Functors)
    BY <1>1
  <1>5. pending' \in [Loops -> Seq(Functors)]
    BY <1>2, <1>4 DEF TypeOK
  <1>6. /\ pending'[k] = Append(pending[k], g)
        /\ \A l \in Loops : l # k => pending'[l] = pending[l]
    BY <1>2 DEF TypeOK
  <1>7. QED
    BY <1>3, <1>5, <1>6

\* A functor that does not establish a connection, or one that nothing is queued
\* for, keeps the order.
LEMMA QueueOrder ==
  ASSUME TypeOK, OrderOK, NEW k \in Loops, NEW g \in Functors, QueueInLoop(k, g),
         BatchShrinks,
         \A c \in Conns : g = Functor("established", c)
                            => ~Queued(k, Functor("destroyed", c))
  PROVE  OrderOK'
  <1> SUFFICES ASSUME NEW l \in Loops, NEW c \in Conns
               PROVE  LET e == Functor("established", c)
                          d == Functor("destroyed", c)
                      IN  /\ NeverBefore(batch'[l], d, e)
                          /\ NeverBefore(pending'[l], d, e)
                          /\ In(batch'[l], d) => ~In(pending'[l], e)
    BY DEF OrderOK
  <1> DEFINE e == Functor("established", c)
             d == Functor("destroyed", c)
  <1>1. /\ NeverBefore(batch'[l], d, e)
        /\ NeverBefore(pending[l], d, e)
        /\ In(batch'[l], d) => In(batch[l], d) /\ ~In(pending[l], e)
    BY DEF OrderOK, BatchShrinks
  <1>2. CASE l # k
    <2>1. pending'[l] = pending[l]
      BY <1>2 DEF QueueInLoop, TypeOK
    <2>2. QED
      BY <1>1, <2>1
  <1>3. CASE l = k
    <2>1. pending'[l] = Append(pending[l], g)
      BY <1>3 DEF QueueInLoop, TypeOK
    <2>2. pending[l] \in Seq(Functors)
      BY DEF TypeOK
    <2>3. d # e
      BY FunctorsDiffer
    <2>4. g = e => ~In(pending[l], d) /\ ~In(batch[l], d)
      BY <1>3 DEF Queued
    <2>5. NeverBefore(Append(pending[l], g), d, e)
      BY <1>1, <2>2, <2>3, <2>4, OrderAppend
    <2>6. In(Append(pending[l], g), e) <=> (In(pending[l], e) \/ e = g)
      BY <2>2, InAppend
    <2>7. QED
      BY <1>1, <2>1, <2>4, <2>5, <2>6
  <1>4. QED
    BY <1>2, <1>3

LEMMA SameBatch == OrderOK /\ UNCHANGED batch => BatchShrinks
  BY DEF OrderOK, BatchShrinks

\* Queueing with the batches left alone, in terms of Queued.
LEMMA QueueOnly ==
  ASSUME TypeOK, NEW k \in Loops, NEW g \in Functors, QueueInLoop(k, g),
         UNCHANGED batch
  PROVE  \A l \in Loops : \A f : Queued(l, f)' <=> (Queued(l, f) \/ (l = k /\ f = g))
  BY QueueStep DEF Queued

LEMMA StartStep ==
  ASSUME TypeOK, OrderOK, NEW k \in Loops, NEW op, NEW x \in Conns, Starts(k, op, x)
  PROVE  /\ batch' \in [Loops -> Seq(Functors)]
         /\ \A l \in Loops : l # k => batch'[l] = batch[l]
         /\ \A f : In(batch[k], f) <=> (f = Functor(op, x) \/ In(batch'[k], f))
         /\ lp[k] = "functors"
         /\ \A l \in Loops, c \in Conns :
              NeverBefore(batch'[l], Functor("destroyed", c), Functor("established", c))
         /\ op = "destroyed" => ~In(batch'[k], Functor("established", x))
  <1>1. batch[k] \in Seq(Functors) /\ batch[k] # <<>> /\ Head(batch[k]) = Functor(op, x)
    BY DEF Starts, TypeOK
  <1>2. batch' = [batch EXCEPT ![k] = Tail(batch[k])] /\ lp[k] = "functors"
    BY DEF Starts
  <1>3. Tail(batch[k]) \in Seq(Functors)
    BY <1>1
  <1>4. batch'[k] = Tail(batch[k]) /\ \A l \in Loops : l # k => batch'[l] = batch[l]
    BY <1>2 DEF TypeOK
  <1>5. \A f : In(batch[k], f) <=> (f = Functor(op, x) \/ In(batch'[k], f))
    BY <1>1, <1>4, InTail
  <1>6. ASSUME NEW c \in Conns
        PROVE  /\ NeverBefore(Tail(batch[k]), Functor("destroyed", c), Functor("established", c))
               /\ Head(batch[k]) = Functor("destroyed", c)
                    => ~In(Tail(batch[k]), Functor("established", c))
    <2>1. NeverBefore(batch[k], Functor("destroyed", c), Functor("established", c))
      BY DEF OrderOK
    <2>2. QED
      BY <1>1, <2>1, OrderTail
  <1>7. ASSUME NEW l \in Loops, NEW c \in Conns
        PROVE  NeverBefore(batch'[l], Functor("destroyed", c), Functor("established", c))
    BY <1>4, <1>6 DEF OrderOK
  <1>8. batch' \in [Loops -> Seq(Functors)]
    BY <1>2, <1>3 DEF TypeOK
  <1>9. QED
    BY <1>1, <1>2, <1>4, <1>5, <1>6, <1>7, <1>8

------------------------------------------------------------------------------
(* One lemma per kind of step.                                              *)

LEMMA LoopFacts ==
  ASSUME IInv
  PROVE  /\ IoLoops \subseteq Loops /\ 0 \in Loops /\ None \notin Loops
         /\ \A c \in Conns : state[c] # "none" => loopOf[c] \in IoLoops
  <1>1. IoLoops \subseteq Loops /\ 0 \in Loops /\ None \notin Loops
    BY NumLoopsAssumption, NoneAssumption DEF IoLoops, PoolLoops, Loops
  <1>2. \A c \in Conns : state[c] # "none" => loopOf[c] \in IoLoops
    BY DEF IInv, StateOK, TypeOK
  <1>3. QED
    BY <1>1, <1>2

LEMMA InitInv == Init => IInv
  <1> SUFFICES ASSUME Init PROVE IInv
    OBVIOUS
  <1>1. 0 \in Loops /\ 0 \in 0..NumLoops /\ (NumLoops > 0 => 0 < NumLoops)
    BY NumLoopsAssumption DEF Loops
  <1>2. TypeOK
    <2>1. <<>> \in Seq(Functors)
      OBVIOUS
    <2>2. QED
      BY <1>1, <2>1 DEF Init, TypeOK
  <1>3. \A l \in Loops : \A f : ~Queued(l, f)
    BY InEmpty DEF Init, Queued
  <1>4. PlaceOK /\ StateOK /\ OwnerOK /\ MainOK
    BY <1>3 DEF Init, PlaceOK, StateOK, OwnerOK, MainOK
  <1>5. OrderOK
    BY InEmpty, OrderEmpty DEF Init, OrderOK
  <1>6. QED
    BY <1>2, <1>4, <1>5 DEF IInv

LEMMA NewConnectionInv ==
  ASSUME IInv, NEW x \in Conns, NewConnection(x)
  PROVE  IInv'
  <1> DEFINE e == Functor("established", x)
  <1>1. /\ TypeOK /\ PlaceOK /\ OrderOK /\ StateOK /\ OwnerOK /\ MainOK
        /\ state[x] = "none" /\ lp[0] = "poll"
        /\ connections' = connections \cup {x}
        /\ UNCHANGED <<batch, lp, quit, main, joined>>
    BY DEF IInv, NewConnection, mainVars
  <1>2. \A l \in Loops, op \in {"established", "destroyed", "remove"} :
          ~Queued(l, Functor(op, x))
    BY <1>1 DEF PlaceOK
  <1>3. CASE NumLoops = 0
    <2>1. /\ loopOf' = [loopOf EXCEPT ![x] = 0]
          /\ state' = [state EXCEPT ![x] = "kConnected"]
          /\ index' = [index EXCEPT ![x] = "kAdded"]
          /\ ups' = [ups EXCEPT ![x] = @ + 1]
          /\ UNCHANGED <<downs, destroys, next, pending>>
      BY <1>3, NumLoopsAssumption DEF NewConnection, ConnectEstablished
    <2>2. TypeOK'
      BY <1>1, <1>3, <2>1 DEF TypeOK, IoLoops
    <2>3. \A l \in Loops : \A f : Queued(l, f)' <=> Queued(l, f)
      BY <1>1, <2>1 DEF Queued
    <2>4. PlaceOK'
      BY <1>1, <1>2, <2>1, <2>3 DEF PlaceOK, TypeOK
    <2>5. OrderOK'
      BY <1>1, <2>1 DEF OrderOK
    <2>6. StateOK'
      BY <1>1, <2>1, LoopFacts DEF StateOK, TypeOK
    <2>7. OwnerOK'
      <3>1. ASSUME NEW c \in Conns, c # x, state'[c] # "none", lp'[loopOf'[c]] # "stopped"
            PROVE  \/ c \in connections'
                   \/ Queued(loopOf[c], Functor("destroyed", c))'
                   \/ index'[c] = "kNew" /\ ~Queued(loopOf[c], Functor("established", c))'
        <4>1. /\ loopOf'[c] = loopOf[c] /\ state'[c] = state[c] /\ index'[c] = index[c]
          BY <2>1, <3>1 DEF TypeOK
        <4>2. loopOf[c] \in Loops
          BY <3>1, <4>1, LoopFacts
        <4>3. QED
          BY <1>1, <2>3, <3>1, <4>1, <4>2 DEF OwnerOK
      <3>2. QED
        BY <1>1, <3>1 DEF OwnerOK
    <2>8. MainOK'
      BY <1>1 DEF MainOK
    <2>9. QED
      BY <2>2, <2>4, <2>5, <2>6, <2>7, <2>8 DEF IInv
  <1>4. CASE NumLoops > 0
    <2> DEFINE k == next + 1
    <2>1. /\ loopOf' = [loopOf EXCEPT ![x] = k]
          /\ state' = [state EXCEPT ![x] = "kConnecting"]
          /\ next' = NextAfter(next)
          /\ QueueInLoop(k, e)
          /\ UNCHANGED <<index, ups, downs, destroys>>
      BY <1>4 DEF NewConnection
    <2>2. k \in Loops /\ k \in IoLoops /\ k # None
      <3>1. k \in 1..NumLoops /\ k \in 0..NumLoops /\ k \in Nat
        BY <1>1, <1>4, NumLoopsAssumption DEF TypeOK
      <3>2. IoLoops = 1..NumLoops
        BY <1>4, NumLoopsAssumption DEF IoLoops, PoolLoops
      <3>3. QED
        BY <3>1, <3>2, NoneAssumption DEF Loops
    <2>3. e \in Functors
      BY FunctorType
    <2>4. /\ pending' \in [Loops -> Seq(Functors)]
          /\ \A l \in Loops : \A f : Queued(l, f)' <=> (Queued(l, f) \/ (l = k /\ f = e))
      BY <1>1, <2>1, <2>2, <2>3, QueueStep, QueueOnly
    <2>5. TypeOK'
      <3>1. next' \in 0..NumLoops /\ next' < NumLoops
        BY <1>1, <1>4, <2>1, NumLoopsAssumption DEF TypeOK, NextAfter
      <3>2. QED
        BY <1>1, <2>1, <2>2, <2>4, <3>1 DEF TypeOK
    <2>6. PlaceOK'
      <3>1. ASSUME NEW l \in Loops, NEW c \in Conns,
                   NEW op \in {"established", "destroyed", "remove"},
                   Queued(l, Functor(op, c))'
            PROVE  state'[c] # "none" /\ (op # "remove" => loopOf'[c] = l)
        <4>1. CASE Queued(l, Functor(op, c))
          <5>1. c # x /\ state'[c] = state[c] /\ loopOf'[c] = loopOf[c]
            BY <1>2, <2>1, <4>1 DEF TypeOK
          <5>2. QED
            BY <1>1, <4>1, <5>1 DEF PlaceOK
        <4>2. CASE l = k /\ Functor(op, c) = e
          <5>1. c = x /\ op = "established"
            BY <4>2 DEF Functor
          <5>2. QED
            BY <1>1, <2>1, <4>2, <5>1 DEF TypeOK
        <4>3. QED
          BY <2>4, <3>1, <4>1, <4>2
      <3>2. QED
        BY <3>1 DEF PlaceOK
    <2>7. OrderOK'
      <3>1. \A c \in Conns : e = Functor("established", c)
                              => ~Queued(k, Functor("destroyed", c))
        BY <1>2, <2>2, FunctorsDiffer
      <3>2. QED
        BY <1>1, <2>1, <2>2, <2>3, <3>1, QueueOrder, SameBatch
    <2>8. StateOK'
      BY <1>1, <2>1, <2>2 DEF StateOK, TypeOK
    <2>9. OwnerOK'
      <3>1. ASSUME NEW c \in Conns, c # x, state'[c] # "none", lp'[loopOf'[c]] # "stopped"
            PROVE  \/ c \in connections'
                   \/ Queued(loopOf[c], Functor("destroyed", c))'
                   \/ index'[c] = "kNew" /\ ~Queued(loopOf[c], Functor("established", c))'
        <4>1. /\ loopOf'[c] = loopOf[c] /\ state'[c] = state[c] /\ index'[c] = index[c]
          BY <1>1, <2>1, <3>1 DEF TypeOK
        <4>2. loopOf[c] \in Loops
          BY <3>1, <4>1, LoopFacts
        <4>3. Functor("established", c) # e
          BY <3>1, FunctorsDiffer
        <4>4. \/ c \in connections
              \/ Queued(loopOf[c], Functor("destroyed", c))
              \/ index[c] = "kNew" /\ ~Queued(loopOf[c], Functor("established", c))
          BY <1>1, <3>1, <4>1 DEF OwnerOK
        <4>5. \A f : Queued(loopOf[c], f)' <=> (Queued(loopOf[c], f) \/ (loopOf[c] = k /\ f = e))
          BY <2>4, <4>1, <4>2
        <4>6. QED
          BY <1>1, <4>1, <4>3, <4>4, <4>5
      <3>2. QED
        BY <1>1, <3>1 DEF OwnerOK
    <2>10. MainOK'
      BY <1>1 DEF MainOK
    <2>11. QED
      BY <2>5, <2>6, <2>7, <2>8, <2>9, <2>10 DEF IInv
  <1>5. QED
    BY <1>3, <1>4, NumLoopsAssumption

\* The owner of a connection, spelled out for one connection.
Owned(c) ==
  \/ c \in connections
  \/ Queued(loopOf[c], Functor("destroyed", c))
  \/ index[c] = "kNew" /\ ~Queued(loopOf[c], Functor("established", c))

\* connections_ hands a connection over to a connectDestroyed functor, with a
\* functor taken from a batch or none.
LEMMA ReleaseOwner ==
  ASSUME IInv, NEW x \in Conns, state[x] # "none",
         RemoveConnectionInLoop(x), BatchShrinks,
         \A l \in Loops, c \in Conns : In(batch[l], Functor("destroyed", c))
                                       => In(batch'[l], Functor("destroyed", c)),
         UNCHANGED <<loopOf, lp>>,
         \A c \in Conns : /\ state'[c] # "none" <=> state[c] # "none"
                          /\ c # x => index'[c] = index[c]
  PROVE  PlaceOK' /\ OrderOK' /\ OwnerOK' /\ pending' \in [Loops -> Seq(Functors)]
  <1> DEFINE k == loopOf[x]
             g == Functor("destroyed", x)
  <1>1. /\ TypeOK /\ PlaceOK /\ OrderOK /\ StateOK /\ OwnerOK /\ MainOK
        /\ connections' = connections \ {x}
        /\ QueueInLoop(k, g)
    BY DEF IInv, RemoveConnectionInLoop
  <1>2. k \in Loops /\ g \in Functors
    BY LoopFacts, FunctorType
  <1>3. /\ pending' \in [Loops -> Seq(Functors)]
        /\ \A l \in Loops : \A f :
              In(pending'[l], f) <=> (In(pending[l], f) \/ (l = k /\ f = g))
    BY <1>1, <1>2, QueueStep
  <1>4. OrderOK'
    BY <1>1, <1>2, FunctorsDiffer, QueueOrder
  <1>5. ASSUME NEW l \in Loops, NEW f, Queued(l, f)'
        PROVE  Queued(l, f) \/ (l = k /\ f = g)
    BY <1>3, <1>5 DEF Queued, BatchShrinks
  <1>6. PlaceOK'
    <2>1. ASSUME NEW l \in Loops, NEW c \in Conns,
                 NEW op \in {"established", "destroyed", "remove"},
                 Queued(l, Functor(op, c))'
          PROVE  state'[c] # "none" /\ (op # "remove" => loopOf'[c] = l)
      <3>1. CASE Queued(l, Functor(op, c))
        BY <1>1, <3>1 DEF PlaceOK
      <3>2. CASE l = k /\ Functor(op, c) = g
        <4>1. c = x
          BY <3>2 DEF Functor
        <4>2. QED
          BY <3>2, <4>1
      <3>3. QED
        BY <1>5, <2>1, <3>1, <3>2
    <2>2. QED
      BY <2>1 DEF PlaceOK
  <1>7. ASSUME NEW c \in Conns, state[c] # "none", lp[loopOf[c]] # "stopped"
        PROVE  Owned(c)'
    <2>1. loopOf[c] \in Loops
      BY <1>7, LoopFacts
    <2>2. CASE c = x
      <3>1. Queued(loopOf[c], Functor("destroyed", c))'
        BY <1>2, <1>3, <2>1, <2>2 DEF Queued
      <3>2. QED
        BY <3>1 DEF Owned
    <2>3. CASE c # x
      <3>1. Owned(c)
        BY <1>1, <1>7 DEF OwnerOK, Owned
      <3>2. CASE c \in connections
        BY <1>1, <2>3, <3>2 DEF Owned
      <3>3. CASE Queued(loopOf[c], Functor("destroyed", c))
        <4>1. Queued(loopOf[c], Functor("destroyed", c))'
          BY <1>3, <2>1, <3>3 DEF Queued
        <4>2. QED
          BY <4>1 DEF Owned
      <3>4. CASE index[c] = "kNew" /\ ~Queued(loopOf[c], Functor("established", c))
        <4>1. Functor("established", c) # g
          BY FunctorsDiffer
        <4>2. ~Queued(loopOf[c], Functor("established", c))'
          <5>1. SUFFICES ASSUME Queued(loopOf[c], Functor("established", c))'
                         PROVE  FALSE
            OBVIOUS
          <5>2. Queued(loopOf[c], Functor("established", c)) \/ Functor("established", c) = g
            BY <1>5, <2>1, <5>1
          <5>3. QED
            BY <3>4, <4>1, <5>2
        <4>3. QED
          BY <2>3, <3>4, <4>2 DEF Owned
      <3>5. QED
        BY <3>1, <3>2, <3>3, <3>4 DEF Owned
    <2>4. QED
      BY <2>2, <2>3
  <1>8. OwnerOK'
    BY <1>7 DEF OwnerOK, Owned
  <1>9. QED
    BY <1>3, <1>4, <1>6, <1>8

LEMMA HandleCloseInv ==
  ASSUME IInv, NEW x \in Conns, HandleClose(x)
  PROVE  IInv'
  <1>1. /\ TypeOK /\ PlaceOK /\ OrderOK /\ StateOK /\ OwnerOK /\ MainOK
        /\ state[x] = "kConnected" /\ lp[loopOf[x]] = "poll"
        /\ state' = [state EXCEPT ![x] = "kDisconnected"]
        /\ index' = [index EXCEPT ![x] = "kDeleted"]
        /\ downs' = [downs EXCEPT ![x] = @ + 1]
        /\ UNCHANGED <<next, loopOf, ups, destroys, batch, lp, quit, main, joined>>
    BY DEF IInv, HandleClose, mainVars
  <1>2. /\ \A c \in Conns : /\ state'[c] # "none" <=> state[c] # "none"
                            /\ c # x => state'[c] = state[c] /\ index'[c] = index[c]
        /\ state'[x] = "kDisconnected" /\ index'[x] = "kDeleted"
    BY <1>1 DEF TypeOK
  <1>3. BatchShrinks
    BY <1>1, SameBatch
  <1>4. CASE RemoveConnectionInLoop(x)
    <2>1. PlaceOK' /\ OrderOK' /\ OwnerOK' /\ pending' \in [Loops -> Seq(Functors)]
      BY <1>1, <1>2, <1>3, <1>4, ReleaseOwner
    <2>2. connections' = connections \ {x}
      BY <1>4 DEF RemoveConnectionInLoop
    <2>3. TypeOK'
      BY <1>1, <2>1, <2>2 DEF TypeOK
    <2>4. StateOK' /\ MainOK'
      BY <1>1, <1>2, <2>2 DEF StateOK, MainOK
    <2>5. QED
      BY <2>1, <2>3, <2>4 DEF IInv
  <1>5. CASE QueueInLoop(0, Functor("remove", x)) /\ UNCHANGED connections
    <2> DEFINE g == Functor("remove", x)
    <2>1. g \in Functors /\ 0 \in Loops
      BY FunctorType, LoopFacts
    <2>2. /\ pending' \in [Loops -> Seq(Functors)]
          /\ \A l \in Loops : \A f : Queued(l, f)' <=> (Queued(l, f) \/ (l = 0 /\ f = g))
      BY <1>1, <1>5, <2>1, QueueStep, QueueOnly
    <2>3. OrderOK'
      BY <1>1, <1>3, <1>5, <2>1, FunctorsDiffer, QueueOrder
    <2>4. TypeOK'
      BY <1>1, <1>5, <2>2 DEF TypeOK
    <2>5. PlaceOK'
      <3>1. ASSUME NEW l \in Loops, NEW c \in Conns,
                   NEW op \in {"established", "destroyed", "remove"},
                   Queued(l, Functor(op, c))'
            PROVE  state'[c] # "none" /\ (op # "remove" => loopOf'[c] = l)
        <4>1. CASE Queued(l, Functor(op, c))
          BY <1>1, <1>2, <4>1 DEF PlaceOK
        <4>2. CASE Functor(op, c) = g
          <5>1. c = x /\ op = "remove"
            BY <4>2 DEF Functor
          <5>2. QED
            BY <1>1, <1>2, <5>1
        <4>3. QED
          BY <2>2, <3>1, <4>1, <4>2
      <3>2. QED
        BY <3>1 DEF PlaceOK
    <2>6. StateOK' /\ MainOK'
      BY <1>1, <1>2, <1>5 DEF StateOK, MainOK
    <2>7. ASSUME NEW c \in Conns, state[c] # "none", lp[loopOf[c]] # "stopped"
          PROVE  Owned(c)'
      <3>1. loopOf[c] \in Loops /\ Owned(c)
        BY <1>1, <2>7, LoopFacts DEF OwnerOK, Owned
      <3>2. /\ Functor("established", c) # g
            /\ \A f : Queued(loopOf[c], f)' <=> (Queued(loopOf[c], f) \/ (loopOf[c] = 0 /\ f = g))
        BY <1>1, <2>2, <3>1, FunctorsDiffer
      <3>3. c = x => index[c] = "kAdded"
        BY <1>1 DEF StateOK
      <3>4. QED
        BY <1>2, <1>5, <3>1, <3>2, <3>3 DEF Owned
    <2>8. OwnerOK'
      BY <1>1, <1>2, <2>7 DEF OwnerOK, Owned
    <2>9. QED
      BY <2>3, <2>4, <2>5, <2>6, <2>8 DEF IInv
  <1>6. QED
    BY <1>4, <1>5 DEF HandleClose

\* Steps that move no functor in or out and touch no connection.
LEMMA LoopsOnly ==
  ASSUME IInv, TypeOK', MainOK', UNCHANGED <<connections, loopOf, state, index>>,
         \A l \in Loops : lp[l] = "stopped" => lp'[l] = "stopped",
         \A l \in Loops : \A f : Queued(l, f)' => Queued(l, f),
         \A l \in Loops : \A f : Queued(l, f) => Queued(l, f)' \/ lp'[l] = "stopped",
         OrderOK'
  PROVE  IInv'
  <1>1. PlaceOK /\ StateOK /\ OwnerOK
    BY DEF IInv
  <1>2. PlaceOK' /\ StateOK'
    BY <1>1 DEF PlaceOK, StateOK
  <1>3. ASSUME NEW c \in Conns, state[c] # "none", lp'[loopOf[c]] # "stopped"
        PROVE  Owned(c)'
    <2>1. loopOf[c] \in Loops
      BY <1>3, LoopFacts
    <2>2. lp[loopOf[c]] # "stopped"
      BY <1>3, <2>1
    <2>3. Owned(c)
      BY <1>1, <1>3, <2>2 DEF OwnerOK, Owned
    <2>4. \A f : Queued(loopOf[c], f)' <=> Queued(loopOf[c], f)
      BY <1>3, <2>1
    <2>5. QED
      BY <2>3, <2>4 DEF Owned
  <1>4. OwnerOK'
    BY <1>3 DEF OwnerOK, Owned
  <1>5. QED
    BY <1>2, <1>4 DEF IInv

LEMMA StartFunctorsInv ==
  ASSUME IInv, NEW k \in Loops, StartFunctors(k)
  PROVE  IInv'
  <1>1. /\ TypeOK /\ OrderOK /\ MainOK
        /\ lp[k] = "poll" /\ batch[k] = <<>>
        /\ lp' = [lp EXCEPT ![k] = "functors"]
        /\ batch' = [batch EXCEPT ![k] = pending[k]]
        /\ pending' = [pending EXCEPT ![k] = <<>>]
        /\ UNCHANGED <<next, connections, loopOf, state, index, ups, downs, destroys,
                       quit, main, joined>>
    BY DEF IInv, TypeOK, StartFunctors, connVars, mainVars
  <1>2. /\ batch'[k] = pending[k] /\ pending'[k] = <<>>
        /\ \A l \in Loops : l # k => batch'[l] = batch[l] /\ pending'[l] = pending[l]
    BY <1>1 DEF TypeOK
  <1>3. TypeOK'
    <2>1. <<>> \in Seq(Functors) /\ pending[k] \in Seq(Functors)
      BY <1>1 DEF TypeOK
    <2>2. QED
      BY <1>1, <2>1 DEF TypeOK
  <1>4. \A l \in Loops : \A f : Queued(l, f)' <=> Queued(l, f)
    BY <1>1, <1>2, InEmpty DEF Queued
  <1>5. OrderOK'
    BY <1>1, <1>2, InEmpty, OrderEmpty DEF OrderOK
  <1>6. MainOK' /\ \A l \in Loops : lp[l] = "stopped" => lp'[l] = "stopped"
    BY <1>1, LoopFacts DEF MainOK, TypeOK
  <1>7. QED
    BY <1>1, <1>3, <1>4, <1>5, <1>6, LoopsOnly

LEMMA EndFunctorsInv ==
  ASSUME IInv, NEW k \in Loops, EndFunctors(k)
  PROVE  IInv'
  <1>1. /\ TypeOK /\ OrderOK /\ MainOK
        /\ lp[k] = "functors" /\ batch[k] = <<>>
        /\ \/ lp' = [lp EXCEPT ![k] = "stopped"]
           \/ lp' = [lp EXCEPT ![k] = "poll"] /\ UNCHANGED pending
        /\ pending' = pending \/ pending' = [pending EXCEPT ![k] = <<>>]
        /\ UNCHANGED <<next, connections, loopOf, state, index, ups, downs, destroys,
                       batch, quit, main, joined>>
    BY DEF IInv, EndFunctors, connVars, mainVars
  <1>2. TypeOK'
    <2>1. <<>> \in Seq(Functors)
      OBVIOUS
    <2>2. QED
      BY <1>1, <2>1 DEF TypeOK
  <1>3. \A l \in Loops : \/ pending'[l] = pending[l]
                         \/ l = k /\ pending'[l] = <<>> /\ lp'[l] = "stopped"
    <2>1. SUFFICES ASSUME NEW l \in Loops
                   PROVE  \/ pending'[l] = pending[l]
                          \/ l = k /\ pending'[l] = <<>> /\ lp'[l] = "stopped"
      OBVIOUS
    <2>2. CASE UNCHANGED pending
      BY <2>2
    <2>3. CASE pending' # pending
      <3>1. /\ lp' = [lp EXCEPT ![k] = "stopped"]
            /\ pending' = [pending EXCEPT ![k] = <<>>]
        <4>1. CASE quit[k]
          <5>1. lp' = [lp EXCEPT ![k] = "stopped"]
            BY <4>1 DEF EndFunctors
          <5>2. pending' = [pending EXCEPT ![k] = <<>>]
            BY <1>1, <2>3
          <5>3. QED
            BY <5>1, <5>2
        <4>2. CASE ~quit[k]
          BY <2>3, <4>2 DEF EndFunctors
        <4>3. QED
          BY <4>1, <4>2
      <3>2. /\ lp \in [Loops -> {"poll", "functors", "stopped"}]
            /\ pending \in [Loops -> Seq(Functors)]
        BY <1>1 DEF TypeOK
      <3>3. CASE l = k
        <4>1. pending'[l] = <<>>
          BY <3>1, <3>2, <3>3
        <4>2. lp'[l] = "stopped"
          BY <3>1, <3>2, <3>3
        <4>3. QED
          BY <3>3, <4>1, <4>2
      <3>4. CASE l # k
        <4>1. pending'[l] = pending[l]
          BY <3>1, <3>2, <3>4
        <4>2. QED
          BY <4>1
      <3>5. QED
        BY <3>3, <3>4
    <2>4. QED
      BY <2>2, <2>3
  <1>4. /\ \A l \in Loops : \A f : Queued(l, f)' => Queued(l, f)
        /\ \A l \in Loops : \A f : Queued(l, f) => Queued(l, f)' \/ lp'[l] = "stopped"
    BY <1>1, <1>3, InEmpty DEF Queued
  <1>5. OrderOK'
    BY <1>1, <1>3, InEmpty, OrderEmpty DEF OrderOK
  <1>6. MainOK' /\ \A l \in Loops : lp[l] = "stopped" => lp'[l] = "stopped"
    BY <1>1, LoopFacts DEF MainOK, TypeOK
  <1>7. QED
    BY <1>1, <1>2, <1>4, <1>5, <1>6, LoopsOnly

LEMMA RunEstablishedInv ==
  ASSUME IInv, NEW k \in Loops, NEW x \in Conns, RunEstablished(k, x)
  PROVE  IInv'
  <1> DEFINE e == Functor("established", x)
  <1>1. /\ TypeOK /\ PlaceOK /\ OrderOK /\ StateOK /\ OwnerOK /\ MainOK
        /\ Starts(k, "established", x)
        /\ state' = [state EXCEPT ![x] = "kConnected"]
        /\ index' = [index EXCEPT ![x] = "kAdded"]
        /\ ups' = [ups EXCEPT ![x] = @ + 1]
        /\ UNCHANGED <<next, connections, loopOf, pending, lp, quit, main, joined, downs,
                       destroys>>
    BY DEF IInv, RunEstablished, ConnectEstablished, mainVars
  <1>2. /\ batch' \in [Loops -> Seq(Functors)]
        /\ \A l \in Loops : l # k => batch'[l] = batch[l]
        /\ \A f : In(batch[k], f) <=> (f = e \/ In(batch'[k], f))
        /\ lp[k] = "functors"
        /\ \A l \in Loops, c \in Conns :
             NeverBefore(batch'[l], Functor("destroyed", c), Functor("established", c))
    BY <1>1, StartStep
  <1>3. Queued(k, e) /\ state[x] # "none" /\ loopOf[x] = k
    BY <1>1, <1>2 DEF Queued, PlaceOK
  <1>4. \A c \in Conns : /\ state'[c] # "none" <=> state[c] # "none"
                         /\ c # x => state'[c] = state[c] /\ index'[c] = index[c]
                         /\ c = x => state'[c] = "kConnected" /\ index'[c] = "kAdded"
    BY <1>1, <1>3 DEF TypeOK
  <1>5. /\ \A l \in Loops : \A f : Queued(l, f)' => Queued(l, f)
        /\ \A l \in Loops : \A f : f # e /\ Queued(l, f) => Queued(l, f)'
    BY <1>1, <1>2 DEF Queued
  <1>6. TypeOK'
    BY <1>1, <1>2 DEF TypeOK
  <1>7. PlaceOK'
    BY <1>1, <1>4, <1>5 DEF PlaceOK
  <1>8. OrderOK'
    BY <1>1, <1>2 DEF OrderOK
  <1>9. StateOK' /\ MainOK'
    BY <1>1, <1>3, <1>4 DEF StateOK, MainOK
  <1>10. ASSUME NEW c \in Conns, state[c] # "none", lp[loopOf[c]] # "stopped"
         PROVE  Owned(c)'
    <2>1. loopOf[c] \in Loops /\ Owned(c)
      BY <1>1, <1>10, LoopFacts DEF OwnerOK, Owned
    <2>2. Functor("destroyed", c) # e
      BY FunctorsDiffer
    <2>3. CASE c = x
      <3>1. c \in connections \/ Queued(loopOf[c], Functor("destroyed", c))
        BY <1>3, <2>1, <2>3 DEF Owned
      <3>2. QED
        BY <1>1, <1>5, <2>1, <2>2, <3>1 DEF Owned
    <2>4. CASE c # x
      <3>1. Queued(loopOf[c], Functor("established", c))'
              => Queued(loopOf[c], Functor("established", c))
        BY <1>1, <1>5, <2>1
      <3>2. Queued(loopOf[c], Functor("destroyed", c))
              => Queued(loopOf[c], Functor("destroyed", c))'
        BY <1>1, <1>5, <2>1, <2>2
      <3>3. QED
        BY <1>1, <1>4, <2>1, <2>4, <3>1, <3>2 DEF Owned
    <2>5. QED
      BY <2>3, <2>4
  <1>11. OwnerOK'
    BY <1>1, <1>4, <1>10 DEF OwnerOK, Owned
  <1>12. QED
    BY <1>6, <1>7, <1>8, <1>9, <1>11 DEF IInv

\* What connectDestroyed leaves of a connection, run as a functor or at once.
LEMMA DestroyedState ==
  ASSUME TypeOK, StateOK, NEW x \in Conns, ConnectDestroyed(x), state[x] # "none",
         connections' \subseteq connections
  PROVE  /\ StateOK'
         /\ \A c \in Conns : /\ state'[c] # "none" <=> state[c] # "none"
                             /\ c # x => index'[c] = index[c]
         /\ index'[x] = "kNew"
         /\ loopOf' = loopOf
         /\ state' \in [Conns -> {"none", "kConnecting", "kConnected", "kDisconnected"}]
         /\ index' \in [Conns -> {"kNew", "kAdded", "kDeleted"}]
         /\ ups' \in [Conns -> Nat] /\ downs' \in [Conns -> Nat]
         /\ destroys' \in [Conns -> Nat]
  <1>1. /\ index' = [index EXCEPT ![x] = "kNew"]
        /\ destroys' = [destroys EXCEPT ![x] = @ + 1]
        /\ UNCHANGED <<loopOf, ups>>
        /\ \/ /\ state[x] = "kConnected"
              /\ state' = [state EXCEPT ![x] = "kDisconnected"]
              /\ downs' = [downs EXCEPT ![x] = @ + 1]
           \/ state[x] # "kConnected" /\ UNCHANGED <<state, downs>>
    BY DEF ConnectDestroyed
  <1>2. /\ index' \in [Conns -> {"kNew", "kAdded", "kDeleted"}]
        /\ ups' \in [Conns -> Nat] /\ downs' \in [Conns -> Nat]
        /\ destroys' \in [Conns -> Nat]
        /\ state' \in [Conns -> {"none", "kConnecting", "kConnected", "kDisconnected"}]
    <2>1. index' \in [Conns -> {"kNew", "kAdded", "kDeleted"}] /\ ups' \in [Conns -> Nat]
      BY <1>1 DEF TypeOK
    <2>2. destroys' \in [Conns -> Nat]
      BY <1>1 DEF TypeOK
    <2>3. downs' \in [Conns -> Nat]
      <3>1. downs \in [Conns -> Nat]
        BY DEF TypeOK
      <3>2. CASE downs' = [downs EXCEPT ![x] = @ + 1]
        BY <3>1, <3>2
      <3>3. QED
        BY <1>1, <3>1, <3>2
    <2>4. state' \in [Conns -> {"none", "kConnecting", "kConnected", "kDisconnected"}]
      <3>1. state \in [Conns -> {"none", "kConnecting", "kConnected", "kDisconnected"}]
        BY DEF TypeOK
      <3>2. CASE state' = [state EXCEPT ![x] = "kDisconnected"]
        BY <3>1, <3>2
      <3>3. QED
        BY <1>1, <3>1, <3>2
    <2>5. QED
      BY <2>1, <2>2, <2>3, <2>4
  <1>3. \A c \in Conns : /\ state'[c] # "none" <=> state[c] # "none"
                         /\ c # x => index'[c] = index[c] /\ state'[c] = state[c]
                         /\ c = x => index'[c] = "kNew" /\ state'[c] # "kConnected"
    BY <1>1 DEF TypeOK
  <1>4. StateOK'
    BY <1>1, <1>3 DEF StateOK
  <1>5. QED
    BY <1>1, <1>2, <1>3, <1>4

LEMMA RunDestroyedInv ==
  ASSUME IInv, NEW k \in Loops, NEW x \in Conns, RunDestroyed(k, x)
  PROVE  IInv'
  <1> DEFINE d == Functor("destroyed", x)
  <1>1. /\ TypeOK /\ PlaceOK /\ OrderOK /\ StateOK /\ OwnerOK /\ MainOK
        /\ Starts(k, "destroyed", x)
        /\ ConnectDestroyed(x)
        /\ UNCHANGED <<next, connections, pending, lp, quit, main, joined>>
    BY DEF IInv, RunDestroyed, mainVars
  <1>2. /\ batch' \in [Loops -> Seq(Functors)]
        /\ \A l \in Loops : l # k => batch'[l] = batch[l]
        /\ \A f : In(batch[k], f) <=> (f = d \/ In(batch'[k], f))
        /\ lp[k] = "functors"
        /\ \A l \in Loops, c \in Conns :
             NeverBefore(batch'[l], Functor("destroyed", c), Functor("established", c))
        /\ ~In(batch'[k], Functor("established", x))
    BY <1>1, StartStep
  <1>3. In(batch[k], d) /\ state[x] # "none" /\ loopOf[x] = k
    BY <1>1, <1>2 DEF Queued, PlaceOK
  <1>4. /\ StateOK'
        /\ \A c \in Conns : /\ state'[c] # "none" <=> state[c] # "none"
                            /\ c # x => index'[c] = index[c]
        /\ index'[x] = "kNew"
        /\ loopOf' = loopOf
        /\ state' \in [Conns -> {"none", "kConnecting", "kConnected", "kDisconnected"}]
        /\ index' \in [Conns -> {"kNew", "kAdded", "kDeleted"}]
        /\ ups' \in [Conns -> Nat] /\ downs' \in [Conns -> Nat]
        /\ destroys' \in [Conns -> Nat]
    BY <1>1, <1>3, DestroyedState
  <1>5. /\ \A l \in Loops : \A f : Queued(l, f)' => Queued(l, f)
        /\ \A l \in Loops : \A f : f # d /\ Queued(l, f) => Queued(l, f)'
    BY <1>1, <1>2 DEF Queued
  <1>6. TypeOK'
    BY <1>1, <1>2, <1>4 DEF TypeOK
  <1>7. PlaceOK'
    BY <1>1, <1>4, <1>5 DEF PlaceOK
  <1>8. OrderOK'
    BY <1>1, <1>2 DEF OrderOK
  <1>9. MainOK'
    BY <1>1 DEF MainOK
  <1>10. ASSUME NEW c \in Conns, state[c] # "none", lp[loopOf[c]] # "stopped"
         PROVE  Owned(c)'
    <2>1. loopOf[c] \in Loops /\ Owned(c)
      BY <1>1, <1>10, LoopFacts DEF OwnerOK, Owned
    <2>2. CASE c = x
      <3>1. ~In(pending[k], Functor("established", x))
        BY <1>1, <1>3 DEF OrderOK
      <3>2. ~Queued(loopOf[c], Functor("established", c))'
        BY <1>1, <1>2, <1>3, <1>4, <2>2, <3>1 DEF Queued
      <3>3. QED
        BY <1>4, <2>2, <3>2 DEF Owned
    <2>3. CASE c # x
      <3>1. Functor("destroyed", c) # d
        BY <2>3, FunctorsDiffer
      <3>2. Queued(loopOf[c], Functor("established", c))'
              => Queued(loopOf[c], Functor("established", c))
        BY <1>4, <1>5, <2>1
      <3>3. Queued(loopOf[c], Functor("destroyed", c))
              => Queued(loopOf[c], Functor("destroyed", c))'
        BY <1>4, <1>5, <2>1, <3>1
      <3>4. QED
        BY <1>1, <1>4, <2>1, <2>3, <3>2, <3>3 DEF Owned
    <2>4. QED
      BY <2>2, <2>3
  <1>11. OwnerOK'
    BY <1>1, <1>4, <1>10 DEF OwnerOK, Owned
  <1>12. QED
    BY <1>4, <1>6, <1>7, <1>8, <1>9, <1>11 DEF IInv

LEMMA RunRemoveInv ==
  ASSUME IInv, NEW k \in Loops, NEW x \in Conns, RunRemove(k, x)
  PROVE  IInv'
  <1>1. /\ TypeOK /\ PlaceOK /\ OrderOK /\ StateOK /\ MainOK
        /\ Starts(k, "remove", x)
        /\ RemoveConnectionInLoop(x)
        /\ connections' = connections \ {x}
        /\ UNCHANGED <<next, loopOf, state, index, ups, downs, destroys, lp, quit, main,
                       joined>>
    BY DEF IInv, RunRemove, RemoveConnectionInLoop, connVars, mainVars
  <1>2. /\ batch' \in [Loops -> Seq(Functors)]
        /\ \A l \in Loops : l # k => batch'[l] = batch[l]
        /\ \A f : In(batch[k], f) <=> (f = Functor("remove", x) \/ In(batch'[k], f))
        /\ lp[k] = "functors"
        /\ \A l \in Loops, c \in Conns :
             NeverBefore(batch'[l], Functor("destroyed", c), Functor("established", c))
    BY <1>1, StartStep
  <1>3. state[x] # "none"
    BY <1>1, <1>2 DEF Queued, PlaceOK
  <1>4. BatchShrinks
    BY <1>2 DEF BatchShrinks
  <1>5. \A l \in Loops, c \in Conns : In(batch[l], Functor("destroyed", c))
                                     => In(batch'[l], Functor("destroyed", c))
    BY <1>2, FunctorsDiffer
  <1>6. PlaceOK' /\ OrderOK' /\ OwnerOK' /\ pending' \in [Loops -> Seq(Functors)]
    BY <1>1, <1>3, <1>4, <1>5, ReleaseOwner
  <1>7. TypeOK'
    BY <1>1, <1>2, <1>6 DEF TypeOK
  <1>8. StateOK' /\ MainOK'
    BY <1>1 DEF StateOK, MainOK
  <1>9. QED
    BY <1>6, <1>7, <1>8 DEF IInv

LEMMA DestroyConnectionInv ==
  ASSUME IInv, NEW x \in Conns, DestroyConnection(x)
  PROVE  IInv'
  <1>1. /\ TypeOK /\ PlaceOK /\ OrderOK /\ StateOK /\ OwnerOK /\ MainOK
        /\ x \in connections /\ connections' = connections \ {x}
        /\ main = "conns" /\ lp[0] = "stopped"
        /\ UNCHANGED <<next, batch, lp, quit, main, joined>>
    BY DEF IInv, MainOK, DestroyConnection, mainVars
  <1>2. state[x] # "none"
    BY <1>1 DEF StateOK
  <1>3. CASE loopOf[x] = 0 /\ ConnectDestroyed(x) /\ UNCHANGED pending
    <2>1. /\ StateOK'
          /\ \A c \in Conns : /\ state'[c] # "none" <=> state[c] # "none"
                              /\ c # x => index'[c] = index[c]
          /\ loopOf' = loopOf
          /\ state' \in [Conns -> {"none", "kConnecting", "kConnected", "kDisconnected"}]
          /\ index' \in [Conns -> {"kNew", "kAdded", "kDeleted"}]
          /\ ups' \in [Conns -> Nat] /\ downs' \in [Conns -> Nat]
          /\ destroys' \in [Conns -> Nat]
      BY <1>1, <1>2, <1>3, DestroyedState
    <2>2. TypeOK'
      BY <1>1, <1>3, <2>1 DEF TypeOK
    <2>3. \A l \in Loops : \A f : Queued(l, f)' <=> Queued(l, f)
      BY <1>1, <1>3 DEF Queued
    <2>4. PlaceOK'
      BY <1>1, <2>1, <2>3 DEF PlaceOK
    <2>5. OrderOK' /\ MainOK'
      BY <1>1, <1>3 DEF OrderOK, MainOK
    <2>6. ASSUME NEW c \in Conns, state[c] # "none", lp[loopOf[c]] # "stopped"
          PROVE  Owned(c)'
      <3>1. loopOf[c] \in Loops /\ Owned(c) /\ c # x
        BY <1>1, <1>3, <2>6, LoopFacts DEF OwnerOK, Owned
      <3>2. \A f : Queued(loopOf[c], f)' <=> Queued(loopOf[c], f)
        BY <2>1, <2>3, <3>1
      <3>3. QED
        BY <1>1, <2>1, <3>1, <3>2 DEF Owned
    <2>7. OwnerOK'
      BY <1>1, <2>1, <2>6 DEF OwnerOK, Owned
    <2>8. QED
      BY <2>1, <2>2, <2>4, <2>5, <2>7 DEF IInv
  <1>4. CASE QueueInLoop(loopOf[x], Functor("destroyed", x)) /\ UNCHANGED connVars
    <2>1. RemoveConnectionInLoop(x) /\ BatchShrinks
      BY <1>1, <1>4, SameBatch DEF RemoveConnectionInLoop
    <2>2. UNCHANGED <<loopOf, state, index, ups, downs, destroys>>
      BY <1>4 DEF connVars
    <2>3. PlaceOK' /\ OrderOK' /\ OwnerOK' /\ pending' \in [Loops -> Seq(Functors)]
      BY <1>1, <1>2, <2>1, <2>2, ReleaseOwner
    <2>4. TypeOK'
      BY <1>1, <2>2, <2>3 DEF TypeOK
    <2>5. StateOK' /\ MainOK'
      BY <1>1, <2>2 DEF StateOK, MainOK
    <2>6. QED
      BY <2>3, <2>4, <2>5 DEF IInv
  <1>5. QED
    BY <1>3, <1>4 DEF DestroyConnection

LEMMA MainInv ==
  ASSUME IInv, \/ QuitBase \/ LeaveLoop \/ DestroyPool \/ QuitThread \/ JoinThread
               \/ DestroyBaseLoop
  PROVE  IInv'
  <1>1. TypeOK /\ OrderOK /\ MainOK
    BY DEF IInv
  <1>2. UNCHANGED <<next, connections, loopOf, state, index, ups, downs, destroys, lp, batch>>
    BY DEF QuitBase, LeaveLoop, DestroyPool, QuitThread, JoinThread, DestroyBaseLoop,
       connVars, loopVars
  <1>3. CASE DestroyBaseLoop
    <2>1. /\ pending' = [pending EXCEPT ![0] = <<>>] /\ main' = "gone"
          /\ main = "threads" /\ lp[0] = "stopped" /\ UNCHANGED <<quit, joined>>
      BY <1>1, <1>3 DEF DestroyBaseLoop, MainOK
    <2>2. TypeOK' /\ MainOK'
      <3>1. <<>> \in Seq(Functors)
        OBVIOUS
      <3>2. QED
        BY <1>1, <1>2, <2>1, <3>1 DEF TypeOK, MainOK
    <2>3. ASSUME NEW l \in Loops
          PROVE  \/ pending'[l] = pending[l]
                 \/ l = 0 /\ pending'[l] = <<>> /\ lp'[l] = "stopped"
      <3>1. pending \in [Loops -> Seq(Functors)]
        BY <1>1 DEF TypeOK
      <3>2. CASE l = 0
        <4>1. pending'[l] = <<>>
          BY <2>1, <3>1, <3>2
        <4>2. lp'[l] = "stopped"
          BY <1>2, <2>1, <3>2
        <4>3. QED
          BY <3>2, <4>1, <4>2
      <3>3. CASE l # 0
        <4>1. pending'[l] = pending[l]
          BY <2>1, <3>1, <3>3
        <4>2. QED
          BY <4>1
      <3>4. QED
        BY <3>2, <3>3
    <2>4. /\ \A l \in Loops : \A f : Queued(l, f)' => Queued(l, f)
          /\ \A l \in Loops : \A f : Queued(l, f) => Queued(l, f)' \/ lp'[l] = "stopped"
      BY <1>2, <2>3, InEmpty DEF Queued
    <2>5. OrderOK'
      BY <1>1, <1>2, <2>3, InEmpty, OrderEmpty DEF OrderOK
    <2>6. QED
      BY <1>2, <2>2, <2>4, <2>5, LoopsOnly
  <1>4. CASE \/ QuitBase \/ LeaveLoop \/ DestroyPool \/ QuitThread \/ JoinThread
    <2>1. UNCHANGED pending
      BY <1>4 DEF QuitBase, LeaveLoop, DestroyPool, QuitThread, JoinThread, loopVars
    <2>2. MainOK'
      BY <1>1, <1>2, <1>4 DEF QuitBase, LeaveLoop, DestroyPool, QuitThread, JoinThread,
         mainVars, MainOK
    <2>3. /\ quit' \in [Loops -> BOOLEAN]
          /\ main' \in {"loop", "conns", "threads", "gone"}
          /\ joined' \in 0..NumLoops
      <3>1. /\ quit \in [Loops -> BOOLEAN]
            /\ main \in {"loop", "conns", "threads", "gone"}
            /\ joined \in 0..NumLoops
        BY <1>1 DEF TypeOK
      <3>2. CASE QuitBase
        BY <3>1, <3>2 DEF QuitBase, mainVars
      <3>3. CASE LeaveLoop
        BY <3>1, <3>3 DEF LeaveLoop, loopVars
      <3>4. CASE DestroyPool
        BY <3>1, <3>4 DEF DestroyPool, loopVars
      <3>5. CASE QuitThread
        BY <3>1, <3>5 DEF QuitThread, mainVars
      <3>6. CASE JoinThread
        <4>1. /\ joined < NumLoops /\ joined' = joined + 1
              /\ UNCHANGED <<quit, main>>
          BY <3>6 DEF JoinThread, loopVars
        <4>2. joined' \in 0..NumLoops
          BY <3>1, <4>1, NumLoopsAssumption
        <4>3. QED
          BY <3>1, <4>1, <4>2
      <3>7. QED
        BY <1>4, <3>2, <3>3, <3>4, <3>5, <3>6
    <2>4. TypeOK'
      BY <1>1, <1>2, <2>1, <2>3 DEF TypeOK
    <2>5. \A l \in Loops : \A f : Queued(l, f)' <=> Queued(l, f)
      BY <1>2, <2>1 DEF Queued
    <2>6. OrderOK'
      BY <1>1, <1>2, <2>1 DEF OrderOK
    <2>7. QED
      BY <1>2, <2>2, <2>4, <2>5, <2>6, LoopsOnly
  <1>5. QED
    BY <1>3, <1>4

------------------------------------------------------------------------------
(* The life of a connection: no functor is queued twice, and each of the     *)
(* steps that end a connection is left only to who finds it not yet ended.   *)

Once(s, f) == \A i, j \in 1..Len(s) : s[i] = f /\ s[j] = f => i = j

OnceOK ==
  \A l \in Loops, f \in Functors :
    /\ Once(batch[l], f) /\ Once(pending[l], f)
    /\ ~(In(batch[l], f) /\ In(pending[l], f))

\* What a queued functor finds of its connection.
Awaited(c) ==
  \A l \in Loops :
    /\ Queued(l, Functor("established", c)) => state[c] = "kConnecting" /\ ups[c] = 0
    /\ Queued(l, Functor("remove", c)) => l = 0 /\ state[c] = "kDisconnected"
    /\ Queued(l, Functor("destroyed", c)) => c \notin connections /\ destroys[c] = 0

\* connections_ holds a connection until its removal, while the base loop runs.
Held(c) ==
  /\ c \in connections => destroys[c] = 0
  /\ state[c] \in {"kConnecting", "kConnected"} \/ Queued(0, Functor("remove", c))
       => c \in connections \/ lp[0] = "stopped"

Counted(c) ==
  /\ ups[c] <= 1 /\ downs[c] <= ups[c] /\ destroys[c] <= ups[c]
  /\ state[c] = "none" => ups[c] = 0 /\ downs[c] = 0 /\ destroys[c] = 0
  /\ state[c] = "kConnected" => ups[c] = 1 /\ downs[c] = 0
  /\ loopOf[c] = 0 => ups[c] = 1
  /\ state[c] # "none" /\ lp[loopOf[c]] # "stopped"
       => ups[c] = 1 \/ Queued(loopOf[c], Functor("established", c))

LifeOK(c) == Awaited(c) /\ Held(c) /\ Counted(c)

LInv == OnceOK /\ \A c \in Conns : LifeOK(c)

LEMMA OnceAppend ==
  ASSUME NEW S, NEW s \in Seq(S), NEW x \in S, NEW f, Once(s, f), x = f => ~In(s, f)
  PROVE  Once(Append(s, x), f)
  <1> DEFINE t == Append(s, x)
  <1>1. /\ Len(t) = Len(s) + 1 /\ Len(s) \in Nat
        /\ \A i \in 1..Len(s) : t[i] = s[i]
        /\ t[Len(s) + 1] = x
    OBVIOUS
  <1>2. ASSUME NEW i \in 1..Len(t), NEW j \in 1..Len(t), t[i] = f, t[j] = f
        PROVE  i = j
    <2>1. i = Len(s) + 1 <=> j = Len(s) + 1
      BY <1>1, <1>2 DEF In
    <2>2. QED
      BY <1>1, <1>2, <2>1 DEF Once
  <1>3. QED
    BY <1>2 DEF Once

LEMMA OnceTail ==
  ASSUME NEW S, NEW s \in Seq(S), s # <<>>, NEW f, Once(s, f)
  PROVE  Once(Tail(s), f) /\ (Head(s) = f => ~In(Tail(s), f))
  <1> DEFINE t == Tail(s)
  <1>1. /\ Len(t) = Len(s) - 1 /\ Len(s) \in Nat \ {0}
        /\ \A i \in 1..Len(t) : t[i] = s[i + 1]
        /\ Head(s) = s[1]
    OBVIOUS
  <1>2. ASSUME NEW i \in 1..Len(t), NEW j \in 1..Len(t), t[i] = f, t[j] = f
        PROVE  i = j
    <2>1. i + 1 \in 1..Len(s) /\ j + 1 \in 1..Len(s) /\ s[i + 1] = f /\ s[j + 1] = f
      BY <1>1, <1>2
    <2>2. i + 1 = j + 1
      BY <2>1 DEF Once
    <2>3. QED
      BY <1>1, <2>2
  <1>3. ASSUME Head(s) = f, NEW j \in 1..Len(t), t[j] = f
        PROVE  FALSE
    <2>1. 1 \in 1..Len(s) /\ j + 1 \in 1..Len(s) /\ s[1] = f /\ s[j + 1] = f
      BY <1>1, <1>3
    <2>2. 1 = j + 1
      BY <2>1 DEF Once
    <2>3. QED
      BY <1>1, <2>2
  <1>4. QED
    BY <1>2, <1>3 DEF Once, In

\* Taking a functor from a batch leaves it queued nowhere on that loop.
LEMMA StartOnce ==
  ASSUME TypeOK, OnceOK, NEW k \in Loops, NEW op, NEW x \in Conns, Starts(k, op, x)
  PROVE  /\ \A l \in Loops, f \in Functors :
              Once(batch'[l], f) /\ (In(batch'[l], f) => In(batch[l], f))
         /\ ~In(batch'[k], Functor(op, x)) /\ ~In(pending[k], Functor(op, x))
  <1>1. /\ batch[k] \in Seq(Functors) /\ batch[k] # <<>>
        /\ Head(batch[k]) = Functor(op, x)
        /\ batch' = [batch EXCEPT ![k] = Tail(batch[k])]
    BY DEF Starts, TypeOK
  <1>2. batch'[k] = Tail(batch[k]) /\ \A l \in Loops : l # k => batch'[l] = batch[l]
    BY <1>1 DEF TypeOK
  <1>3. Functor(op, x) \in Functors
    BY <1>1
  <1>4. In(batch[k], Functor(op, x)) /\ \A f : In(Tail(batch[k]), f) => In(batch[k], f)
    BY <1>1, InTail
  <1>5. \A f \in Functors : Once(Tail(batch[k]), f)
    BY <1>1, OnceTail DEF OnceOK
  <1>6. ~In(Tail(batch[k]), Functor(op, x))
    BY <1>1, <1>3, OnceTail DEF OnceOK
  <1>7. QED
    BY <1>2, <1>3, <1>4, <1>5, <1>6 DEF OnceOK

LEMMA QueueOnce ==
  ASSUME TypeOK, OnceOK, NEW k \in Loops, NEW g \in Functors, QueueInLoop(k, g),
         ~Queued(k, g),
         \A l \in Loops, f \in Functors :
           Once(batch'[l], f) /\ (In(batch'[l], f) => In(batch[l], f))
  PROVE  OnceOK'
  <1> SUFFICES ASSUME NEW l \in Loops, NEW f \in Functors
               PROVE  Once(pending'[l], f) /\ ~(In(batch'[l], f) /\ In(pending'[l], f))
    BY DEF OnceOK
  <1>1. pending[k] \in Seq(Functors) /\ ~In(pending[k], g) /\ ~In(batch[k], g)
    BY DEF TypeOK, Queued
  <1>2. /\ pending'[k] = Append(pending[k], g)
        /\ \A m \in Loops : m # k => pending'[m] = pending[m]
    BY DEF QueueInLoop, TypeOK
  <1>3. Once(Append(pending[k], g), f)
    BY <1>1, OnceAppend DEF OnceOK
  <1>4. In(Append(pending[k], g), f) <=> (In(pending[k], f) \/ f = g)
    BY <1>1, InAppend
  <1>5. QED
    BY <1>1, <1>2, <1>3, <1>4 DEF OnceOK

\* A connection no step touched.
LEMMA LifeKept ==
  ASSUME IInv, NEW c \in Conns, LifeOK(c),
         state'[c] = state[c], loopOf'[c] = loopOf[c], ups'[c] = ups[c],
         downs'[c] = downs[c], destroys'[c] = destroys[c],
         c \in connections' <=> c \in connections,
         \A l \in Loops : lp[l] = "stopped" => lp'[l] = "stopped",
         \A l \in Loops, op \in {"established", "destroyed", "remove"} :
           Queued(l, Functor(op, c))' => Queued(l, Functor(op, c)),
         \A l \in Loops : Queued(l, Functor("established", c))
                            => Queued(l, Functor("established", c))' \/ lp'[l] = "stopped"
  PROVE  LifeOK(c)'
  <1>1. 0 \in Loops /\ (state[c] # "none" => loopOf[c] \in Loops)
    BY LoopFacts
  <1>2. Awaited(c)'
    BY DEF LifeOK, Awaited
  <1>3. Held(c)'
    BY <1>1 DEF LifeOK, Held
  <1>4. Counted(c)'
    <2>1. ASSUME state[c] # "none", lp'[loopOf[c]] # "stopped"
          PROVE  ups[c] = 1 \/ Queued(loopOf[c], Functor("established", c))'
      BY <1>1, <2>1 DEF LifeOK, Counted
    <2>2. Counted(c)
      BY DEF LifeOK
    <2>3. QED
      BY <2>1, <2>2 DEF Counted
  <1>5. QED
    BY <1>2, <1>3, <1>4 DEF LifeOK

LEMMA NewConnectionLife ==
  ASSUME IInv, LInv, NEW x \in Conns, NewConnection(x)
  PROVE  LInv'
  <1> DEFINE e == Functor("established", x)
  <1>1. /\ TypeOK /\ PlaceOK /\ OnceOK /\ state[x] = "none" /\ LifeOK(x)
        /\ lp[0] = "poll" /\ 0 \in Loops
        /\ connections' = connections \cup {x} /\ UNCHANGED <<batch, lp>>
    BY LoopFacts DEF IInv, LInv, NewConnection
  <1>2. \A l \in Loops, op \in {"established", "destroyed", "remove"} :
          ~Queued(l, Functor(op, x))
    BY <1>1 DEF PlaceOK
  <1>3. ups[x] = 0 /\ downs[x] = 0 /\ destroys[x] = 0
    BY <1>1 DEF LifeOK, Counted
  <1>4. CASE NumLoops = 0
    <2>1. /\ loopOf' = [loopOf EXCEPT ![x] = 0]
          /\ state' = [state EXCEPT ![x] = "kConnected"]
          /\ ups' = [ups EXCEPT ![x] = @ + 1]
          /\ UNCHANGED <<downs, destroys, pending>>
      BY <1>4, NumLoopsAssumption DEF NewConnection, ConnectEstablished
    <2>2. \A l \in Loops : \A f : Queued(l, f)' <=> Queued(l, f)
      BY <1>1, <2>1 DEF Queued
    <2>3. OnceOK'
      BY <1>1, <2>1 DEF OnceOK
    <2>4. /\ state'[x] = "kConnected" /\ loopOf'[x] = 0 /\ ups'[x] = 1
          /\ downs'[x] = 0 /\ destroys'[x] = 0 /\ x \in connections'
      BY <1>1, <1>3, <2>1 DEF TypeOK
    <2>5. LifeOK(x)'
      BY <1>2, <2>2, <2>4 DEF LifeOK, Awaited, Held, Counted
    <2>6. ASSUME NEW c \in Conns, c # x
          PROVE  LifeOK(c)'
      <3>1. /\ state'[c] = state[c] /\ loopOf'[c] = loopOf[c] /\ ups'[c] = ups[c]
            /\ downs'[c] = downs[c] /\ destroys'[c] = destroys[c]
            /\ c \in connections' <=> c \in connections
        BY <1>1, <2>1, <2>6 DEF TypeOK
      <3>2. QED
        BY <1>1, <2>2, <3>1, LifeKept DEF LInv
    <2>7. QED
      BY <2>3, <2>5, <2>6 DEF LInv
  <1>5. CASE NumLoops > 0
    <2> DEFINE k == next + 1
    <2>1. /\ loopOf' = [loopOf EXCEPT ![x] = k]
          /\ state' = [state EXCEPT ![x] = "kConnecting"]
          /\ QueueInLoop(k, e)
          /\ UNCHANGED <<ups, downs, destroys>>
      BY <1>5 DEF NewConnection
    <2>2. k \in Loops /\ k # 0 /\ e \in Functors
      BY <1>1, <1>5, NumLoopsAssumption, FunctorType DEF TypeOK, Loops
    <2>3. \A l \in Loops : \A f : Queued(l, f)' <=> (Queued(l, f) \/ (l = k /\ f = e))
      BY <1>1, <2>1, <2>2, QueueOnly
    <2>4. OnceOK'
      <3>1. \A l \in Loops, f \in Functors :
              Once(batch'[l], f) /\ (In(batch'[l], f) => In(batch[l], f))
        BY <1>1 DEF OnceOK
      <3>2. QED
        BY <1>1, <1>2, <2>1, <2>2, <3>1, QueueOnce
    <2>5. /\ state'[x] = "kConnecting" /\ loopOf'[x] = k /\ ups'[x] = 0
          /\ downs'[x] = 0 /\ destroys'[x] = 0 /\ x \in connections'
      BY <1>1, <1>3, <2>1 DEF TypeOK
    <2>6. LifeOK(x)'
      <3>1. \A l \in Loops : /\ ~Queued(l, Functor("remove", x))'
                             /\ ~Queued(l, Functor("destroyed", x))'
        BY <1>2, <2>3, FunctorsDiffer
      <3>2. \A l \in Loops : l = k => Queued(l, e)'
        BY <2>3
      <3>3. Awaited(x)'
        BY <2>5, <3>1 DEF Awaited
      <3>4. Held(x)'
        BY <2>5 DEF Held
      <3>5. Counted(x)'
        BY <2>2, <2>5, <3>2 DEF Counted
      <3>6. QED
        BY <3>3, <3>4, <3>5 DEF LifeOK
    <2>7. ASSUME NEW c \in Conns, c # x
          PROVE  LifeOK(c)'
      <3>1. /\ state'[c] = state[c] /\ loopOf'[c] = loopOf[c] /\ ups'[c] = ups[c]
            /\ downs'[c] = downs[c] /\ destroys'[c] = destroys[c]
            /\ c \in connections' <=> c \in connections
        BY <1>1, <2>1, <2>7 DEF TypeOK
      <3>2. \A op : Functor(op, c) # e
        BY <2>7 DEF Functor
      <3>3. QED
        BY <1>1, <2>3, <3>1, <3>2, LifeKept DEF LInv
    <2>8. QED
      BY <2>4, <2>6, <2>7 DEF LInv
  <1>6. QED
    BY <1>4, <1>5, NumLoopsAssumption

\* What removing a connection does to the queues, whoever does it.
LEMMA RemoveQueues ==
  ASSUME IInv, LInv, NEW x \in Conns, NEW k \in Loops, QueueInLoop(k, Functor("destroyed", x)),
         x \in connections,
         \A l \in Loops, f \in Functors :
           Once(batch'[l], f) /\ (In(batch'[l], f) => In(batch[l], f)),
         \A l \in Loops, c \in Conns : In(batch[l], Functor("established", c))
                                         => In(batch'[l], Functor("established", c))
  PROVE  /\ OnceOK'
         /\ \A l \in Loops, c \in Conns, op \in {"established", "destroyed", "remove"} :
              Queued(l, Functor(op, c))' =>
                \/ Queued(l, Functor(op, c))
                \/ l = k /\ c = x /\ op = "destroyed"
         /\ \A l \in Loops, c \in Conns : Queued(l, Functor("established", c))
                                            => Queued(l, Functor("established", c))'
  <1> DEFINE d == Functor("destroyed", x)
  <1>1. TypeOK /\ OnceOK /\ LifeOK(x) /\ d \in Functors
    BY FunctorType DEF IInv, LInv
  <1>2. \A l \in Loops : \A f :
          In(pending'[l], f) <=> (In(pending[l], f) \/ (l = k /\ f = d))
    BY <1>1, QueueStep
  <1>3. ~Queued(k, d)
    BY <1>1 DEF LifeOK, Awaited
  <1>4. OnceOK'
    BY <1>1, <1>3, QueueOnce
  <1>5. ASSUME NEW l \in Loops, NEW c \in Conns,
               NEW op \in {"established", "destroyed", "remove"}, Queued(l, Functor(op, c))'
        PROVE  \/ Queued(l, Functor(op, c))
               \/ l = k /\ c = x /\ op = "destroyed"
    <2>1. Functor(op, c) = d => c = x /\ op = "destroyed"
      BY DEF Functor
    <2>2. Functor(op, c) \in Functors
      BY FunctorType
    <2>3. QED
      BY <1>2, <1>5, <2>1, <2>2 DEF Queued
  <1>6. \A l \in Loops, c \in Conns : Queued(l, Functor("established", c))
                                        => Queued(l, Functor("established", c))'
    BY <1>2 DEF Queued
  <1>7. QED
    BY <1>4, <1>5, <1>6

LEMMA HandleCloseLife ==
  ASSUME IInv, LInv, NEW x \in Conns, HandleClose(x)
  PROVE  LInv'
  <1>1. /\ TypeOK /\ PlaceOK /\ OnceOK /\ LifeOK(x) /\ state[x] = "kConnected"
        /\ lp[loopOf[x]] = "poll" /\ loopOf[x] \in Loops /\ 0 \in Loops
        /\ state' = [state EXCEPT ![x] = "kDisconnected"]
        /\ downs' = [downs EXCEPT ![x] = @ + 1]
        /\ UNCHANGED <<loopOf, ups, destroys, batch, lp>>
    BY LoopFacts DEF IInv, LInv, HandleClose
  <1>2. /\ ups[x] = 1 /\ state'[x] = "kDisconnected" /\ downs'[x] = 1 /\ destroys[x] <= 1
        /\ \A c \in Conns : c # x => state'[c] = state[c] /\ downs'[c] = downs[c]
    BY <1>1 DEF LifeOK, Counted, TypeOK
  <1>3. \A l \in Loops : /\ ~Queued(l, Functor("established", x))
                         /\ ~Queued(l, Functor("remove", x))
    BY <1>1 DEF LifeOK, Awaited
  <1>4. \A l \in Loops, f \in Functors :
          Once(batch'[l], f) /\ (In(batch'[l], f) => In(batch[l], f))
    BY <1>1 DEF OnceOK
  <1>5. Counted(x)'
    BY <1>1, <1>2 DEF Counted
  <1>6. CASE loopOf[x] = 0 /\ RemoveConnectionInLoop(x)
    <2>1. x \in connections /\ connections' = connections \ {x}
          /\ QueueInLoop(0, Functor("destroyed", x))
      BY <1>1, <1>6 DEF LifeOK, Held, RemoveConnectionInLoop
    <2>2. /\ OnceOK'
          /\ \A l \in Loops, c \in Conns, op \in {"established", "destroyed", "remove"} :
               Queued(l, Functor(op, c))' =>
                 \/ Queued(l, Functor(op, c))
                 \/ l = 0 /\ c = x /\ op = "destroyed"
          /\ \A l \in Loops, c \in Conns : Queued(l, Functor("established", c))
                                             => Queued(l, Functor("established", c))'
      BY <1>1, <1>4, <2>1, RemoveQueues
    <2>3. LifeOK(x)'
      BY <1>1, <1>2, <1>3, <1>5, <2>1, <2>2 DEF LifeOK, Awaited, Held
    <2>4. ASSUME NEW c \in Conns, c # x
          PROVE  LifeOK(c)'
      BY <1>1, <1>2, <2>1, <2>2, <2>4, LifeKept DEF LInv
    <2>5. QED
      BY <2>2, <2>3, <2>4 DEF LInv
  <1>7. CASE QueueInLoop(0, Functor("remove", x)) /\ UNCHANGED connections
    <2> DEFINE g == Functor("remove", x)
    <2>1. g \in Functors
      BY FunctorType
    <2>2. \A l \in Loops : \A f : Queued(l, f)' <=> (Queued(l, f) \/ (l = 0 /\ f = g))
      BY <1>1, <1>7, <2>1, QueueOnly
    <2>3. OnceOK'
      BY <1>1, <1>3, <1>4, <1>7, <2>1, QueueOnce
    <2>4. LifeOK(x)'
      <3>1. Awaited(x)'
        BY <1>1, <1>2, <1>3, <1>7, <2>2, FunctorsDiffer DEF LifeOK, Awaited
      <3>2. Held(x)'
        BY <1>1, <1>2, <1>7 DEF LifeOK, Held
      <3>3. QED
        BY <1>5, <3>1, <3>2 DEF LifeOK
    <2>5. ASSUME NEW c \in Conns, c # x
          PROVE  LifeOK(c)'
      <3>1. \A op : Functor(op, c) # g
        BY <2>5 DEF Functor
      <3>2. QED
        BY <1>1, <1>2, <1>7, <2>2, <2>5, <3>1, LifeKept DEF LInv
    <2>6. QED
      BY <2>3, <2>4, <2>5 DEF LInv
  <1>8. QED
    BY <1>6, <1>7 DEF HandleClose

LEMMA RunEstablishedLife ==
  ASSUME IInv, LInv, NEW k \in Loops, NEW x \in Conns, RunEstablished(k, x)
  PROVE  LInv'
  <1> DEFINE e == Functor("established", x)
  <1>1. /\ TypeOK /\ OrderOK /\ PlaceOK /\ OnceOK /\ LifeOK(x)
        /\ Starts(k, "established", x)
        /\ state' = [state EXCEPT ![x] = "kConnected"]
        /\ ups' = [ups EXCEPT ![x] = @ + 1]
        /\ UNCHANGED <<connections, loopOf, pending, lp, downs, destroys>>
    BY DEF IInv, LInv, RunEstablished, ConnectEstablished
  <1>2. /\ \A l \in Loops : l # k => batch'[l] = batch[l]
        /\ \A f : In(batch[k], f) <=> (f = e \/ In(batch'[k], f))
    BY <1>1, StartStep
  <1>3. /\ \A l \in Loops, f \in Functors :
             Once(batch'[l], f) /\ (In(batch'[l], f) => In(batch[l], f))
        /\ ~In(batch'[k], e) /\ ~In(pending[k], e)
    BY <1>1, StartOnce
  <1>4. /\ \A l \in Loops : \A f : Queued(l, f)' => Queued(l, f)
        /\ \A l \in Loops : \A f : f # e /\ Queued(l, f) => Queued(l, f)'
        /\ Queued(k, e) /\ ~Queued(k, e)'
    BY <1>1, <1>2, <1>3 DEF Queued
  <1>5. state[x] = "kConnecting" /\ ups[x] = 0 /\ loopOf[x] = k
    BY <1>1, <1>4 DEF LifeOK, Awaited, PlaceOK
  <1>6. /\ state'[x] = "kConnected" /\ ups'[x] = 1
        /\ \A c \in Conns : c # x => state'[c] = state[c] /\ ups'[c] = ups[c]
    BY <1>1, <1>5 DEF TypeOK
  <1>7. OnceOK'
    BY <1>1, <1>3 DEF OnceOK
  <1>8. LifeOK(x)'
    <2>1. \A l \in Loops : ~Queued(l, e)' /\ ~Queued(l, Functor("remove", x))'
      BY <1>1, <1>4, <1>5 DEF PlaceOK, LifeOK, Awaited
    <2>2. Awaited(x)'
      BY <1>1, <1>4, <2>1 DEF LifeOK, Awaited
    <2>3. Held(x)'
      BY <1>1, <1>4, <1>5 DEF LifeOK, Held
    <2>4. downs[x] = 0 /\ destroys[x] = 0
      BY <1>1, <1>5 DEF LifeOK, Counted, TypeOK
    <2>5. Counted(x)'
      BY <1>1, <1>6, <2>4 DEF Counted
    <2>6. QED
      BY <2>2, <2>3, <2>5 DEF LifeOK
  <1>9. ASSUME NEW c \in Conns, c # x
        PROVE  LifeOK(c)'
    <2>1. \A op : Functor(op, c) # e
      BY <1>9 DEF Functor
    <2>2. QED
      BY <1>1, <1>4, <1>6, <1>9, <2>1, LifeKept DEF LInv
  <1>10. QED
    BY <1>7, <1>8, <1>9 DEF LInv

LEMMA RunDestroyedLife ==
  ASSUME IInv, LInv, NEW k \in Loops, NEW x \in Conns, RunDestroyed(k, x)
  PROVE  LInv'
  <1> DEFINE d == Functor("destroyed", x)
  <1>1. /\ TypeOK /\ OrderOK /\ PlaceOK /\ OnceOK /\ LifeOK(x)
        /\ Starts(k, "destroyed", x)
        /\ ConnectDestroyed(x)
        /\ destroys' = [destroys EXCEPT ![x] = @ + 1]
        /\ \/ /\ state[x] = "kConnected"
              /\ state' = [state EXCEPT ![x] = "kDisconnected"]
              /\ downs' = [downs EXCEPT ![x] = @ + 1]
           \/ state[x] # "kConnected" /\ UNCHANGED <<state, downs>>
        /\ UNCHANGED <<connections, loopOf, pending, lp, ups>>
    BY DEF IInv, LInv, RunDestroyed, ConnectDestroyed
  <1>2. /\ \A l \in Loops : l # k => batch'[l] = batch[l]
        /\ \A f : In(batch[k], f) <=> (f = d \/ In(batch'[k], f))
        /\ lp[k] = "functors"
        /\ ~In(batch'[k], Functor("established", x))
    BY <1>1, StartStep
  <1>3. /\ \A l \in Loops, f \in Functors :
             Once(batch'[l], f) /\ (In(batch'[l], f) => In(batch[l], f))
        /\ ~In(batch'[k], d) /\ ~In(pending[k], d)
    BY <1>1, StartOnce
  <1>4. /\ \A l \in Loops : \A f : Queued(l, f)' => Queued(l, f)
        /\ \A l \in Loops : \A f : f # d /\ Queued(l, f) => Queued(l, f)'
        /\ Queued(k, d) /\ ~Queued(k, d)'
    BY <1>1, <1>2, <1>3 DEF Queued
  <1>5. /\ x \notin connections /\ destroys[x] = 0
        /\ state[x] # "none" /\ loopOf[x] = k
    BY <1>1, <1>4 DEF LifeOK, Awaited, PlaceOK
  <1>6. ~Queued(k, Functor("established", x))
    <2>1. Functor("established", x) # d
      BY FunctorsDiffer
    <2>2. ~In(pending[k], Functor("established", x))
      BY <1>1, <1>2 DEF OrderOK
    <2>3. QED
      BY <1>2, <2>1, <2>2 DEF Queued
  <1>7. ups[x] = 1
    BY <1>1, <1>2, <1>5, <1>6 DEF LifeOK, Counted
  <1>8. /\ destroys'[x] = 1 /\ ups'[x] = 1 /\ downs'[x] <= 1 /\ downs'[x] \in Nat
        /\ state'[x] # "kConnected" /\ state'[x] # "none"
        /\ state[x] # "kConnected" => state'[x] = state[x]
        /\ state[x] = "kConnected" => state'[x] = "kDisconnected"
        /\ \A c \in Conns : c # x => /\ state'[c] = state[c] /\ downs'[c] = downs[c]
                                     /\ destroys'[c] = destroys[c]
    BY <1>1, <1>5, <1>7 DEF LifeOK, Counted, TypeOK
  <1>9. OnceOK'
    BY <1>1, <1>3 DEF OnceOK
  <1>10. LifeOK(x)'
    <2>1. \A l \in Loops : ~Queued(l, Functor("established", x))' /\ ~Queued(l, d)'
      BY <1>1, <1>4, <1>5, <1>6 DEF PlaceOK
    <2>2. Awaited(x)'
      BY <1>1, <1>4, <1>8, <2>1 DEF LifeOK, Awaited
    <2>3. Held(x)'
      <3>1. ASSUME Queued(0, Functor("remove", x))'
            PROVE  lp[0] = "stopped"
        BY <1>1, <1>4, <1>5, <3>1, LoopFacts DEF LifeOK, Held
      <3>2. ASSUME state'[x] \in {"kConnecting", "kConnected"}
            PROVE  lp[0] = "stopped"
        BY <1>1, <1>5, <1>8, <3>2 DEF LifeOK, Held
      <3>3. QED
        BY <1>1, <1>5, <3>1, <3>2 DEF Held
    <2>4. Counted(x)'
      BY <1>8 DEF Counted
    <2>5. QED
      BY <2>2, <2>3, <2>4 DEF LifeOK
  <1>11. ASSUME NEW c \in Conns, c # x
         PROVE  LifeOK(c)'
    <2>1. \A op : Functor(op, c) # d
      BY <1>11 DEF Functor
    <2>2. QED
      BY <1>1, <1>4, <1>8, <1>11, <2>1, LifeKept DEF LInv
  <1>12. QED
    BY <1>9, <1>10, <1>11 DEF LInv

LEMMA RunRemoveLife ==
  ASSUME IInv, LInv, NEW k \in Loops, NEW x \in Conns, RunRemove(k, x)
  PROVE  LInv'
  <1> DEFINE g == Functor("remove", x)
  <1>1. /\ TypeOK /\ OrderOK /\ PlaceOK /\ OnceOK /\ LifeOK(x)
        /\ Starts(k, "remove", x)
        /\ QueueInLoop(loopOf[x], Functor("destroyed", x))
        /\ connections' = connections \ {x}
        /\ UNCHANGED <<state, loopOf, ups, downs, destroys, lp>>
    BY DEF IInv, LInv, RunRemove, RemoveConnectionInLoop, connVars
  <1>2. /\ \A l \in Loops : l # k => batch'[l] = batch[l]
        /\ \A f : In(batch[k], f) <=> (f = g \/ In(batch'[k], f))
        /\ lp[k] = "functors"
    BY <1>1, StartStep
  <1>3. /\ \A l \in Loops, f \in Functors :
             Once(batch'[l], f) /\ (In(batch'[l], f) => In(batch[l], f))
        /\ ~In(batch'[k], g) /\ ~In(pending[k], g)
    BY <1>1, StartOnce
  <1>4. k = 0 /\ state[x] = "kDisconnected" /\ x \in connections /\ loopOf[x] \in Loops
    <2>1. Queued(k, g)
      BY <1>2 DEF Queued
    <2>2. k = 0 /\ state[x] = "kDisconnected"
      BY <1>1, <2>1 DEF LifeOK, Awaited
    <2>3. QED
      BY <1>1, <1>2, <2>1, <2>2, LoopFacts DEF LifeOK, Held
  <1>5. \A l \in Loops, c \in Conns : In(batch[l], Functor("established", c))
                                        => In(batch'[l], Functor("established", c))
    BY <1>2, FunctorsDiffer
  <1>6. /\ OnceOK'
        /\ \A l \in Loops, c \in Conns, op \in {"established", "destroyed", "remove"} :
             Queued(l, Functor(op, c))' =>
               \/ Queued(l, Functor(op, c))
               \/ l = loopOf[x] /\ c = x /\ op = "destroyed"
        /\ \A l \in Loops, c \in Conns : Queued(l, Functor("established", c))
                                           => Queued(l, Functor("established", c))'
    BY <1>1, <1>3, <1>4, <1>5, RemoveQueues
  <1>7. LifeOK(x)'
    <2>1. ~Queued(0, g)'
      <3>1. Functor("destroyed", x) \in Functors /\ g # Functor("destroyed", x)
        BY FunctorType, FunctorsDiffer
      <3>2. \A l \in Loops : \A f : In(pending'[l], f) <=>
              (In(pending[l], f) \/ (l = loopOf[x] /\ f = Functor("destroyed", x)))
        BY <1>1, <1>4, <3>1, QueueStep
      <3>3. ~In(pending'[k], g)
        BY <1>3, <3>1, <3>2
      <3>4. QED
        BY <1>3, <1>4, <3>3 DEF Queued
    <2>2. Awaited(x)'
      BY <1>1, <1>4, <1>6 DEF LifeOK, Awaited, Held
    <2>3. Held(x)'
      BY <1>1, <1>4, <2>1 DEF Held
    <2>4. Counted(x)'
      BY <1>1, <1>4, <1>6 DEF LifeOK, Counted
    <2>5. QED
      BY <2>2, <2>3, <2>4 DEF LifeOK
  <1>8. ASSUME NEW c \in Conns, c # x
        PROVE  LifeOK(c)'
    BY <1>1, <1>6, <1>8, LifeKept DEF LInv
  <1>9. QED
    BY <1>6, <1>7, <1>8 DEF LInv

LEMMA DestroyConnectionLife ==
  ASSUME IInv, LInv, NEW x \in Conns, DestroyConnection(x)
  PROVE  LInv'
  <1>1. /\ TypeOK /\ StateOK /\ PlaceOK /\ OnceOK /\ LifeOK(x)
        /\ x \in connections /\ connections' = connections \ {x}
        /\ lp[0] = "stopped" /\ state[x] # "none" /\ loopOf[x] \in Loops /\ 0 \in Loops
        /\ UNCHANGED <<batch, lp>>
    BY LoopFacts DEF IInv, LInv, MainOK, StateOK, DestroyConnection
  <1>2. CASE loopOf[x] = 0 /\ ConnectDestroyed(x) /\ UNCHANGED pending
    <2>1. /\ destroys' = [destroys EXCEPT ![x] = @ + 1]
          /\ \/ /\ state[x] = "kConnected"
                /\ state' = [state EXCEPT ![x] = "kDisconnected"]
                /\ downs' = [downs EXCEPT ![x] = @ + 1]
             \/ state[x] # "kConnected" /\ UNCHANGED <<state, downs>>
          /\ UNCHANGED <<loopOf, ups>>
      BY <1>2 DEF ConnectDestroyed
    <2>2. \A l \in Loops : \A f : Queued(l, f)' <=> Queued(l, f)
      BY <1>1, <1>2 DEF Queued
    <2>3. OnceOK'
      BY <1>1, <1>2 DEF OnceOK
    <2>4. destroys[x] = 0 /\ ups[x] = 1
      BY <1>1, <1>2 DEF LifeOK, Held, Counted
    <2>5. /\ destroys'[x] = 1 /\ ups'[x] = 1 /\ downs'[x] <= 1
          /\ state'[x] # "kConnected" /\ state'[x] # "none"
          /\ state[x] # "kConnected" => state'[x] = state[x]
          /\ \A c \in Conns : c # x => /\ state'[c] = state[c] /\ downs'[c] = downs[c]
                                       /\ destroys'[c] = destroys[c]
      BY <1>1, <2>1, <2>4 DEF LifeOK, Counted, TypeOK
    <2>6. LifeOK(x)'
      <3>1. \A l \in Loops : ~Queued(l, Functor("destroyed", x))'
        BY <1>1, <2>2 DEF LifeOK, Awaited
      <3>2. Awaited(x)'
        <4>1. \A l \in Loops : ~Queued(l, Functor("established", x))'
          BY <1>1, <2>2, <2>4 DEF LifeOK, Awaited
        <4>2. \A l \in Loops : Queued(l, Functor("remove", x))'
                                 => l = 0 /\ state'[x] = "kDisconnected"
          BY <1>1, <2>2, <2>5 DEF LifeOK, Awaited
        <4>3. QED
          BY <3>1, <4>1, <4>2 DEF Awaited
      <3>3. Held(x)'
        BY <1>1 DEF Held
      <3>4. Counted(x)'
        BY <2>5 DEF Counted
      <3>5. QED
        BY <3>2, <3>3, <3>4 DEF LifeOK
    <2>7. ASSUME NEW c \in Conns, c # x
          PROVE  LifeOK(c)'
      BY <1>1, <2>1, <2>2, <2>5, <2>7, LifeKept DEF LInv
    <2>8. QED
      BY <2>3, <2>6, <2>7 DEF LInv
  <1>3. CASE QueueInLoop(loopOf[x], Functor("destroyed", x)) /\ UNCHANGED connVars
    <2>1. UNCHANGED <<state, loopOf, ups, downs, destroys>>
      BY <1>3 DEF connVars
    <2>2. \A l \in Loops, f \in Functors :
            Once(batch'[l], f) /\ (In(batch'[l], f) => In(batch[l], f))
      BY <1>1 DEF OnceOK
    <2>3. /\ OnceOK'
          /\ \A l \in Loops, c \in Conns, op \in {"established", "destroyed", "remove"} :
               Queued(l, Functor(op, c))' =>
                 \/ Queued(l, Functor(op, c))
                 \/ l = loopOf[x] /\ c = x /\ op = "destroyed"
          /\ \A l \in Loops, c \in Conns : Queued(l, Functor("established", c))
                                             => Queued(l, Functor("established", c))'
      BY <1>1, <1>3, <2>2, RemoveQueues
    <2>4. LifeOK(x)'
      <3>1. Awaited(x)'
        BY <1>1, <2>1, <2>3 DEF LifeOK, Awaited, Held
      <3>2. Held(x)'
        BY <1>1 DEF Held
      <3>3. Counted(x)'
        BY <1>1, <2>1, <2>3 DEF LifeOK, Counted
      <3>4. QED
        BY <3>1, <3>2, <3>3 DEF LifeOK
    <2>5. ASSUME NEW c \in Conns, c # x
          PROVE  LifeOK(c)'
      BY <1>1, <2>1, <2>3, <2>5, LifeKept DEF LInv
    <2>6. QED
      BY <2>3, <2>4, <2>5 DEF LInv
  <1>4. QED
    BY <1>2, <1>3 DEF DestroyConnection

\* Steps of the loops and of the main thread that touch no connection.
LEMMA LoopsOnlyLife ==
  ASSUME IInv, LInv, UNCHANGED <<connections, loopOf, state, ups, downs, destroys>>,
         OnceOK',
         \A l \in Loops : lp[l] = "stopped" => lp'[l] = "stopped",
         \A l \in Loops : \A f : Queued(l, f)' => Queued(l, f),
         \A l \in Loops : \A f : Queued(l, f) => Queued(l, f)' \/ lp'[l] = "stopped"
  PROVE  LInv'
  <1>1. ASSUME NEW c \in Conns
        PROVE  LifeOK(c)'
    BY LifeKept DEF LInv
  <1>2. QED
    BY <1>1 DEF LInv

LEMMA OnceEmpty == \A f : Once(<<>>, f)
  BY DEF Once

\* The queues left as they are or cleared, and batches filled from them.
LEMMA LoopStepsLife ==
  ASSUME IInv, LInv,
         \/ \E k \in Loops : StartFunctors(k) \/ EndFunctors(k)
         \/ QuitBase \/ LeaveLoop \/ DestroyPool \/ QuitThread \/ JoinThread
         \/ DestroyBaseLoop \/ UNCHANGED vars
  PROVE  LInv'
  <1>1. TypeOK /\ OnceOK /\ MainOK /\ 0 \in Loops
    BY LoopFacts DEF IInv, LInv
  <1>2. UNCHANGED <<connections, loopOf, state, ups, downs, destroys>>
    BY DEF StartFunctors, EndFunctors, QuitBase, LeaveLoop, DestroyPool, QuitThread,
       JoinThread, DestroyBaseLoop, vars, connVars
  <1>3. CASE \E k \in Loops : StartFunctors(k)
    <2>1. PICK k \in Loops : StartFunctors(k)
      BY <1>3
    <2>2. /\ batch[k] = <<>> /\ lp[k] = "poll"
          /\ lp' = [lp EXCEPT ![k] = "functors"]
          /\ batch' = [batch EXCEPT ![k] = pending[k]]
          /\ pending' = [pending EXCEPT ![k] = <<>>]
      BY <1>1, <2>1 DEF TypeOK, StartFunctors
    <2>3. /\ batch'[k] = pending[k] /\ pending'[k] = <<>>
          /\ \A l \in Loops : l # k => batch'[l] = batch[l] /\ pending'[l] = pending[l]
          /\ \A l \in Loops : lp[l] = "stopped" => lp'[l] = "stopped"
      BY <1>1, <2>2 DEF TypeOK
    <2>4. OnceOK'
      BY <1>1, <2>3, InEmpty, OnceEmpty DEF OnceOK
    <2>5. \A l \in Loops : \A f : Queued(l, f)' <=> Queued(l, f)
      BY <2>2, <2>3, InEmpty DEF Queued
    <2>6. QED
      BY <1>2, <2>3, <2>4, <2>5, LoopsOnlyLife
  <1>4. CASE ~\E k \in Loops : StartFunctors(k)
    <2>1. UNCHANGED batch
      BY <1>4 DEF EndFunctors, QuitBase, LeaveLoop, DestroyPool, QuitThread, JoinThread,
         DestroyBaseLoop, vars, loopVars
    <2>2. ASSUME NEW l \in Loops
          PROVE  /\ lp[l] = "stopped" => lp'[l] = "stopped"
                 /\ \/ pending'[l] = pending[l]
                    \/ pending'[l] = <<>> /\ lp'[l] = "stopped"
      <3>1. /\ lp \in [Loops -> {"poll", "functors", "stopped"}]
            /\ pending \in [Loops -> Seq(Functors)]
        BY <1>1 DEF TypeOK
      <3>2. ASSUME NEW k \in Loops, EndFunctors(k)
            PROVE  /\ lp[l] = "stopped" => lp'[l] = "stopped"
                   /\ \/ pending'[l] = pending[l]
                      \/ pending'[l] = <<>> /\ lp'[l] = "stopped"
        <4>1. lp[k] = "functors"
          BY <3>2 DEF EndFunctors
        <4>2. CASE quit[k]
          <5>1. /\ lp' = [lp EXCEPT ![k] = "stopped"]
                /\ pending' = pending \/ pending' = [pending EXCEPT ![k] = <<>>]
            BY <3>2, <4>2 DEF EndFunctors
          <5>2. lp'[k] = "stopped" /\ (l # k => lp'[l] = lp[l])
            BY <3>1, <5>1
          <5>3. pending'[l] = pending[l] \/ (l = k /\ pending'[l] = <<>>)
            BY <3>1, <5>1
          <5>4. QED
            BY <5>2, <5>3
        <4>3. CASE ~quit[k]
          <5>1. lp' = [lp EXCEPT ![k] = "poll"] /\ pending' = pending
            BY <3>2, <4>3 DEF EndFunctors
          <5>2. QED
            BY <3>1, <4>1, <5>1
        <4>4. QED
          BY <4>2, <4>3
      <3>3. CASE DestroyBaseLoop
        <4>1. /\ pending' = [pending EXCEPT ![0] = <<>>] /\ lp' = lp /\ lp[0] = "stopped"
          BY <1>1, <3>3 DEF DestroyBaseLoop, MainOK
        <4>2. QED
          BY <1>1, <3>1, <4>1
      <3>4. CASE QuitBase \/ LeaveLoop \/ DestroyPool \/ QuitThread \/ JoinThread \/ UNCHANGED vars
        BY <3>4 DEF QuitBase, LeaveLoop, DestroyPool, QuitThread, JoinThread, vars, loopVars
      <3>5. QED
        BY <1>4, <3>2, <3>3, <3>4
    <2>3. OnceOK'
      BY <1>1, <2>1, <2>2, InEmpty, OnceEmpty DEF OnceOK
    <2>4. /\ \A l \in Loops : \A f : Queued(l, f)' => Queued(l, f)
          /\ \A l \in Loops : \A f : Queued(l, f) => Queued(l, f)' \/ lp'[l] = "stopped"
      BY <2>1, <2>2, InEmpty DEF Queued
    <2>5. QED
      BY <1>2, <2>2, <2>3, <2>4, LoopsOnlyLife
  <1>5. QED
    BY <1>3, <1>4

------------------------------------------------------------------------------
(* The theorems.                                                            *)

LEMMA NextInv == IInv /\ [Next]_vars => IInv'
  <1> SUFFICES ASSUME IInv, [Next]_vars PROVE IInv'
    OBVIOUS
  <1>1. CASE \E c \in Conns : NewConnection(c) \/ HandleClose(c)
    BY <1>1, NewConnectionInv, HandleCloseInv
  <1>2. CASE \E l \in Loops : LoopStep(l)
    BY <1>2, StartFunctorsInv, RunEstablishedInv, RunDestroyedInv, RunRemoveInv,
       EndFunctorsInv DEF LoopStep
  <1>3. CASE QuitBase \/ MainStep
    BY <1>3, DestroyConnectionInv, MainInv DEF MainStep
  <1>4. CASE UNCHANGED vars
    <2>1. UNCHANGED <<next, connections, loopOf, state, index, ups, downs, destroys,
                      pending, batch, lp, quit, main, joined>>
      BY <1>4 DEF vars, connVars, loopVars, mainVars
    <2>2. TypeOK' /\ MainOK' /\ OrderOK'
      BY <2>1 DEF IInv, TypeOK, MainOK, OrderOK
    <2>3. \A l \in Loops : \A f : Queued(l, f)' <=> Queued(l, f)
      BY <2>1 DEF Queued
    <2>4. QED
      BY <2>1, <2>2, <2>3, LoopsOnly
  <1>5. QED
    BY <1>1, <1>2, <1>3, <1>4 DEF Next

LEMMA AlwaysIInv == Spec => []IInv
  BY InitInv, NextInv, PTL DEF Spec

LEMMA InitLife == Init => LInv
  <1> SUFFICES ASSUME Init PROVE LInv
    OBVIOUS
  <1>1. \A l \in Loops : \A f : ~Queued(l, f)
    BY InEmpty DEF Init, Queued
  <1>2. 0 \in Loops /\ None # 0
    BY NumLoopsAssumption, NoneAssumption DEF Loops
  <1>3. OnceOK
    BY InEmpty, OnceEmpty DEF Init, OnceOK
  <1>4. ASSUME NEW c \in Conns
        PROVE  LifeOK(c)
    BY <1>1, <1>2 DEF Init, LifeOK, Awaited, Held, Counted
  <1>5. QED
    BY <1>3, <1>4 DEF LInv

LEMMA NextLife == IInv /\ LInv /\ [Next]_vars => LInv'
  <1> SUFFICES ASSUME IInv, LInv, [Next]_vars PROVE LInv'
    OBVIOUS
  <1>1. CASE \E c \in Conns : NewConnection(c) \/ HandleClose(c)
    BY <1>1, NewConnectionLife, HandleCloseLife
  <1>2. CASE \E l \in Loops : LoopStep(l)
    BY <1>2, LoopStepsLife, RunEstablishedLife, RunDestroyedLife, RunRemoveLife DEF LoopStep
  <1>3. CASE QuitBase \/ MainStep \/ UNCHANGED vars
    BY <1>3, DestroyConnectionLife, LoopStepsLife DEF MainStep
  <1>4. QED
    BY <1>1, <1>2, <1>3 DEF Next

LEMMA AlwaysLife == Spec => []LInv
  BY AlwaysIInv, InitLife, NextLife, PTL DEF Spec

LEMMA InvAlive == IInv => KnownChannelsAlive
  <1> SUFFICES ASSUME IInv, NEW c \in Conns, index[c] # "kNew", lp[loopOf[c]] # "stopped"
               PROVE  Alive(c)
    BY DEF KnownChannelsAlive
  <1>1. state[c] # "none"
    BY DEF IInv, StateOK
  <1>2. loopOf[c] \in Loops /\ Owned(c)
    BY <1>1, LoopFacts DEF IInv, OwnerOK, Owned
  <1>3. CASE Queued(loopOf[c], Functor("destroyed", c))
    BY <1>2, <1>3 DEF Queued, In, Functor, Alive, QueuedFor
  <1>4. QED
    BY <1>2, <1>3 DEF Owned, Alive

\* The variables keep their types, and only a loop running functors has some.
THEOREM TypeCorrect == Spec => []TypeOK
  <1>1. IInv => TypeOK
    BY DEF IInv
  <1>2. QED
    BY <1>1, AlwaysIInv, PTL

\* However closing, removal, ~TcpServer and the loops interleave, a poller of a
\* running loop knows only channels of connections some shared_ptr still owns.
THEOREM PollersKnowLiveChannels == Spec => []KnownChannelsAlive
  BY InvAlive, AlwaysIInv, PTL

\* A connection is established once, goes down at most once and after that, and is
\* destroyed at most once and after that: handleClose, the removal queued on the
\* base loop and ~TcpServer never end the same connection twice.
THEOREM ConnectionsLiveOnce == Spec => []LifeCycle
  <1>1. LInv => LifeCycle
    BY DEF LInv, LifeOK, Counted, LifeCycle
  <1>2. QED
    BY <1>1, AlwaysLife, PTL

------------------------------------------------------------------------------
(* What was begun is carried out: the links of ClosedIsReleased, and what    *)
(* has ended when ~TcpServer and its threads have: the end of ServerStops.   *)

\* A connection that is down and in the map has its removal queued; once out of
\* epoll for good it was destroyed.
Closing(c) ==
  state[c] = "kDisconnected" =>
    /\ c \in connections => Queued(0, Functor("remove", c)) \/ lp[0] = "stopped"
    /\ index[c] = "kDeleted" \/ destroys[c] = 1

\* Threads are told to stop only when ~TcpServer has handed out its map.
StopOK ==
  /\ \A l \in Loops : lp[l] = "stopped" => quit[l]
  /\ \A l \in Loops \ {0} : quit[l] => main \in {"threads", "gone"}
  /\ \A l \in 1..joined : lp[l] = "stopped"
  /\ main = "gone" => joined = NumLoops
  /\ main \in {"threads", "gone"} => connections = {}

EndInv == StopOK /\ \A c \in Conns : Closing(c)

LEMMA ClosingKept ==
  ASSUME NEW c \in Conns, Closing(c),
         state'[c] = state[c], index'[c] = index[c], destroys'[c] = destroys[c],
         c \in connections' => c \in connections,
         lp[0] = "stopped" => lp'[0] = "stopped",
         Queued(0, Functor("remove", c)) => Queued(0, Functor("remove", c))' \/ lp'[0] = "stopped"
  PROVE  Closing(c)'
  BY DEF Closing

\* Steps that leave the connections alone and lose no removal.
LEMMA ClosingAllKept ==
  ASSUME EndInv, UNCHANGED <<state, index, destroys, connections>>,
         lp[0] = "stopped" => lp'[0] = "stopped",
         \A f : Queued(0, f) => Queued(0, f)' \/ lp'[0] = "stopped"
  PROVE  \A c \in Conns : Closing(c)'
  BY ClosingKept DEF EndInv

LEMMA EventClosing ==
  ASSUME IInv, EndInv, NEW x \in Conns, NewConnection(x) \/ HandleClose(x)
  PROVE  \A c \in Conns : Closing(c)'
  <1>1. /\ TypeOK /\ 0 \in Loops /\ (state[x] # "none" => loopOf[x] \in Loops)
        /\ UNCHANGED <<lp, batch>>
    BY LoopFacts DEF IInv, NewConnection, HandleClose
  <1>2. \A f : Queued(0, f) => Queued(0, f)'
    <2>1. CASE UNCHANGED pending
      BY <1>1, <2>1 DEF Queued
    <2>2. ASSUME NEW k \in Loops, NEW g \in Functors, QueueInLoop(k, g)
          PROVE  \A f : Queued(0, f) => Queued(0, f)'
      BY <1>1, <2>2, QueueOnly
    <2>3. CASE NewConnection(x)
      <3>1. NumLoops > 0 => next + 1 \in Loops
        BY <1>1, NumLoopsAssumption DEF TypeOK, Loops
      <3>2. Functor("established", x) \in Functors
        BY FunctorType
      <3>3. UNCHANGED pending \/ (NumLoops > 0 /\ QueueInLoop(next + 1, Functor("established", x)))
        BY <2>3 DEF NewConnection
      <3>4. QED
        BY <2>1, <2>2, <3>1, <3>2, <3>3
    <2>4. CASE HandleClose(x)
      <3>1. Functor("remove", x) \in Functors /\ Functor("destroyed", x) \in Functors
        BY FunctorType
      <3>2. state[x] # "none"
        BY <2>4 DEF HandleClose
      <3>3. \/ QueueInLoop(loopOf[x], Functor("destroyed", x))
            \/ QueueInLoop(0, Functor("remove", x))
        BY <2>4 DEF HandleClose, RemoveConnectionInLoop
      <3>4. QED
        BY <1>1, <2>2, <3>1, <3>2, <3>3
    <2>5. QED
      BY <2>3, <2>4
  <1>3. ASSUME NEW c \in Conns, c # x PROVE Closing(c)'
    <2>1. /\ state'[c] = state[c] /\ index'[c] = index[c] /\ destroys'[c] = destroys[c]
      BY <1>1, <1>3 DEF NewConnection, HandleClose, ConnectEstablished, TypeOK
    <2>2. c \in connections' => c \in connections
      BY <1>3 DEF NewConnection, HandleClose, RemoveConnectionInLoop
    <2>3. Closing(c)
      BY DEF EndInv
    <2>4. QED
      BY <1>1, <1>2, <2>1, <2>2, <2>3, ClosingKept
  <1>4. Closing(x)'
    <2>1. CASE NewConnection(x)
      <3>1. state'[x] \in {"kConnecting", "kConnected"}
        BY <1>1, <2>1 DEF NewConnection, ConnectEstablished, TypeOK
      <3>2. QED
        BY <3>1 DEF Closing
    <2>2. CASE HandleClose(x)
      <3>1. index'[x] = "kDeleted"
        BY <1>1, <2>2 DEF HandleClose, TypeOK
      <3>2. CASE loopOf[x] = 0
        <4>1. x \notin connections'
          BY <2>2, <3>2 DEF HandleClose, RemoveConnectionInLoop
        <4>2. QED
          BY <3>1, <4>1 DEF Closing
      <3>3. CASE loopOf[x] # 0
        <4>1. QueueInLoop(0, Functor("remove", x)) /\ Functor("remove", x) \in Functors
          BY <2>2, <3>3, FunctorType DEF HandleClose
        <4>2. Queued(0, Functor("remove", x))'
          BY <1>1, <4>1, QueueOnly
        <4>3. QED
          BY <3>1, <4>2 DEF Closing
      <3>4. QED
        BY <3>2, <3>3
    <2>3. QED
      BY <2>1, <2>2
  <1>5. QED
    BY <1>3, <1>4

LEMMA LoopClosing ==
  ASSUME IInv, EndInv, NEW k \in Loops, StartFunctors(k) \/ EndFunctors(k)
  PROVE  \A c \in Conns : Closing(c)'
  <1>1. TypeOK /\ 0 \in Loops /\ UNCHANGED <<state, index, destroys, connections>>
    BY LoopFacts DEF IInv, StartFunctors, EndFunctors, connVars
  <1>2. lp[0] = "stopped" => lp'[0] = "stopped"
    BY <1>1 DEF StartFunctors, EndFunctors, TypeOK
  <1>3. CASE StartFunctors(k)
    <2>1. /\ batch[k] = <<>> /\ batch'[k] = pending[k] /\ pending'[k] = <<>>
          /\ k # 0 => batch'[0] = batch[0] /\ pending'[0] = pending[0]
      BY <1>1, <1>3 DEF StartFunctors, TypeOK
    <2>2. \A f : Queued(0, f) => Queued(0, f)'
      BY <2>1, InEmpty DEF Queued
    <2>3. QED
      BY <1>1, <1>2, <2>2, ClosingAllKept
  <1>4. CASE EndFunctors(k)
    <2>1. pending'[0] = pending[0] /\ UNCHANGED batch
      BY <1>1, <1>4 DEF EndFunctors, TypeOK
    <2>2. \A f : Queued(0, f) => Queued(0, f)'
      BY <2>1 DEF Queued
    <2>3. QED
      BY <1>1, <1>2, <2>2, ClosingAllKept
  <1>5. QED
    BY <1>3, <1>4

LEMMA FunctorClosing ==
  ASSUME IInv, LInv, EndInv, NEW k \in Loops, NEW x \in Conns,
         RunEstablished(k, x) \/ RunDestroyed(k, x) \/ RunRemove(k, x)
  PROVE  \A c \in Conns : Closing(c)'
  <1>1. TypeOK /\ OrderOK /\ 0 \in Loops /\ UNCHANGED lp
    BY LoopFacts DEF IInv, RunEstablished, RunDestroyed, RunRemove
  <1>2. PICK op \in {"established", "destroyed", "remove"} :
          /\ Starts(k, op, x)
          /\ op = "established" => RunEstablished(k, x)
          /\ op = "destroyed" => RunDestroyed(k, x)
          /\ op = "remove" => RunRemove(k, x)
    BY DEF RunEstablished, RunDestroyed, RunRemove
  <1>3. /\ \A l \in Loops : l # k => batch'[l] = batch[l]
        /\ \A f : In(batch[k], f) <=> (f = Functor(op, x) \/ In(batch'[k], f))
    BY <1>1, <1>2, StartStep
  <1>4. \A f : In(pending[0], f) => In(pending'[0], f)
    <2>1. CASE op \in {"established", "destroyed"}
      BY <1>2, <2>1 DEF RunEstablished, RunDestroyed
    <2>2. CASE op = "remove"
      <3>1. QueueInLoop(loopOf[x], Functor("destroyed", x))
        BY <1>2, <2>2 DEF RunRemove, RemoveConnectionInLoop
      <3>2. Queued(k, Functor("remove", x))
        BY <1>2, <1>3, <2>2 DEF Queued
      <3>3. state[x] # "none"
        BY <3>2 DEF IInv, PlaceOK
      <3>4. loopOf[x] \in Loops /\ Functor("destroyed", x) \in Functors
        BY <3>3, LoopFacts, FunctorType
      <3>5. QED
        BY <1>1, <3>1, <3>4, QueueStep
    <2>3. QED
      BY <1>2, <2>1, <2>2
  <1>5. ASSUME NEW c \in Conns, Queued(0, Functor("remove", c)), c # x
        PROVE  Queued(0, Functor("remove", c))'
    <2>1. Functor("remove", c) # Functor(op, x)
      BY <1>5 DEF Functor
    <2>2. In(batch[0], Functor("remove", c)) => In(batch'[0], Functor("remove", c))
      <3>1. CASE k = 0
        BY <1>3, <2>1, <3>1
      <3>2. CASE k # 0
        BY <1>1, <1>3, <3>2
      <3>3. QED
        BY <3>1, <3>2
    <2>3. QED
      BY <1>4, <1>5, <2>2 DEF Queued
  <1>6. connections' \subseteq connections
    BY <1>2 DEF RunEstablished, RunDestroyed, RunRemove, RemoveConnectionInLoop
  <1>7. ASSUME NEW c \in Conns, c # x PROVE Closing(c)'
    <2>1. state'[c] = state[c] /\ index'[c] = index[c] /\ destroys'[c] = destroys[c]
      BY <1>1, <1>2, <1>7 DEF RunEstablished, RunDestroyed, RunRemove, ConnectEstablished,
         ConnectDestroyed, connVars, TypeOK
    <2>2. Closing(c)
      BY DEF EndInv
    <2>3. QED
      BY <1>1, <1>5, <1>6, <1>7, <2>1, <2>2, ClosingKept
  <1>8. Closing(x)'
    <2>1. CASE op = "established"
      <3>1. state'[x] = "kConnected"
        BY <1>1, <1>2, <2>1 DEF RunEstablished, ConnectEstablished, TypeOK
      <3>2. QED
        BY <3>1 DEF Closing
    <2>2. CASE op = "destroyed"
      <3>1. Queued(k, Functor("destroyed", x))
        BY <1>3, <2>2 DEF Queued
      <3>2. x \notin connections /\ destroys[x] = 0
        BY <3>1 DEF LInv, LifeOK, Awaited
      <3>3. x \notin connections' /\ destroys'[x] = 1
        BY <1>1, <1>2, <1>6, <2>2, <3>2 DEF RunDestroyed, ConnectDestroyed, TypeOK
      <3>4. QED
        BY <3>3 DEF Closing
    <2>3. CASE op = "remove"
      <3>1. x \notin connections' /\ UNCHANGED <<state, index, destroys>>
        BY <1>2, <2>3 DEF RunRemove, RemoveConnectionInLoop, connVars
      <3>2. Closing(x)
        BY DEF EndInv
      <3>3. QED
        BY <3>1, <3>2 DEF Closing
    <2>4. QED
      BY <1>2, <2>1, <2>2, <2>3
  <1>9. QED
    BY <1>7, <1>8

LEMMA MainClosing ==
  ASSUME IInv, LInv, EndInv, QuitBase \/ MainStep \/ UNCHANGED vars
  PROVE  \A c \in Conns : Closing(c)'
  <1>1. TypeOK /\ MainOK /\ 0 \in Loops
    BY LoopFacts DEF IInv
  <1>2. CASE DestroyBaseLoop
    <2>1. lp'[0] = "stopped" /\ UNCHANGED <<state, index, destroys, connections>>
      BY <1>1, <1>2 DEF DestroyBaseLoop, MainOK, connVars
    <2>2. QED
      BY <2>1, ClosingAllKept
  <1>3. CASE QuitBase \/ LeaveLoop \/ DestroyPool \/ QuitThread \/ JoinThread \/ UNCHANGED vars
    <2>1. UNCHANGED <<state, index, destroys, connections, lp, batch, pending>>
      BY <1>3 DEF QuitBase, LeaveLoop, DestroyPool, QuitThread, JoinThread, connVars, loopVars,
         vars
    <2>2. \A f : Queued(0, f) => Queued(0, f)'
      BY <2>1 DEF Queued
    <2>3. QED
      BY <2>1, <2>2, ClosingAllKept
  <1>4. ASSUME NEW x \in Conns, DestroyConnection(x) PROVE \A c \in Conns : Closing(c)'
    <2>1. /\ lp[0] = "stopped" /\ UNCHANGED lp /\ connections' = connections \ {x}
          /\ x \in connections
      BY <1>1, <1>4 DEF DestroyConnection, MainOK
    <2>2. destroys[x] = 0
      BY <2>1 DEF LInv, LifeOK, Held
    <2>3. ConnectDestroyed(x) \/ UNCHANGED connVars
      BY <1>4 DEF DestroyConnection
    <2>4. ASSUME NEW c \in Conns, c # x PROVE Closing(c)'
      <3>1. state'[c] = state[c] /\ index'[c] = index[c] /\ destroys'[c] = destroys[c]
        BY <1>1, <2>3, <2>4 DEF ConnectDestroyed, connVars, TypeOK
      <3>2. Closing(c)
        BY DEF EndInv
      <3>3. QED
        BY <2>1, <3>1, <3>2, ClosingKept
    <2>5. Closing(x)'
      <3>1. CASE ConnectDestroyed(x)
        <4>1. destroys'[x] = 1
          BY <1>1, <2>2, <3>1 DEF ConnectDestroyed, TypeOK
        <4>2. QED
          BY <2>1, <4>1 DEF Closing
      <3>2. CASE UNCHANGED connVars
        <4>1. Closing(x)
          BY DEF EndInv
        <4>2. QED
          BY <2>1, <3>2, <4>1 DEF Closing, connVars
      <3>3. QED
        BY <2>3, <3>1, <3>2
    <2>6. QED
      BY <2>4, <2>5
  <1>5. QED
    BY <1>2, <1>3, <1>4 DEF MainStep

LEMMA NextStop == IInv /\ StopOK /\ [Next]_vars => StopOK'
  <1> SUFFICES ASSUME IInv, StopOK, [Next]_vars PROVE StopOK'
    OBVIOUS
  <1>1. /\ TypeOK /\ MainOK /\ 0 \in Loops /\ NumLoops \in Nat /\ joined \in 0..NumLoops
        /\ Loops = 0..NumLoops
        /\ lp \in [Loops -> {"poll", "functors", "stopped"}] /\ quit \in [Loops -> BOOLEAN]
    BY LoopFacts, NumLoopsAssumption DEF IInv, TypeOK, Loops
  <1>2. CASE UNCHANGED <<lp, quit, main, joined>> /\ connections' \subseteq connections
    BY <1>2 DEF StopOK
  <1>3. ASSUME NEW x \in Conns, NewConnection(x) PROVE StopOK'
    <2>1. main = "loop" /\ UNCHANGED <<lp, quit, main, joined>>
      BY <1>1, <1>3 DEF NewConnection, MainOK, TypeOK, mainVars
    <2>2. QED
      BY <2>1 DEF StopOK
  <1>4. ASSUME NEW x \in Conns, HandleClose(x) PROVE StopOK'
    BY <1>2, <1>4 DEF HandleClose, RemoveConnectionInLoop, mainVars
  <1>5. ASSUME NEW l \in Loops, LoopStep(l) PROVE StopOK'
    <2>1. CASE \E c \in Conns : RunEstablished(l, c) \/ RunDestroyed(l, c) \/ RunRemove(l, c)
      BY <1>2, <2>1 DEF RunEstablished, RunDestroyed, RunRemove, RemoveConnectionInLoop, mainVars
    <2>2. CASE StartFunctors(l) \/ EndFunctors(l)
      <3>1. /\ lp[l] # "stopped" /\ UNCHANGED <<quit, main, joined, connections>>
            /\ \E p \in {"poll", "functors", "stopped"} :
                 lp' = [lp EXCEPT ![l] = p] /\ (p = "stopped" => quit[l])
        BY <2>2 DEF StartFunctors, EndFunctors, mainVars
      <3>2. PICK p \in {"poll", "functors", "stopped"} :
              lp' = [lp EXCEPT ![l] = p] /\ (p = "stopped" => quit[l])
        BY <3>1
      <3>3. \A k \in Loops : lp'[k] = IF k = l THEN p ELSE lp[k]
        BY <1>1, <3>2
      <3>4. \A k \in 1..joined : k \in Loops /\ k # l
        BY <1>1, <3>1 DEF StopOK
      <3>5. QED
        BY <3>1, <3>2, <3>3, <3>4 DEF StopOK
    <2>3. QED
      BY <1>5, <2>1, <2>2 DEF LoopStep
  <1>6. CASE QuitBase
    <2>1. UNCHANGED <<lp, main, joined, connections>> /\ quit' = [quit EXCEPT ![0] = TRUE]
      BY <1>6 DEF QuitBase, mainVars
    <2>2. \A l \in Loops : quit'[l] = IF l = 0 THEN TRUE ELSE quit[l]
      BY <1>1, <2>1
    <2>3. QED
      BY <2>1, <2>2 DEF StopOK
  <1>7. CASE LeaveLoop
    <2>1. main = "loop" /\ main' = "conns" /\ UNCHANGED <<lp, quit, joined, connections>>
      BY <1>7 DEF LeaveLoop, loopVars
    <2>2. QED
      BY <2>1 DEF StopOK
  <1>8. ASSUME NEW x \in Conns, DestroyConnection(x) PROVE StopOK'
    BY <1>2, <1>8 DEF DestroyConnection, mainVars
  <1>9. CASE DestroyPool
    <2>1. /\ main = "conns" /\ main' = "threads" /\ connections = {}
          /\ UNCHANGED <<lp, quit, joined, connections>>
      BY <1>9 DEF DestroyPool, loopVars
    <2>2. QED
      BY <2>1 DEF StopOK
  <1>10. CASE QuitThread
    <2>1. /\ main = "threads" /\ UNCHANGED <<lp, main, joined, connections>>
          /\ quit' = [quit EXCEPT ![joined + 1] = TRUE]
      BY <1>10 DEF QuitThread, mainVars
    <2>2. \A l \in Loops : quit[l] => quit'[l]
      BY <1>1, <2>1
    <2>3. QED
      BY <2>1, <2>2 DEF StopOK
  <1>11. CASE JoinThread
    <2>1. /\ main = "threads" /\ joined' = joined + 1 /\ lp[joined + 1] = "stopped"
          /\ UNCHANGED <<lp, quit, main, connections>>
      BY <1>11 DEF JoinThread, loopVars
    <2>2. \A l \in 1..joined' : l \in 1..joined \/ l = joined + 1
      BY <1>1, <2>1
    <2>3. QED
      BY <2>1, <2>2 DEF StopOK
  <1>12. CASE DestroyBaseLoop
    <2>1. /\ main = "threads" /\ joined = NumLoops /\ main' = "gone"
          /\ UNCHANGED <<lp, quit, joined, connections>>
      BY <1>12 DEF DestroyBaseLoop
    <2>2. QED
      BY <2>1 DEF StopOK
  <1>13. CASE UNCHANGED vars
    BY <1>2, <1>13 DEF vars, loopVars, mainVars
  <1>14. QED
    BY <1>3, <1>4, <1>5, <1>6, <1>7, <1>8, <1>9, <1>10, <1>11, <1>12, <1>13 DEF Next, MainStep

LEMMA AlwaysEnds == Spec => []EndInv
  <1>1. Init => EndInv
    <2> SUFFICES ASSUME Init PROVE EndInv
      OBVIOUS
    <2>1. StopOK
      BY NumLoopsAssumption DEF Init, StopOK, Loops
    <2>2. QED
      BY <2>1 DEF Init, EndInv, Closing
  <1>2. IInv /\ LInv /\ EndInv /\ [Next]_vars => EndInv'
    <2> SUFFICES ASSUME IInv, LInv, EndInv, [Next]_vars PROVE EndInv'
      OBVIOUS
    <2>1. StopOK'
      BY NextStop DEF EndInv
    <2>2. \A c \in Conns : Closing(c)'
      BY EventClosing, LoopClosing, FunctorClosing, MainClosing DEF Next, LoopStep
    <2>3. QED
      BY <2>1, <2>2 DEF EndInv
  <1>3. QED
    BY <1>1, <1>2, AlwaysIInv, AlwaysLife, PTL DEF Spec

\* A connection that went down while the base loop runs waits for its removal on
\* the base loop, or left the map and waits for connectDestroyed on its own loop,
\* or was destroyed.
BeingReleased ==
  \A c \in Conns :
    state[c] = "kDisconnected" /\ lp[0] # "stopped" =>
      \/ Queued(0, Functor("remove", c))
      \/ c \notin connections
           /\ (Queued(loopOf[c], Functor("destroyed", c)) \/ destroys[c] = 1)

\* A thread's loop stops only when no loop accepts and the map is empty, and the
\* server is gone only when every thread was joined.
StopsInOrder ==
  /\ \A l \in Loops \ {0} : lp[l] = "stopped" => lp[0] = "stopped" /\ connections = {}
  /\ main = "gone" => \A l \in Loops : lp[l] = "stopped"

\* The functor that takes a closed connection one step further is always queued on
\* a loop that runs (removeConnection, removeConnectionInLoop, connectDestroyed):
\* the safety half of ClosedIsReleased.
THEOREM ClosedStaysOnItsWay == Spec => []BeingReleased
  <1>1. IInv /\ EndInv => BeingReleased
    <2> SUFFICES ASSUME IInv, EndInv, NEW c \in Conns, state[c] = "kDisconnected",
                        lp[0] # "stopped", ~Queued(0, Functor("remove", c))
                 PROVE  /\ c \notin connections
                        /\ Queued(loopOf[c], Functor("destroyed", c)) \/ destroys[c] = 1
      BY DEF BeingReleased
    <2>1. c \notin connections /\ (index[c] = "kDeleted" \/ destroys[c] = 1)
      BY DEF EndInv, Closing
    <2>2. loopOf[c] \in Loops /\ lp[loopOf[c]] # "stopped"
      BY LoopFacts DEF IInv, MainOK, EndInv, StopOK
    <2>3. QED
      BY <2>1, <2>2 DEF IInv, OwnerOK
  <1>2. QED
    BY <1>1, AlwaysIInv, AlwaysEnds, PTL

\* ~TcpServer hands every connection to its loop before any thread is stopped, and
\* the pool is gone only with all its threads (TcpServer::~TcpServer,
\* EventLoopThread::~EventLoopThread).
THEOREM ServerEndsInOrder == Spec => []StopsInOrder
  <1>1. IInv /\ EndInv => StopsInOrder
    <2> SUFFICES ASSUME IInv, EndInv PROVE StopsInOrder
      OBVIOUS
    <2>1. MainOK /\ StopOK /\ TypeOK /\ NumLoops \in Nat /\ Loops = 0..NumLoops
      BY NumLoopsAssumption DEF IInv, EndInv, Loops
    <2>2. ASSUME NEW l \in Loops \ {0}, lp[l] = "stopped"
          PROVE  lp[0] = "stopped" /\ connections = {}
      BY <2>1, <2>2 DEF StopOK, MainOK
    <2>3. ASSUME main = "gone", NEW l \in Loops PROVE lp[l] = "stopped"
      <3>1. joined = NumLoops /\ lp[0] = "stopped"
        BY <2>1, <2>3 DEF StopOK, MainOK
      <3>2. l = 0 \/ l \in 1..joined
        BY <2>1, <3>1
      <3>3. QED
        BY <2>1, <3>1, <3>2 DEF StopOK
    <2>4. QED
      BY <2>2, <2>3 DEF StopsInOrder
  <1>2. QED
    BY <1>1, AlwaysIInv, AlwaysEnds, PTL
==============================================================================
