------------------------------ MODULE TcpServer ------------------------------
(***************************************************************************)
(* TcpServer of 7_myMuduo with its EventLoopThreadPool: connections made   *)
(* by the base loop, handed round to the io loops, removed through the     *)
(* base loop and destroyed in their own, until main() leaves the base loop *)
(* and destroys the server.                                                *)
(*                                                                         *)
(* Loop 0 is the base loop, run by the main thread; 1 to NumLoops are the  *)
(* loops of the pool, already running.  A loop keeps the order of functors *)
(* and the point where it looks at quit_ (EventLoop has the rest of it).   *)
(* Of a connection it keeps what other parts of the server depend upon:    *)
(* who holds a TcpConnectionPtr to it, and whether its poller knows its    *)
(* channel, which is by a raw pointer.                                     *)
(***************************************************************************)
EXTENDS Integers, Sequences, FiniteSets

CONSTANTS Conns,      \* connections that may be accepted
          NumLoops,   \* numThreads_
          None

ASSUME NumLoopsAssumption == NumLoops \in Nat
ASSUME NoneAssumption == None \notin Nat

Loops == 0..NumLoops
PoolLoops == 1..NumLoops
IoLoops == IF NumLoops = 0 THEN {0} ELSE PoolLoops

VARIABLES next,          \* next_
          connections,   \* connections_
          loopOf,        \* the loop of a connection, None before it is made
          state,         \* state_, "none" before
          index,         \* index_ of its channel
          pending,       \* pendingFunctors_ of each loop
          batch,         \* the rest of the vector doPendingFunctors runs
          lp,            \* "poll", "functors" or "stopped"
          quit,          \* quit_
          main,          \* main thread: "loop", "conns", "threads" or "gone"
          joined,        \* threads of the pool destroyed so far
          ups, downs,    \* history: calls of connectionCallback_
          destroys       \* history: runs of connectDestroyed

connVars == <<loopOf, state, index, ups, downs, destroys>>
loopVars == <<pending, batch, lp, quit>>
mainVars == <<main, joined>>
vars == <<next, connections, connVars, loopVars, mainVars>>

Functor(op, c) == [op |-> op, conn |-> c]

Init ==
  /\ next = 0
  /\ connections = {}
  /\ loopOf = [c \in Conns |-> None]
  /\ state = [c \in Conns |-> "none"]
  /\ index = [c \in Conns |-> "kNew"]
  /\ pending = [l \in Loops |-> <<>>]
  /\ batch = [l \in Loops |-> <<>>]
  /\ lp = [l \in Loops |-> "poll"]
  /\ quit = [l \in Loops |-> FALSE]
  /\ main = "loop"
  /\ joined = 0
  /\ ups = [c \in Conns |-> 0]
  /\ downs = [c \in Conns |-> 0]
  /\ destroys = [c \in Conns |-> 0]

------------------------------------------------------------------------------
(* What happens to a connection.                                            *)

QueueInLoop(l, f) == pending' = [pending EXCEPT ![l] = Append(@, f)]

ConnectEstablished(c) ==
  /\ state' = [state EXCEPT ![c] = "kConnected"]
  /\ index' = [index EXCEPT ![c] = "kAdded"]
  /\ ups' = [ups EXCEPT ![c] = @ + 1]
  /\ UNCHANGED <<downs, destroys>>

ConnectDestroyed(c) ==
  /\ IF state[c] = "kConnected"
       THEN /\ state' = [state EXCEPT ![c] = "kDisconnected"]
            /\ downs' = [downs EXCEPT ![c] = @ + 1]
       ELSE UNCHANGED <<state, downs>>
  /\ index' = [index EXCEPT ![c] = "kNew"]
  /\ destroys' = [destroys EXCEPT ![c] = @ + 1]
  /\ UNCHANGED <<loopOf, ups>>

\* Mutant of RemoveConnectionInLoop: the map keeps the connection.
RemoveConnectionInLoopKeeps(c) ==
  /\ QueueInLoop(loopOf[c], Functor("destroyed", c))
  /\ UNCHANGED connections

\* Mutant of RemoveConnectionInLoop: connectDestroyed is not queued.
RemoveConnectionInLoopErases(c) ==
  /\ connections' = connections \ {c}
  /\ UNCHANGED pending

RemoveConnectionInLoop(c) ==
  /\ connections' = connections \ {c}
  /\ QueueInLoop(loopOf[c], Functor("destroyed", c))

------------------------------------------------------------------------------
(* The base loop's events.                                                  *)

NextAfter(n) == IF n + 1 >= NumLoops THEN 0 ELSE n + 1

\* The acceptor accepts a connection and newConnection gives it to the next loop.
NewConnection(c) ==
  /\ lp[0] = "poll"
  /\ state[c] = "none"
  /\ connections' = connections \cup {c}
  /\ \/ /\ NumLoops = 0
        /\ loopOf' = [loopOf EXCEPT ![c] = 0]
        /\ ConnectEstablished(c)
        /\ UNCHANGED <<next, pending>>
     \/ /\ NumLoops > 0
        /\ next' = NextAfter(next)
        /\ loopOf' = [loopOf EXCEPT ![c] = next + 1]
        /\ state' = [state EXCEPT ![c] = "kConnecting"]
        /\ QueueInLoop(next + 1, Functor("established", c))
        /\ UNCHANGED <<index, ups, downs, destroys>>
  /\ UNCHANGED <<batch, lp, quit, mainVars>>

\* Some thread, or a callback of the base loop, quits it.
QuitBase ==
  /\ main = "loop"
  /\ ~quit[0]
  /\ quit' = [quit EXCEPT ![0] = TRUE]
  /\ UNCHANGED <<next, connections, connVars, pending, batch, lp, mainVars>>

------------------------------------------------------------------------------
(* Any loop.                                                                *)

\* The peer closes the connection: handleClose and, through closeCallback_,
\* removeConnection, which the base loop runs at once when it is the io loop.
HandleClose(c) ==
  /\ state[c] = "kConnected"
  /\ lp[loopOf[c]] = "poll"
  /\ state' = [state EXCEPT ![c] = "kDisconnected"]
  /\ index' = [index EXCEPT ![c] = "kDeleted"]
  /\ downs' = [downs EXCEPT ![c] = @ + 1]
  /\ IF loopOf[c] = 0
       THEN RemoveConnectionInLoop(c)
       ELSE /\ QueueInLoop(0, Functor("remove", c))
            /\ UNCHANGED connections
  /\ UNCHANGED <<next, loopOf, ups, destroys, batch, lp, quit, mainVars>>

StartFunctors(l) ==
  /\ lp[l] = "poll"
  /\ pending[l] # <<>> \/ quit[l]
  /\ lp' = [lp EXCEPT ![l] = "functors"]
  /\ batch' = [batch EXCEPT ![l] = pending[l]]
  /\ pending' = [pending EXCEPT ![l] = <<>>]
  /\ UNCHANGED <<next, connections, connVars, quit, mainVars>>

Starts(l, op, c) ==
  /\ lp[l] = "functors"
  /\ batch[l] # <<>>
  /\ Head(batch[l]) = Functor(op, c)
  /\ batch' = [batch EXCEPT ![l] = Tail(@)]

RunEstablished(l, c) ==
  /\ Starts(l, "established", c)
  /\ ConnectEstablished(c)
  /\ UNCHANGED <<next, connections, loopOf, pending, lp, quit, mainVars>>

RunDestroyed(l, c) ==
  /\ Starts(l, "destroyed", c)
  /\ ConnectDestroyed(c)
  /\ UNCHANGED <<next, connections, pending, lp, quit, mainVars>>

RunRemove(l, c) ==
  /\ Starts(l, "remove", c)
  /\ RemoveConnectionInLoop(c)
  /\ UNCHANGED <<next, connVars, lp, quit, mainVars>>

\* The loop looks at quit_ and polls again, or returns: a pool thread then
\* destroys its EventLoop and the functors still queued.
EndFunctors(l) ==
  /\ lp[l] = "functors"
  /\ batch[l] = <<>>
  /\ IF quit[l]
       THEN /\ lp' = [lp EXCEPT ![l] = "stopped"]
            /\ pending' = IF l = 0 THEN pending ELSE [pending EXCEPT ![l] = <<>>]
       ELSE /\ lp' = [lp EXCEPT ![l] = "poll"]
            /\ UNCHANGED pending
  /\ UNCHANGED <<next, connections, connVars, batch, quit, mainVars>>

------------------------------------------------------------------------------
(* The main thread, once loop.loop() has returned: ~TcpServer, its pool,    *)
(* and at last the base EventLoop.                                          *)

LeaveLoop ==
  /\ main = "loop"
  /\ lp[0] = "stopped"
  /\ main' = "conns"
  /\ UNCHANGED <<next, connections, connVars, loopVars, joined>>

\* The body of ~TcpServer, for one entry of connections_.
DestroyConnection(c) ==
  /\ main = "conns"
  /\ c \in connections
  /\ connections' = connections \ {c}
  /\ IF loopOf[c] = 0
       THEN /\ ConnectDestroyed(c)
            /\ UNCHANGED pending
       ELSE /\ QueueInLoop(loopOf[c], Functor("destroyed", c))
            /\ UNCHANGED connVars
  /\ UNCHANGED <<next, batch, lp, quit, mainVars>>

DestroyPool ==
  /\ main = "conns"
  /\ connections = {}
  /\ main' = "threads"
  /\ UNCHANGED <<next, connections, connVars, loopVars, joined>>

\* Mutant of QuitThread: the thread is joined without being told to stop.
QuitThreadSilently ==
  /\ main = "threads"
  /\ joined < NumLoops
  /\ UNCHANGED vars

\* ~EventLoopThread of the next thread: quit, then join.
QuitThread ==
  /\ main = "threads"
  /\ joined < NumLoops
  /\ ~quit[joined + 1]
  /\ quit' = [quit EXCEPT ![joined + 1] = TRUE]
  /\ UNCHANGED <<next, connections, connVars, pending, batch, lp, mainVars>>

JoinThread ==
  /\ main = "threads"
  /\ joined < NumLoops
  /\ lp[joined + 1] = "stopped"
  /\ joined' = joined + 1
  /\ UNCHANGED <<next, connections, connVars, loopVars, main>>

DestroyBaseLoop ==
  /\ main = "threads"
  /\ joined = NumLoops
  /\ main' = "gone"
  /\ pending' = [pending EXCEPT ![0] = <<>>]
  /\ UNCHANGED <<next, connections, connVars, batch, lp, quit, joined>>

------------------------------------------------------------------------------
LoopStep(l) ==
  \/ StartFunctors(l)
  \/ \E c \in Conns :
       \/ RunEstablished(l, c)
       \/ RunDestroyed(l, c)
       \/ RunRemove(l, c)
  \/ EndFunctors(l)

MainStep ==
  \/ LeaveLoop
  \/ \E c \in Conns : DestroyConnection(c)
  \/ DestroyPool
  \/ QuitThread
  \/ JoinThread
  \/ DestroyBaseLoop

Next ==
  \/ \E c \in Conns : NewConnection(c) \/ HandleClose(c)
  \/ QuitBase
  \/ \E l \in Loops : LoopStep(l)
  \/ MainStep

Spec == Init /\ [][Next]_vars

\* Every loop and the main thread are scheduled.
FairSpec ==
  /\ Spec
  /\ \A l \in Loops : WF_vars(LoopStep(l))
  /\ WF_vars(MainStep)

------------------------------------------------------------------------------
Functors == [op : {"established", "destroyed", "remove"}, conn : Conns]

TypeOK ==
  /\ next \in 0..NumLoops /\ (NumLoops > 0 => next < NumLoops)
  /\ connections \subseteq Conns
  /\ loopOf \in [Conns -> IoLoops \cup {None}]
  /\ state \in [Conns -> {"none", "kConnecting", "kConnected", "kDisconnected"}]
  /\ index \in [Conns -> {"kNew", "kAdded", "kDeleted"}]
  /\ pending \in [Loops -> Seq(Functors)]
  /\ batch \in [Loops -> Seq(Functors)]
  /\ lp \in [Loops -> {"poll", "functors", "stopped"}]
  /\ quit \in [Loops -> BOOLEAN]
  /\ \A l \in Loops : lp[l] # "functors" => batch[l] = <<>>
  /\ main \in {"loop", "conns", "threads", "gone"}
  /\ joined \in 0..NumLoops
  /\ ups \in [Conns -> Nat] /\ downs \in [Conns -> Nat] /\ destroys \in [Conns -> Nat]

QueuedFor(c) ==
  \E l \in Loops :
    \/ \E i \in 1..Len(pending[l]) : pending[l][i].conn = c
    \/ \E i \in 1..Len(batch[l]) : batch[l][i].conn = c

\* Some shared_ptr still owns the connection: an entry of connections_ or a
\* functor that was given one.
Alive(c) == c \in connections \/ QueuedFor(c)

\* A poller never knows the channel of a connection that was freed: whatever
\* the order in which the io loop, the base loop and ~TcpServer let go of it,
\* the last owner is the functor that removes the channel
\* (removeConnectionInLoop, ~TcpServer, connectDestroyed).
KnownChannelsAlive ==
  \A c \in Conns :
    index[c] # "kNew" /\ lp[loopOf[c]] # "stopped" => Alive(c)

\* A connection is established once, goes down at most once and after that, and
\* is destroyed at most once and after that, though its peer, removeConnection
\* and ~TcpServer may all be ending it (newConnection, removeConnectionInLoop,
\* ~TcpServer).
LifeCycle ==
  \A c \in Conns : /\ ups[c] <= 1
                   /\ downs[c] <= ups[c]
                   /\ destroys[c] <= ups[c]

\* A connection that was closed is destroyed and released, unless the base loop
\* is quit first (removeConnection and the two queues behind it).
ClosedIsReleased ==
  \A c \in Conns :
    (state[c] = "kDisconnected") ~> (quit[0] \/ (destroys[c] = 1 /\ ~Alive(c)))

\* Once the base loop is told to quit, the server is destroyed and all its
\* threads are joined (~EventLoopThread).
ServerStops == quit[0] ~> (main = "gone" /\ \A l \in Loops : lp[l] = "stopped")

\* What the comment at TcpServer.cc:41 says ~TcpServer does with every connection
\* it still has: once its threads are gone, all that were established have been
\* through connectDestroyed. The code breaks it (README, 5).
AllDestroyed == main = "gone" => \A c \in Conns : destroys[c] = ups[c]
==============================================================================
